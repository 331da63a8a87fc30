--------------------------- MODULE Updates_proofs ---------------------------
(***************************************************************************)
(* Proofs about Updates for every value of its constants: an inductive     *)
(* invariant, and from it that the account implements UpdateLog, GapWaits, *)
(* NoLostContainer, ContainersInOrder and SkippedStaysAhead.               *)
(***************************************************************************)
EXTENDS Updates, PtsWaiter_proofs, WellFoundedInduction

-----------------------------------------------------------------------------
(* The client's record, and what its handlers may do to it.                 *)

RequestType ==
    [state : {"none", "sent", "answered", "failed"}, pts : Nat, date : Nat]

ClientType ==
    [box : BoxType(Nat, log), seq : Nat, date : Nat, queue : SUBSET Container,
     seqTimer : BOOLEAN, minTimer : BOOLEAN, request : RequestType,
     known : SUBSET log, seen : SUBSET Container, skipped : SUBSET Nat]

\* The server's log: disjoint intervals up to its pts.
LogInv ==
    /\ log \subseteq Update /\ Intervals(log) /\ serverPts \in Nat /\ serverPts > 0
    /\ \A u \in log : u.pts <= serverPts

\* The box is requesting while a request is under way, which was made with
\* the pts the box has; then nothing waits for its turn.
RequestOK(t) ==
    /\ t.box.requesting <=> t.request.state # "none"
    /\ t.box.requesting => t.request.pts = t.box.good /\ t.queue = {}

\* The record is in order as far as the pts is concerned, `rest' being the
\* updates that are still to be given to the box.
PtsOK(t, rest) ==
    /\ t \in ClientType /\ Sound(log, serverPts, t.box, t.known, rest)
    /\ Waiting(t.box) /\ QueueBelow(t.box) /\ RequestOK(t)

\* What feeding updates leaves alone, and what it does to a request: none, or
\* one is made with the pts and the date, and nothing waits any more.
Fed(s, t) ==
    /\ t.seq = s.seq /\ t.date = s.date /\ t.seen = s.seen
    /\ s.known \subseteq t.known /\ t.box.good >= s.box.good
    /\ s.box.requesting => t.box.requesting /\ t.box.good = s.box.good
    /\ (t.box.requesting => s.box.requesting) =>
         t.queue = s.queue /\ t.seqTimer = s.seqTimer /\ t.request = s.request
    /\ t.box.requesting /\ ~s.box.requesting =>
         /\ t.queue = {} /\ ~t.seqTimer
         /\ t.request = [state |-> "sent", pts |-> t.box.good, date |-> s.date]
    /\ s.minTimer => t.minTimer

LEMMA FedTwice ==
    ASSUME NEW s, NEW t, NEW v, s \in ClientType, t \in ClientType, v \in ClientType,
           Fed(s, t), Fed(t, v)
    PROVE  Fed(s, v)
<1>1. /\ s.box.good \in Nat /\ t.box.good \in Nat /\ v.box.good \in Nat
      /\ s.box.requesting \in BOOLEAN /\ t.box.requesting \in BOOLEAN /\ v.box.requesting \in BOOLEAN
  BY DEF ClientType, BoxType
<1> QED BY <1>1 DEF Fed

\* getDifference().
LEMMA GetDifferenceFed ==
    ASSUME NEW rest, NEW s, PtsOK(s, rest)
    PROVE  LET t == GetDifference(s)
           IN  /\ PtsOK(t, rest) /\ Fed(s, t) /\ t.box.requesting /\ t.box.good = s.box.good
               /\ t.known = s.known /\ t.minTimer = s.minTimer /\ t.skipped = s.skipped
<1> DEFINE t == GetDifference(s)
<1>1. /\ s \in ClientType /\ s.box \in BoxType(Nat, log) /\ s.box.good \in Nat /\ s.date \in Nat
      /\ Sound(log, serverPts, s.box, s.known, rest) /\ RequestOK(s)
  BY DEF PtsOK, ClientType, BoxType
<1>2. /\ t.box \in BoxType(Nat, log) /\ t.box.requesting /\ ~t.box.timer
      /\ t.box.good = s.box.good /\ t.box.last = s.box.last /\ t.box.queue \subseteq s.box.queue
      /\ t.seq = s.seq /\ t.date = s.date /\ t.seen = s.seen /\ t.known = s.known
      /\ t.minTimer = s.minTimer /\ t.skipped = s.skipped
      /\ s.box.requesting => t.queue = s.queue /\ t.seqTimer = s.seqTimer /\ t.request = s.request
      /\ ~s.box.requesting => /\ t.queue = {} /\ ~t.seqTimer
             /\ t.request = [state |-> "sent", pts |-> s.box.good, date |-> s.date]
  <2>1. CASE s.box.requesting
    BY <1>1, <2>1 DEF GetDifference, ClientType, BoxType
  <2>2. CASE ~s.box.requesting
    BY <1>1, <2>2 DEF GetDifference, Request, SetRequesting, ClientType, BoxType
  <2> QED BY <2>1, <2>2
<1>3. t \in ClientType
  <2>1. CASE s.box.requesting
    <3>1. [s.box EXCEPT !.timer = FALSE] \in BoxType(Nat, log)
      BY <1>1 DEF BoxType
    <3>2. t = [s EXCEPT !.box = [s.box EXCEPT !.timer = FALSE]]
      BY <2>1 DEF GetDifference
    <3> QED BY <1>1, <3>1, <3>2 DEF ClientType
  <2>2. CASE ~s.box.requesting
    <3>1. SetRequesting([s.box EXCEPT !.timer = FALSE], TRUE) \in BoxType(Nat, log)
      BY <1>1 DEF SetRequesting, BoxType
    <3>2. [state |-> "sent", pts |-> s.box.good, date |-> s.date] \in RequestType
      BY <1>1 DEF RequestType
    <3>3. t = Request(s)
      BY <2>2 DEF GetDifference
    <3> QED BY <1>1, <3>1, <3>2, <3>3 DEF Request, ClientType
  <2> QED BY <2>1, <2>2
<1> HIDE DEF t
<1>4. Sound(log, serverPts, t.box, t.known, rest)
  BY <1>1, <1>2, SoundFlags
<1>5. Waiting(t.box) /\ QueueBelow(t.box) /\ RequestOK(t)
  BY <1>1, <1>2 DEF Waiting, QueueBelow, RequestOK, PtsOK
<1>6. Fed(s, t)
  BY <1>1, <1>2 DEF Fed
<1> QED BY <1>2, <1>3, <1>4, <1>5, <1>6 DEF PtsOK, t

\* What was given is no longer to come.
LEMMA FewerToCome ==
    ASSUME NEW t, NEW rest, NEW some, PtsOK(t, rest), some \subseteq rest
    PROVE  PtsOK(t, some)
<1>1. /\ t.box \in BoxType(Nat, log) /\ some \in SUBSET rest
      /\ Sound(log, serverPts, t.box, t.known, rest)
  BY DEF PtsOK, ClientType
<1>2. Sound(log, serverPts, t.box, t.known, some)
  <2>1. CASE t.box.requesting
    BY <1>1, <2>1, SoundFlags
  <2>2. CASE ~t.box.requesting
    BY <1>1, <2>2, SoundFlags
  <2> QED BY <2>1, <2>2
<1> QED BY <1>2 DEF PtsOK

\* The box of s was given an update: r is what became of it, with all that
\* was applied, and `less' is to come after it.
GiveOK(s, r, less) ==
    /\ r.applied \subseteq log /\ r.box \in BoxType(Nat, log)
    /\ Gave(log, serverPts, s.box, s.known \union r.applied, less, r.box)
    /\ Waiting(r.box) /\ QueueBelow(r.box)

LEMMA GivenFed ==
    ASSUME NEW rest, NEW less, NEW s, PtsOK(s, rest), NEW r, GiveOK(s, r, less)
    PROVE  LET t == Given(s, r)
           IN  /\ PtsOK(t, less) /\ Fed(s, t)
               /\ t.known = s.known \union r.applied
               /\ t.minTimer = s.minTimer /\ t.skipped = s.skipped
<1> DEFINE t == Given(s, r)
           w == [s EXCEPT !.box = r.box, !.known = @ \union r.applied]
<1>1. /\ s \in ClientType /\ s.date \in Nat /\ RequestOK(s) /\ s.known \subseteq log
      /\ r.box.good \in Nat /\ s.box.requesting \in BOOLEAN /\ r.box.requesting \in BOOLEAN
      /\ s.box.requesting => r.box.requesting /\ r.box.good = s.box.good
      /\ r.box.requesting => r.box.good = s.box.good
      /\ r.box.good >= s.box.good
      /\ Sound(log, serverPts, r.box, s.known \union r.applied, less)
  BY DEF PtsOK, ClientType, BoxType, Gave, GiveOK
<1>2. /\ w \in ClientType /\ w.box = r.box /\ w.known = s.known \union r.applied
      /\ w.seq = s.seq /\ w.date = s.date /\ w.seen = s.seen /\ w.queue = s.queue
      /\ w.minTimer = s.minTimer /\ w.skipped = s.skipped
      /\ w.seqTimer = s.seqTimer /\ w.request = s.request
  BY <1>1 DEF ClientType, GiveOK
<1>3. CASE r.box.requesting /\ ~s.box.requesting
  <2> DEFINE q == [state |-> "sent", pts |-> r.box.good, date |-> s.date]
  <2>1. q \in RequestType
    BY <1>1 DEF RequestType
  <2>2. t = [w EXCEPT !.queue = {}, !.seqTimer = FALSE, !.request = q]
    BY <1>3 DEF Given
  <2>3. q.state = "sent" /\ q.pts = r.box.good
    OBVIOUS
  <2> HIDE DEF q, w
  <2>4. /\ t \in ClientType /\ t.box = r.box /\ t.known = s.known \union r.applied
        /\ t.seq = s.seq /\ t.date = s.date /\ t.seen = s.seen /\ t.queue = {}
        /\ t.minTimer = s.minTimer /\ t.skipped = s.skipped
        /\ ~t.seqTimer /\ t.request = q
    BY <1>2, <2>1, <2>2 DEF ClientType
  <2> HIDE DEF t
  <2>5. RequestOK(t)
    BY <1>3, <2>3, <2>4 DEF RequestOK
  <2>6. Fed(s, t)
    BY <1>1, <1>3, <2>4 DEF Fed, q
  <2> QED BY <1>1, <2>4, <2>5, <2>6 DEF PtsOK, GiveOK, t
<1>4. CASE ~(r.box.requesting /\ ~s.box.requesting)
  <2>1. t = w
    BY <1>4 DEF Given
  <2> HIDE DEF t, w
  <2>2. RequestOK(t)
    BY <1>1, <1>2, <1>4, <2>1 DEF RequestOK
  <2>3. Fed(s, t)
    BY <1>1, <1>2, <1>4, <2>1 DEF Fed
  <2> QED BY <1>1, <1>2, <2>1, <2>2, <2>3 DEF PtsOK, GiveOK, t
<1> QED BY <1>3, <1>4

\* An update with a pts, in a container or a result.
LEMMA GiveUpdateFed ==
    ASSUME LogInv, NEW rest, NEW s, PtsOK(s, rest), NEW u \in log, u \in rest,
           NEW deadline \in Deadlines
    PROVE  LET t == Given(s, UpdateAndApply(s.box, u, deadline))
           IN  /\ PtsOK(t, rest \ {u}) /\ Fed(s, t)
               /\ t.minTimer = s.minTimer /\ t.skipped = s.skipped
<1> DEFINE r == UpdateAndApply(s.box, u, deadline)
<1> HIDE DEF r
<1>1. GiveOK(s, r, rest \ {u})
  BY UpdateAndApplySound DEF LogInv, PtsOK, GiveOK, r
<1>2. /\ PtsOK(Given(s, r), rest \ {u}) /\ Fed(s, Given(s, r))
      /\ Given(s, r).minTimer = s.minTimer /\ Given(s, r).skipped = s.skipped
  BY <1>1, GivenFed
<1> QED BY <1>2 DEF r

\* feedUpdate().
LEMMA FeedUpdateFed ==
    ASSUME LogInv, NEW rest, NEW s, PtsOK(s, rest), NEW u \in log, u \in rest,
           NEW loaded \in BOOLEAN, NEW deadline \in Deadlines
    PROVE  LET t == FeedUpdate(s, u, loaded, deadline)
           IN  /\ PtsOK(t, rest \ {u}) /\ Fed(s, t)
               /\ t.minTimer = s.minTimer /\ t.skipped = s.skipped
<1>1. CASE ~s.box.requesting /\ ~loaded
  <2>1. FeedUpdate(s, u, loaded, deadline) = GetDifference(s)
    BY <1>1 DEF FeedUpdate
  <2>2. PtsOK(GetDifference(s), rest \ {u})
    BY GetDifferenceFed, FewerToCome
  <2> QED BY <2>1, <2>2, GetDifferenceFed
<1>2. CASE ~(~s.box.requesting /\ ~loaded)
  <2>1. FeedUpdate(s, u, loaded, deadline) = Given(s, UpdateAndApply(s.box, u, deadline))
    BY <1>2 DEF FeedUpdate
  <2> QED BY <2>1, GiveUpdateFed
<1> QED BY <1>1, <1>2

\* The channel message of an unknown author, or none: it is left to the
\* difference, with the timer.
Skips(s, t, date) ==
    \/ t.skipped = s.skipped /\ t.minTimer = s.minTimer
    \/ t.skipped = s.skipped \union {date} /\ t.minTimer /\ ~s.box.requesting

LEMMA FeedSkippedFed ==
    ASSUME NEW rest, NEW s, PtsOK(s, rest), NEW date \in Nat
    PROVE  LET t == FeedSkipped(s, date)
           IN  PtsOK(t, rest) /\ Fed(s, t) /\ Skips(s, t, date)
<1> DEFINE t == FeedSkipped(s, date)
<1>1. s \in ClientType /\ s.box.good \in Nat /\ RequestOK(s) /\ s.skipped \subseteq Nat
  BY DEF PtsOK, ClientType, BoxType
<1>2. CASE s.box.requesting
  BY <1>1, <1>2 DEF FeedSkipped, Fed, Skips
<1>3. CASE ~s.box.requesting
  <2>1. t = [s EXCEPT !.minTimer = TRUE, !.skipped = @ \union {date}]
    BY <1>3 DEF FeedSkipped
  <2>2. /\ t \in ClientType /\ t.box = s.box /\ t.seq = s.seq /\ t.date = s.date /\ t.seen = s.seen
        /\ t.known = s.known /\ t.queue = s.queue /\ t.seqTimer = s.seqTimer
        /\ t.request = s.request /\ t.minTimer /\ t.skipped = s.skipped \union {date}
    BY ZenonT(40), <1>1, <2>1 DEF ClientType
  <2> HIDE DEF t
  <2>3. PtsOK(t, rest)
    BY <2>2 DEF PtsOK, RequestOK
  <2>4. Fed(s, t)
    BY <1>1, <1>3, <2>2 DEF Fed
  <2> QED BY <1>3, <2>2, <2>3, <2>4 DEF Skips, t
<1> QED BY <1>2, <1>3

\* The fold of feedUpdateVector() over the one update with a pts, or none.
FeedAll(s, S, loaded, deadline) ==
    LET Feed(u, t) == FeedUpdate(t, u, loaded, deadline) IN FoldSet(Feed, s, S)

LEMMA FoldOne ==
    ASSUME NEW s, NEW u, NEW loaded, NEW deadline
    PROVE  /\ FeedAll(s, {}, loaded, deadline) = s
           /\ FeedAll(s, {u}, loaded, deadline) = FeedUpdate(s, u, loaded, deadline)
<1> DEFINE Feed(v, t) == FeedUpdate(t, v, loaded, deadline)
           One(x) == CHOOSE y \in x : TRUE
           G(S, g) == [x \in SUBSET S |->
                         IF x = {} THEN s ELSE Feed(One(x), g[x \ {One(x)}])]
           iter(S) == CHOOSE g : g = G(S, g)
           first == [x \in SUBSET {u} |-> IF x = {} THEN s ELSE Feed(u, s)]
           none == [x \in SUBSET {} |-> s]
<1>1. /\ FeedAll(s, {}, loaded, deadline) = iter({})[{}]
      /\ FeedAll(s, {u}, loaded, deadline) = iter({u})[{u}]
  BY DEF FeedAll, FoldSet, MapThenFoldSet
<1>2. first = G({u}, first)
  <2>1. ASSUME NEW x \in SUBSET {u}
        PROVE  first[x] = IF x = {} THEN s ELSE Feed(One(x), first[x \ {One(x)}])
    <3>1. CASE x = {}
      BY <3>1
    <3>2. CASE x # {}
      <4>1. x = {u} /\ One(x) = u /\ x \ {One(x)} = {}
        BY <3>2
      <4> HIDE DEF Feed, One
      <4> QED BY <3>2, <4>1
    <3> QED BY <3>1, <3>2
  <2> HIDE DEF Feed, One
  <2> QED BY <2>1
<1>3. none = G({}, none)
  <2> HIDE DEF Feed, One
  <2> QED OBVIOUS
<1>4. iter({u}) = G({u}, iter({u})) /\ iter({}) = G({}, iter({}))
  <2> HIDE DEF G, first, none
  <2> QED BY <1>2, <1>3
<1>5. iter({u})[{}] = s /\ iter({})[{}] = s
  <2> DEFINE p == iter({u})
             q == iter({})
  <2>1. p = G({u}, p) /\ q = G({}, q)
    BY <1>4
  <2> HIDE DEF p, q, Feed, One
  <2>2. p[{}] = s /\ q[{}] = s
    BY <2>1
  <2> QED BY <2>2 DEF p, q
<1>6. iter({u})[{u}] = Feed(u, s)
  <2> DEFINE p == iter({u})
  <2>1. p = G({u}, p) /\ p[{}] = s
    BY <1>4, <1>5
  <2>2. One({u}) = u /\ {u} \ {u} = {} /\ {u} # {}
    OBVIOUS
  <2> HIDE DEF p, Feed, One
  <2>3. p[{u}] = Feed(One({u}), p[{u} \ {One({u})}])
    BY <2>1, <2>2
  <2>4. p[{u}] = Feed(u, s)
    BY <2>1, <2>2, <2>3
  <2> QED BY <2>4 DEF p
<1> HIDE DEF iter, Feed
<1> QED BY <1>1, <1>5, <1>6 DEF Feed

\* A container: at most one update with a pts, of the log, and not of the future.
Carries(c) ==
    /\ c \in Container /\ c.date <= clock
    /\ c.pushed \subseteq log /\ \A u, v \in c.pushed : u = v

\* feedUpdateVector().
LEMMA FeedVectorFed ==
    ASSUME LogInv, NEW rest, NEW s, PtsOK(s, rest), NEW c, Carries(c), c.pushed \subseteq rest,
           NEW loaded \in BOOLEAN, NEW deadline \in Deadlines
    PROVE  LET t == FeedVector(s, c, loaded, deadline)
           IN  PtsOK(t, rest \ c.pushed) /\ Fed(s, t) /\ Skips(s, t, c.date)
<1> DEFINE w == FeedAll(s, c.pushed, loaded, deadline)
           t == FeedVector(s, c, loaded, deadline)
<1>1. t = IF c.skips THEN FeedSkipped(w, c.date) ELSE w
  BY DEF FeedVector, FeedAll
<1>2. PtsOK(w, rest \ c.pushed) /\ Fed(s, w) /\ w.minTimer = s.minTimer /\ w.skipped = s.skipped
  <2>1. CASE c.pushed = {}
    <3>2. w = s
      BY <2>1, FoldOne
    <3>3. s.box.good \in Nat
      BY DEF PtsOK, ClientType, BoxType
    <3>4. Fed(s, s)
      BY <3>3 DEF Fed
    <3>5. rest \ c.pushed = rest
      BY <2>1
    <3> HIDE DEF w
    <3> QED BY <3>2, <3>4, <3>5
  <2>2. CASE c.pushed # {}
    <3>1. PICK u : u \in c.pushed
      BY <2>2
    <3>2. c.pushed = {u} /\ u \in log /\ u \in rest
      BY <3>1 DEF Carries
    <3>4. w = FeedUpdate(s, u, loaded, deadline)
      BY <3>2, FoldOne
    <3>5. rest \ c.pushed = rest \ {u}
      BY <3>2
    <3> HIDE DEF w
    <3> QED BY <3>2, <3>4, <3>5, FeedUpdateFed
  <2> QED BY <2>1, <2>2
<1>3. c.date \in Nat
  BY DEF Carries, Container
<1> HIDE DEF w, t
<1>4. CASE ~c.skips
  BY <1>1, <1>2, <1>4 DEF Skips, t
<1>5. CASE c.skips
  <2> DEFINE v == FeedSkipped(w, c.date)
  <2>1. PtsOK(v, rest \ c.pushed) /\ Fed(w, v) /\ Skips(w, v, c.date)
    BY <1>2, <1>3, FeedSkippedFed
  <2>2. t = v
    BY <1>1, <1>5
  <2> HIDE DEF v
  <2>3. s \in ClientType /\ w \in ClientType /\ v \in ClientType
    BY <1>2, <2>1 DEF PtsOK
  <2>4. Fed(s, v)
    BY <1>2, <2>1, <2>3, FedTwice
  <2>5. Skips(s, v, c.date)
    BY <1>2, <2>1 DEF Skips, Fed
  <2> QED BY <2>1, <2>2, <2>4, <2>5 DEF t
<1> QED BY <1>4, <1>5

\* What handlers that apply containers do: requests are as with Fed, the rest
\* only grows.  The date stays while a skipped message is to be asked for, and
\* messages are skipped only with that timer, not while the difference is requested.
Moved(s, t) ==
    /\ s.known \subseteq t.known /\ t.box.good >= s.box.good
    /\ s.box.requesting => t.box.requesting /\ t.box.good = s.box.good
    /\ (t.box.requesting => s.box.requesting) => t.request = s.request
    /\ t.box.requesting /\ ~s.box.requesting =>
          t.request.state = "sent" /\ t.request.date <= t.date
    /\ s.minTimer => t.minTimer /\ t.date = s.date
    /\ s.date <= t.date
    /\ s.skipped \subseteq t.skipped /\ \A d \in t.skipped \ s.skipped : d <= clock
    /\ t.skipped # s.skipped => t.minTimer /\ ~s.box.requesting

LEMMA MovedTwice ==
    ASSUME NEW s, NEW t, NEW v, s \in ClientType, t \in ClientType, v \in ClientType,
           Moved(s, t), Moved(t, v)
    PROVE  Moved(s, v)
<1>1. /\ s.box.good \in Nat /\ t.box.good \in Nat /\ v.box.good \in Nat
      /\ s.date \in Nat /\ t.date \in Nat /\ v.date \in Nat
      /\ s.request.date \in Nat /\ t.request.date \in Nat /\ v.request.date \in Nat
      /\ s.box.requesting \in BOOLEAN /\ t.box.requesting \in BOOLEAN /\ v.box.requesting \in BOOLEAN
  BY DEF ClientType, BoxType, RequestType
<1>2. /\ s.known \subseteq v.known /\ v.box.good >= s.box.good
      /\ s.box.requesting => v.box.requesting /\ v.box.good = s.box.good
      /\ (v.box.requesting => s.box.requesting) => v.request = s.request
      /\ s.minTimer => v.minTimer /\ v.date = s.date
      /\ s.date <= v.date
  BY <1>1 DEF Moved
<1>3. ASSUME v.box.requesting, ~s.box.requesting
      PROVE  v.request.state = "sent" /\ v.request.date <= v.date
  <2>1. CASE t.box.requesting
    BY <1>1, <1>3, <2>1 DEF Moved
  <2>2. CASE ~t.box.requesting
    BY <1>3, <2>2 DEF Moved
  <2> QED BY <2>1, <2>2
<1>4. /\ s.skipped \subseteq v.skipped /\ \A d \in v.skipped \ s.skipped : d <= clock
      /\ v.skipped # s.skipped => v.minTimer /\ ~s.box.requesting
  BY DEF Moved
<1> QED BY <1>2, <1>3, <1>4 DEF Moved

LEMMA FedMoved ==
    ASSUME NEW s \in ClientType, NEW t, Fed(s, t), NEW date, Skips(s, t, date), date <= clock
    PROVE  Moved(s, t)
<1>1. s.date \in Nat /\ s.date <= s.date
  BY DEF ClientType
<1>2. /\ s.skipped \subseteq t.skipped /\ \A d \in t.skipped \ s.skipped : d <= clock
      /\ t.skipped # s.skipped => t.minTimer /\ ~s.box.requesting
  BY DEF Skips
<1> QED BY <1>1, <1>2 DEF Fed, Moved

\* What a handler skips it skips without moving the date.
Holds(s, t) == t.skipped # s.skipped => t.date = s.date

\* A step that touches no numbered container.
Plain(s, t) ==
    /\ Moved(s, t) /\ Holds(s, t) /\ t.seq = s.seq /\ t.seen = s.seen
    /\ (t.box.requesting => s.box.requesting) => t.queue = s.queue /\ t.seqTimer = s.seqTimer
    /\ t.box.requesting /\ ~s.box.requesting => t.queue = {} /\ ~t.seqTimer

LEMMA FedPlain ==
    ASSUME NEW s \in ClientType, NEW t, Fed(s, t), NEW date, Skips(s, t, date), date <= clock
    PROVE  Plain(s, t)
  BY FedMoved DEF Fed, Plain, Holds

\* setState(), its date: nothing else changes, and it is held back while the
\* timer for a skipped message runs.
LEMMA SetDateFields ==
    ASSUME NEW rest, NEW s, PtsOK(s, rest), NEW date \in Nat
    PROVE  LET t == SetDate(s, date)
           IN  /\ PtsOK(t, rest) /\ t = [s EXCEPT !.date = t.date]
               /\ t.date >= s.date
               /\ t.date = IF s.minTimer THEN s.date ELSE Larger(s.date, date)
<1> DEFINE t == SetDate(s, date)
<1>1. s \in ClientType /\ s.date \in Nat /\ s.minTimer \in BOOLEAN
  BY DEF PtsOK, ClientType
<1>2. CASE s.date < date /\ ~s.minTimer
  <2>1. t = [s EXCEPT !.date = date]
    BY <1>2 DEF SetDate
  <2>2. t \in ClientType /\ t.date = date
    BY <1>1, <2>1 DEF ClientType
  <2>3. PtsOK(t, rest)
    BY <2>1, <2>2 DEF PtsOK, RequestOK, ClientType
  <2> HIDE DEF t
  <2> QED BY <1>1, <1>2, <2>1, <2>2, <2>3 DEF Larger, t
<1>3. CASE ~(s.date < date /\ ~s.minTimer)
  <2>1. t = s
    BY <1>3 DEF SetDate
  <2>2. s = [s EXCEPT !.date = s.date]
    BY <1>1 DEF ClientType
  <2> HIDE DEF t
  <2> QED BY <1>1, <1>3, <2>1, <2>2 DEF Larger, t
<1> QED BY <1>2, <1>3

\* A step of Plain, then the date.
LEMMA DatePlain ==
    ASSUME NEW rest, NEW s, NEW v, s \in ClientType, PtsOK(v, rest), Plain(s, v), NEW date \in Nat
    PROVE  PtsOK(SetDate(v, date), rest) /\ Plain(s, SetDate(v, date))
<1> DEFINE w == SetDate(v, date)
<1>1. PtsOK(w, rest) /\ w = [v EXCEPT !.date = w.date]
  BY SetDateFields
<1>2. w.date >= v.date /\ (v.minTimer => w.date = v.date)
  BY SetDateFields
<1> HIDE DEF w
<1>3. v \in ClientType /\ w \in ClientType
  BY <1>1 DEF PtsOK
<1>4. /\ w.box = v.box /\ w.seq = v.seq /\ w.queue = v.queue /\ w.seqTimer = v.seqTimer
      /\ w.minTimer = v.minTimer /\ w.request = v.request /\ w.known = v.known
      /\ w.seen = v.seen /\ w.skipped = v.skipped
  BY <1>1, <1>3 DEF ClientType
<1>5. v.date \in Nat /\ w.date \in Nat /\ v.box.good \in Nat /\ v.date <= w.date
  BY <1>2, <1>3 DEF ClientType, BoxType
<1>6. Moved(v, w)
  BY <1>2, <1>4, <1>5 DEF Moved
<1>7. Moved(s, w)
  BY <1>3, <1>6, MovedTwice DEF Plain
<1>8. Plain(s, w)
  <2>1. Holds(s, w)
    BY <1>2, <1>4 DEF Plain, Moved, Holds
  <2> QED BY <1>4, <1>7, <2>1 DEF Plain
<1> QED BY <1>1, <1>8 DEF w

\* applyUpdates() of a container, up to the seq number.
LEMMA ApplyVectorOK ==
    ASSUME LogInv, NEW rest, NEW s, PtsOK(s, rest), NEW c, Carries(c), c.pushed \subseteq rest,
           NEW bad, NEW deadline \in Deadlines
    PROVE  /\ PtsOK(ApplyVector(s, c, bad, deadline), rest \ c.pushed)
           /\ Plain(s, ApplyVector(s, c, bad, deadline))
<1> DEFINE loaded == c \notin bad
           v == FeedVector(s, c, loaded, deadline)
           less == rest \ c.pushed
<1>0. loaded \in BOOLEAN /\ c.date \in Nat /\ c.date <= clock /\ s \in ClientType
  BY DEF Carries, Container, PtsOK
<1>1. ApplyVector(s, c, bad, deadline) = SetDate(v, c.date)
  BY DEF ApplyVector
<1> HIDE DEF loaded
<1>2. PtsOK(v, less) /\ Fed(s, v) /\ Skips(s, v, c.date)
  BY <1>0, FeedVectorFed
<1> HIDE DEF v
<1>3. Plain(s, v)
  BY <1>0, <1>2, FedPlain
<1> DEFINE date == c.date
<1>4. date \in Nat /\ PtsOK(v, less)
  BY <1>0, <1>2
<1> HIDE DEF less, date
<1>5. PtsOK(SetDate(v, date), less) /\ Plain(s, SetDate(v, date))
  BY <1>0, <1>3, <1>4, DatePlain
<1> QED BY <1>1, <1>5 DEF less, date

\* applyUpdates() of a container whose turn it is.
InTurn(s, t, c) ==
    /\ Moved(s, t) /\ Holds(s, t) /\ t.seq = c.last /\ t.seen = s.seen \union {c}
    /\ (t.box.requesting => s.box.requesting) => t.queue = s.queue /\ t.seqTimer = s.seqTimer
    /\ t.box.requesting /\ ~s.box.requesting => t.queue = {} /\ ~t.seqTimer

LEMMA ApplyInTurnOK ==
    ASSUME LogInv, NEW rest, NEW s, PtsOK(s, rest), NEW c, Carries(c), c.pushed \subseteq rest,
           NEW bad, NEW deadline \in Deadlines
    PROVE  /\ PtsOK(ApplyInTurn(s, c, bad, deadline), rest \ c.pushed)
           /\ InTurn(s, ApplyInTurn(s, c, bad, deadline), c)
<1> DEFINE w == ApplyVector(s, c, bad, deadline)
           t == ApplyInTurn(s, c, bad, deadline)
<1>0. c.last \in Nat /\ c \in Container
  BY DEF Carries, Container
<1>1. t = [w EXCEPT !.seq = c.last, !.seen = @ \union {c}]
  BY DEF ApplyInTurn
<1>2. PtsOK(w, rest \ c.pushed) /\ Plain(s, w)
  BY ApplyVectorOK
<1> HIDE DEF w, t
<1>3. w \in ClientType
  BY <1>2 DEF PtsOK
<1>4. /\ t.box = w.box /\ t.queue = w.queue /\ t.seqTimer = w.seqTimer /\ t.date = w.date
      /\ t.minTimer = w.minTimer /\ t.request = w.request /\ t.known = w.known
      /\ t.skipped = w.skipped /\ t.seq = c.last /\ t.seen = w.seen \union {c}
      /\ t \in ClientType
  BY <1>0, <1>1, <1>3 DEF ClientType
<1>5. PtsOK(t, rest \ c.pushed)
  BY <1>2, <1>4 DEF PtsOK, RequestOK
<1>6. Moved(s, t)
  BY <1>2, <1>4 DEF Plain, Moved
<1>7. InTurn(s, t, c)
  BY <1>2, <1>4, <1>6 DEF Plain, InTurn, Holds
<1> QED BY <1>5, <1>7 DEF t

-----------------------------------------------------------------------------
(* Containers that wait for their turn.                                      *)

\* The containers of the server's session have their numbers one after the
\* other.
SessionInv ==
    /\ sent \subseteq Container /\ serverSeq \in Nat
    /\ \A c \in sent : 0 < c.first /\ c.first <= c.last /\ c.last <= serverSeq
    /\ \A c, d \in sent : c = d \/ c.last < d.first \/ d.last < c.first

\* As long as the client knows of the session (`same'), it has all containers
\* up to the number it has reached, or has asked for the difference.
SeqOK(t, same) ==
    same => /\ t.queue \subseteq sent /\ t.seq <= serverSeq
            /\ ~t.box.requesting => \A c \in sent : c.last <= t.seq => c \in t.seen

Pushed(S) == UNION {c.pushed : c \in S}

\* Containers that carry different updates, and none of R.
Apart(S, R) ==
    /\ \A c \in S : Carries(c) /\ c.pushed \intersect R = {}
    /\ \A c, d \in S : c = d \/ c.pushed \intersect d.pushed = {}

\* What was applied since s was applied after all before it.
Orderly(s, t) ==
    \A c \in t.seen \ s.seen : \A d \in sent : d.last < c.first => d \in t.seen

\* The record on the way through the queue of s, of which D has been looked at.
Draining(s, t, D, R, same) ==
    /\ PtsOK(t, R \union Pushed(t.queue)) /\ Moved(s, t) /\ SeqOK(t, same)
    /\ t.queue \subseteq s.queue /\ s.seen \subseteq t.seen
    /\ \A c \in t.queue \intersect D : c.first > t.seq + 1 /\ t.seqTimer
    /\ same => Orderly(s, t)

\* One container after those before it.
LEMMA TakeDrains ==
    ASSUME LogInv, SessionInv, NEW s, NEW t, NEW D, NEW R, NEW same \in BOOLEAN,
           s \in ClientType, Apart(s.queue, R), Draining(s, t, D, R, same),
           NEW c \in s.queue, \A d \in D : d.first <= c.first, D \subseteq s.queue,
           NEW bad, NEW deadline \in Deadlines
    PROVE  Draining(s, Take(c, t, bad, deadline), D \union {c}, R, same)
<1> DEFINE v == Take(c, t, bad, deadline)
<1>0. /\ t \in ClientType /\ t.seq \in Nat /\ Carries(c) /\ c.first \in Nat /\ c.last \in Nat
      /\ \A d \in s.queue : d.first \in Nat
      /\ PtsOK(t, R \union Pushed(t.queue)) /\ t.queue \subseteq s.queue
      /\ t.box.requesting => t.queue = {}
  BY DEF Draining, PtsOK, RequestOK, ClientType, Apart, Carries, Container
<1>1. CASE c \notin t.queue
  <2>1. v = t
    BY <1>1 DEF Take
  <2> HIDE DEF v
  <2> QED BY <1>1, <2>1 DEF Draining, v
<1>2. CASE c \in t.queue /\ c.first <= t.seq
  <2>1. v = [t EXCEPT !.queue = @ \ {c}]
    BY <1>2 DEF Take
  <2>2. /\ v \in ClientType /\ v.queue = t.queue \ {c} /\ v.box = t.box /\ v.known = t.known
        /\ v.request = t.request /\ v.seq = t.seq /\ v.seen = t.seen /\ v.minTimer = t.minTimer
        /\ v.date = t.date /\ v.skipped = t.skipped
        /\ v.seqTimer = t.seqTimer
    BY <1>0, <2>1 DEF ClientType
  <2> HIDE DEF v
  <2>3. PtsOK(v, R \union Pushed(t.queue))
    BY <1>0, <2>2 DEF PtsOK, RequestOK
  <2>4. PtsOK(v, R \union Pushed(v.queue))
    BY <2>2, <2>3, FewerToCome DEF Pushed
  <2>5. Moved(s, v) /\ SeqOK(v, same)
    BY <2>2 DEF Draining, Moved, SeqOK
  <2>6. same => Orderly(s, v)
    BY <2>2 DEF Draining, Orderly
  <2>7. \A d \in v.queue \intersect (D \union {c}) : d.first > v.seq + 1 /\ v.seqTimer
    BY <2>2 DEF Draining
  <2> QED BY <1>0, <2>2, <2>4, <2>5, <2>6, <2>7 DEF Draining, v
<1>3. CASE c \in t.queue /\ c.first = t.seq + 1
  <2> DEFINE w == [t EXCEPT !.queue = @ \ {c}, !.seqTimer = FALSE]
             rest == R \union Pushed(t.queue)
  <2>1. v = ApplyInTurn(w, c, bad, deadline)
    BY <1>0, <1>3 DEF Take
  <2>2. /\ w \in ClientType /\ w.queue = t.queue \ {c} /\ w.box = t.box /\ w.known = t.known
        /\ w.request = t.request /\ w.seq = t.seq /\ w.seen = t.seen /\ w.minTimer = t.minTimer
        /\ w.date = t.date /\ w.skipped = t.skipped
        /\ ~w.seqTimer
    BY <1>0 DEF ClientType
  <2> HIDE DEF v, w
  <2>3. ~t.box.requesting /\ c.pushed \subseteq rest
    BY <1>0, <1>3 DEF Pushed
  <2>4. PtsOK(w, rest)
    BY <1>0, <2>2 DEF PtsOK, RequestOK
  <2> HIDE DEF rest
  <2>5. /\ PtsOK(v, rest \ c.pushed) /\ Moved(w, v)
        /\ v.seq = c.last /\ v.seen = w.seen \union {c}
        /\ (v.box.requesting => w.box.requesting) => v.queue = w.queue
        /\ v.box.requesting /\ ~w.box.requesting => v.queue = {}
    <3>1. PtsOK(v, rest \ c.pushed) /\ InTurn(w, v, c)
      BY <1>0, <2>1, <2>3, <2>4, ApplyInTurnOK
    <3> QED BY <3>1 DEF InTurn
  <2>6. v.queue \subseteq t.queue \ {c} /\ v.queue \subseteq s.queue
    BY <1>0, <2>2, <2>3, <2>5
  <2>7. PtsOK(v, R \union Pushed(v.queue))
    <3>1. R \union Pushed(v.queue) \subseteq rest \ c.pushed
      <4>1. ASSUME NEW d \in v.queue PROVE d.pushed \intersect c.pushed = {}
        BY <1>3, <2>6 DEF Apart
      <4>2. R \intersect c.pushed = {}
        BY DEF Apart
      <4>3. Pushed(v.queue) \subseteq Pushed(t.queue) \ c.pushed
        BY <2>6, <4>1 DEF Pushed
      <4> QED BY <4>2, <4>3 DEF rest
    <3> QED BY <2>5, <3>1, FewerToCome
  <2>8. Moved(s, v)
    <3>1. Moved(s, w)
      BY <2>2 DEF Draining, Moved
    <3>2. v \in ClientType
      BY <2>5 DEF PtsOK
    <3> QED BY <2>2, <2>5, <3>1, <3>2, MovedTwice
  <2>9. t.queue \intersect D = {}
    <3>1. ASSUME NEW d \in t.queue \intersect D PROVE FALSE
      <4>1. d.first > t.seq + 1 /\ d.first <= c.first /\ d.first \in Nat
        BY <1>0, <3>1 DEF Draining
      <4> QED BY <1>0, <1>3, <4>1
    <3> QED BY <3>1
  <2>10. v.queue \intersect (D \union {c}) = {}
    BY <2>6, <2>9
  <2>11. ASSUME same PROVE SeqOK(v, same) /\ Orderly(s, v)
    <3>1. /\ t.queue \subseteq sent /\ t.seq <= serverSeq
          /\ \A d \in sent : d.last <= t.seq => d \in t.seen
      BY <2>3, <2>11 DEF Draining, SeqOK
    <3>2. c \in sent /\ c.last <= serverSeq /\ c.first <= c.last
      BY <1>3, <3>1 DEF SessionInv
    <3>3. \A d \in sent : d.first \in Nat /\ d.last \in Nat /\ d.first <= d.last
      BY DEF SessionInv, Container
    <3>4. \A d \in sent : d.last < c.first => d \in v.seen
      BY <1>0, <1>3, <2>2, <2>5, <3>1, <3>3
    <3>5. \A d \in sent : d.last <= c.last => d \in v.seen
      <4>1. SUFFICES ASSUME NEW d \in sent, d.last <= c.last PROVE d \in v.seen
        OBVIOUS
      <4>2. c = d \/ c.last < d.first \/ d.last < c.first
        BY <3>2 DEF SessionInv
      <4>3. ~(c.last < d.first)
        BY <1>0, <3>3, <4>1
      <4> QED BY <2>5, <3>4, <4>2, <4>3
    <3>6. SeqOK(v, same)
      BY <2>5, <2>6, <3>1, <3>2, <3>5 DEF SeqOK
    <3>7. Orderly(s, v)
      BY <2>2, <2>5, <2>11, <3>4 DEF Draining, Orderly
    <3> QED BY <3>6, <3>7
  <2>12. SeqOK(v, same) /\ (same => Orderly(s, v))
    BY <2>11 DEF SeqOK
  <2>13. s.seen \subseteq v.seen
    BY <2>2, <2>5 DEF Draining
  <2> QED BY <2>6, <2>7, <2>8, <2>10, <2>12, <2>13 DEF Draining, v
<1>4. CASE c \in t.queue /\ ~(c.first <= t.seq) /\ ~(c.first = t.seq + 1)
  <2>1. v = [t EXCEPT !.seqTimer = TRUE]
    BY <1>4 DEF Take
  <2>2. /\ v \in ClientType /\ v.queue = t.queue /\ v.box = t.box /\ v.known = t.known
        /\ v.request = t.request /\ v.seq = t.seq /\ v.seen = t.seen /\ v.minTimer = t.minTimer
        /\ v.date = t.date /\ v.skipped = t.skipped
        /\ v.seqTimer
    BY <1>0, <2>1 DEF ClientType
  <2> HIDE DEF v
  <2>3. PtsOK(v, R \union Pushed(v.queue))
    BY <1>0, <2>2 DEF PtsOK, RequestOK
  <2>4. Moved(s, v) /\ SeqOK(v, same) /\ (same => Orderly(s, v))
    BY <2>2 DEF Draining, Moved, SeqOK, Orderly
  <2>5. c.first > v.seq + 1
    BY <1>0, <1>4, <2>2
  <2>6. \A d \in v.queue \intersect (D \union {c}) : d.first > v.seq + 1 /\ v.seqTimer
    BY <2>2, <2>5 DEF Draining
  <2> QED BY <1>0, <2>2, <2>3, <2>4, <2>6 DEF Draining, v
<1> QED BY <1>1, <1>2, <1>3, <1>4

\* Every nonempty set of numbers has a least element.
LEMMA LeastNat ==
    ASSUME NEW S, S \subseteq Nat, S # {}
    PROVE  \E l \in S : \A k \in S : l <= k
<1>1. PICK l \in S : \A k \in S : ~(<<k, l>> \in OpToRel(<, Nat))
  BY NatLessThanWellFounded, WFMin
<1>2. \A k \in S : ~(k < l)
  BY <1>1 DEF OpToRel
<1> QED BY <1>2

\* Among finitely many containers there is a last one.
LEMMA LastExists ==
    ASSUME NEW S, IsFiniteSet(S), S # {}, \A c \in S : c.first \in Nat
    PROVE  Last(S) \in S /\ \A d \in S : d.first <= Last(S).first
<1> DEFINE Has(T) == \E c \in T : \A d \in T : d.first <= c.first
           None == {n \in Nat : \E T \in SUBSET S : T # {} /\ Cardinality(T) = n /\ ~Has(T)}
<1>1. None = {}
  <2>1. SUFFICES ASSUME None # {} PROVE FALSE
    OBVIOUS
  <2>2. PICK n \in None : \A k \in None : n <= k
    BY <2>1, LeastNat
  <2>3. PICK T \in SUBSET S : T # {} /\ Cardinality(T) = n /\ ~Has(T)
    OBVIOUS
  <2>4. PICK c \in T : TRUE
    BY <2>3
  <2> DEFINE R == T \ {c}
  <2>5. IsFiniteSet(T) /\ n \in Nat /\ R \in SUBSET S
    BY FS_Subset
  <2>6. Cardinality(R) = n - 1 /\ Cardinality(R) \in Nat
    BY <2>3, <2>5, FS_RemoveElement, FS_CardinalityType
  <2>7. R = {} \/ Has(R)
    <3>1. n - 1 \notin None
      BY <2>2, <2>5
    <3> QED BY <2>5, <2>6, <3>1
  <2>8. CASE R = {}
    <3>1. T = {c} /\ c.first \in Nat
      BY <2>8
    <3> QED BY <2>3, <3>1
  <2>9. CASE Has(R)
    <3>1. PICK d \in R : \A e \in R : e.first <= d.first
      BY <2>9
    <3>2. c.first \in Nat /\ d.first \in Nat /\ \A e \in R : e.first \in Nat
      OBVIOUS
    <3>3. \A e \in T : e = c \/ e \in R
      OBVIOUS
    <3>4. CASE c.first <= d.first
      BY <2>3, <3>1, <3>2, <3>3, <3>4
    <3>5. CASE d.first <= c.first
      <4>1. \A e \in R : e.first <= c.first
        BY <3>1, <3>2, <3>5
      <4> QED BY <2>3, <2>4, <3>2, <3>3, <4>1
    <3> QED BY <3>2, <3>4, <3>5
  <2> QED BY <2>7, <2>8, <2>9
<1>2. Cardinality(S) \in Nat
  BY FS_CardinalityType
<1>3. Has(S)
  BY <1>1, <1>2
<1> QED BY <1>3 DEF Last

\* The fold of Drain is a function on the sets of waiting containers.
Taken(Q, g, s, bad, deadline) ==
    g = [x \in SUBSET Q |-> IF x = {} THEN s
                            ELSE Take(Last(x), g[x \ {Last(x)}], bad, deadline)]

LEMMA TakenExists ==
    ASSUME NEW Q, IsFiniteSet(Q), \A c \in Q : c.first \in Nat,
           NEW s, NEW bad, NEW deadline
    PROVE  \E g : Taken(Q, g, s, bad, deadline)
<1> DEFINE Small(n) == {x \in SUBSET Q : Cardinality(x) <= n}
           Step(x, g) == IF x = {} THEN s ELSE Take(Last(x), g[x \ {Last(x)}], bad, deadline)
           G(n, g) == [x \in Small(n) |-> Step(x, g)]
           None == {n \in Nat : ~ \E g : g = G(n, g)}
<1>1. ASSUME NEW x \in SUBSET Q
      PROVE  IsFiniteSet(x) /\ Cardinality(x) \in Nat
  BY FS_Subset, FS_CardinalityType
<1>2. ASSUME NEW x \in SUBSET Q, x # {}
      PROVE  /\ Last(x) \in x /\ x \ {Last(x)} \in SUBSET Q
             /\ Cardinality(x \ {Last(x)}) = Cardinality(x) - 1
  <2>1. Last(x) \in x
    BY <1>1, <1>2, LastExists
  <2> QED BY <1>1, <2>1, FS_RemoveElement
<1>3. 0 \notin None
  <2> DEFINE g == [x \in Small(0) |-> s]
  <2>1. ASSUME NEW x \in Small(0) PROVE x = {}
    BY <1>1, <1>2, FS_EmptySet
  <2>2. ASSUME NEW x \in Small(0) PROVE g[x] = Step(x, g)
    BY <2>1
  <2>3. g = G(0, g)
    <3> HIDE DEF Step, Small
    <3> QED BY <2>2
  <2> QED BY <2>3
<1>4. ASSUME NEW n \in Nat, n \notin None PROVE n + 1 \notin None
  <2>1. PICK g : g = G(n, g)
    BY <1>4
  <2> DEFINE h == [x \in Small(n + 1) |-> Step(x, g)]
  <2>2. ASSUME NEW x \in Small(n + 1), x # {}
        PROVE  x \ {Last(x)} \in Small(n) /\ x \ {Last(x)} \in Small(n + 1)
    <3>1. x \in SUBSET Q /\ Cardinality(x) <= n + 1
      OBVIOUS
    <3>2. x \ {Last(x)} \in SUBSET Q /\ Cardinality(x \ {Last(x)}) = Cardinality(x) - 1
      BY <1>2, <2>2, <3>1
    <3> QED BY <1>1, <3>1, <3>2
  <2>3. ASSUME NEW y \in Small(n) PROVE g[y] = Step(y, g) /\ y \in Small(n + 1)
    <3>1. y \in Small(n + 1)
      BY <1>1
    <3> HIDE DEF Step, Small
    <3> QED BY <2>1, <3>1
  <2>4. ASSUME NEW y \in Small(n) PROVE h[y] = g[y]
    <3> HIDE DEF Step, Small
    <3> QED BY <2>3
  <2>5. ASSUME NEW x \in Small(n + 1) PROVE Step(x, g) = Step(x, h)
    <3>1. CASE x = {}
      BY <3>1
    <3>2. CASE x # {}
      <4>1. g[x \ {Last(x)}] = h[x \ {Last(x)}]
        BY <2>2, <2>4, <3>2
      <4> HIDE DEF h
      <4> QED BY <4>1
    <3> QED BY <3>1, <3>2
  <2>6. h = G(n + 1, h)
    <3> HIDE DEF Step, Small
    <3> QED BY <2>5
  <2> QED BY <2>6
<1>5. None = {}
  <2>1. SUFFICES ASSUME None # {} PROVE FALSE
    OBVIOUS
  <2>2. None \subseteq Nat
    OBVIOUS
  <2> HIDE DEF None
  <2>3. PICK l \in None : \A k \in None : l <= k
    BY <2>1, <2>2, LeastNat
  <2>4. l \in Nat /\ l # 0
    BY <1>3, <2>2, <2>3
  <2>5. l - 1 \in Nat /\ l - 1 \notin None /\ (l - 1) + 1 = l
    BY <2>3, <2>4
  <2> QED BY <1>4, <2>3, <2>5
<1>6. PICK g : g = G(Cardinality(Q), g)
  <2>1. Cardinality(Q) \in Nat
    BY FS_CardinalityType
  <2> QED BY <1>5, <2>1
<1>7. Small(Cardinality(Q)) = SUBSET Q
  BY FS_Subset
<1>8. Taken(Q, g, s, bad, deadline)
  <2> HIDE DEF Small
  <2> QED BY <1>6, <1>7 DEF Taken
<1> QED BY <1>8

\* setState() of a new seq number, with nothing waiting and with containers
\* that wait: those that still do afterwards wait for one before them.
LEMMA DrainNone ==
    ASSUME NEW s, NEW bad, NEW deadline, s.queue = {}
    PROVE  Drain(s, bad, deadline) = [s EXCEPT !.seqTimer = FALSE]
<1> DEFINE w == [s EXCEPT !.seqTimer = FALSE]
           Q == s.queue
<1> HIDE DEF w
<1>1. Drain(s, bad, deadline) = (CHOOSE g : Taken(Q, g, w, bad, deadline))[Q]
  BY DEF Drain, MapThenFoldSet, Taken, w
<1>2. PICK g : Taken(Q, g, w, bad, deadline)
  BY TakenExists, FS_EmptySet
<1> DEFINE f == CHOOSE h : Taken(Q, h, w, bad, deadline)
<1>3. Taken(Q, f, w, bad, deadline)
  BY <1>2
<1> HIDE DEF f
<1>4. f[Q] = w
  BY <1>3 DEF Taken
<1> QED BY <1>1, <1>4 DEF f, w

LEMMA DrainOK ==
    ASSUME LogInv, SessionInv, NEW R, NEW same \in BOOLEAN, NEW s,
           IsFiniteSet(s.queue), Apart(s.queue, R),
           PtsOK(s, R \union Pushed(s.queue)), SeqOK(s, same),
           NEW bad, NEW deadline \in Deadlines
    PROVE  Draining(s, Drain(s, bad, deadline), s.queue, R, same)
<1> DEFINE w == [s EXCEPT !.seqTimer = FALSE]
           Q == s.queue
           f == CHOOSE h : Taken(Q, h, w, bad, deadline)
           Wrong == {n \in Nat : \E D \in SUBSET Q :
                                    Cardinality(D) = n /\ ~Draining(s, f[D], D, R, same)}
<1>0. /\ s \in ClientType /\ s.box.good \in Nat /\ s.date \in Nat
      /\ \A c \in Q : c.first \in Nat
  BY DEF PtsOK, ClientType, BoxType, Container
<1>1. Drain(s, bad, deadline) = f[Q]
  BY DEF Drain, MapThenFoldSet, Taken
<1>2. /\ w \in ClientType /\ w.queue = Q /\ w.box = s.box /\ w.known = s.known
      /\ w.request = s.request /\ w.seq = s.seq /\ w.seen = s.seen /\ w.minTimer = s.minTimer
      /\ w.date = s.date /\ w.skipped = s.skipped
  BY <1>0 DEF ClientType
<1> HIDE DEF w
<1>3. Taken(Q, f, w, bad, deadline)
  BY <1>0, TakenExists
<1> HIDE DEF f
<1>4. f[{}] = w /\ \A D \in SUBSET Q : D # {} => f[D] = Take(Last(D), f[D \ {Last(D)}], bad, deadline)
  <2> HIDE DEF w, Q
  <2> QED BY <1>3 DEF Taken
<1>5. Draining(s, w, {}, R, same)
  <2>1. PtsOK(w, R \union Pushed(w.queue))
    BY <1>2 DEF PtsOK, RequestOK
  <2>2. Moved(s, w) /\ SeqOK(w, same) /\ Orderly(s, w)
    BY <1>0, <1>2 DEF Moved, SeqOK, Orderly
  <2> QED BY <1>2, <2>1, <2>2 DEF Draining
<1>6. Wrong = {}
  <2>1. SUFFICES ASSUME Wrong # {} PROVE FALSE
    OBVIOUS
  <2>2. PICK n \in Wrong : \A k \in Wrong : n <= k
    BY <2>1, LeastNat
  <2>3. PICK D \in SUBSET Q : Cardinality(D) = n /\ ~Draining(s, f[D], D, R, same)
    OBVIOUS
  <2>4. n \in Nat /\ IsFiniteSet(D) /\ D # {}
    BY <1>4, <1>5, <2>3, FS_Subset
  <2> DEFINE c == Last(D)
             E == D \ {c}
  <2>5. c \in D /\ \A d \in D : d.first <= c.first
    BY <1>0, <2>4, LastExists
  <2> HIDE DEF c
  <2>6. Cardinality(E) = n - 1 /\ Cardinality(E) \in Nat /\ E \in SUBSET Q /\ E \union {c} = D
    BY <2>3, <2>4, <2>5, FS_RemoveElement, FS_CardinalityType
  <2>7. Draining(s, f[E], E, R, same)
    <3>1. n - 1 \notin Wrong
      BY <2>2, <2>4
    <3> QED BY <2>4, <2>6, <3>1
  <2> HIDE DEF E, Q
  <2>8. c \in s.queue /\ E \subseteq s.queue /\ \A d \in E : d.first <= c.first
    BY <2>5, <2>6 DEF Q, E
  <2>9. Draining(s, Take(c, f[E], bad, deadline), E \union {c}, R, same)
    BY <1>0, <2>7, <2>8, TakeDrains
  <2>10. f[D] = Take(c, f[E], bad, deadline)
    BY <1>4, <2>4 DEF c, E
  <2> QED BY <2>3, <2>6, <2>9, <2>10
<1>7. Cardinality(Q) \in Nat
  BY FS_CardinalityType
<1> QED BY <1>1, <1>6, <1>7

-----------------------------------------------------------------------------
(* applyUpdates() of a pushed container.                                     *)

\* Containers wait only for one before them, and with the timer.
QueueOK(t) == t.queue # {} => t.seqTimer /\ \A c \in t.queue : c.first > t.seq + 1

\* When a container is applied in its turn all before it have been.
LEMMA TurnIsNext ==
    ASSUME SessionInv, NEW s, s.seq \in Nat, SeqOK(s, TRUE), ~s.box.requesting,
           NEW c \in sent, c.first = s.seq + 1
    PROVE  /\ \A d \in sent : d.last < c.first => d \in s.seen
           /\ \A d \in sent : d.last <= c.last => d \in s.seen \union {c}
<1>1. \A d \in sent : d.first \in Nat /\ d.last \in Nat /\ d.first <= d.last
  BY DEF SessionInv, Container
<1>2. \A d \in sent : d.last < c.first => d \in s.seen
  BY <1>1 DEF SeqOK
<1>3. ASSUME NEW d \in sent, d.last <= c.last PROVE d \in s.seen \union {c}
  <2>1. c = d \/ c.last < d.first \/ d.last < c.first
    BY DEF SessionInv
  <2> QED BY <1>1, <1>2, <1>3, <2>1
<1> QED BY <1>2, <1>3

\* What applying the pushed container c to s may make of it, R being the other
\* updates to come.
Applied(s, t, c, R) ==
    /\ PtsOK(t, R \union Pushed(t.queue)) /\ Moved(s, t) /\ SeqOK(t, TRUE) /\ QueueOK(t)
    /\ t.queue \subseteq s.queue \union {c} /\ s.seen \subseteq t.seen /\ Orderly(s, t)
    /\ s.queue = {} => Holds(s, t)

LEMMA ApplyNumberedOK ==
    ASSUME LogInv, SessionInv, NEW R, NEW s, NEW c \in sent, c \notin s.queue,
           IsFiniteSet(s.queue), Apart(s.queue \union {c}, R),
           PtsOK(s, R \union Pushed(s.queue \union {c})), SeqOK(s, TRUE), QueueOK(s),
           ~s.box.requesting, NEW bad, NEW deadline \in Deadlines
    PROVE  Applied(s, ApplyNumbered(s, c, bad, deadline), c, R)
<1> DEFINE t == ApplyNumbered(s, c, bad, deadline)
           rest == R \union Pushed(s.queue \union {c})
<1>0. /\ s \in ClientType /\ s.seq \in Nat /\ s.box.good \in Nat /\ s.date \in Nat /\ Carries(c)
      /\ c.first \in Nat /\ c.last \in Nat /\ c.first <= c.last /\ c.last <= serverSeq
  BY DEF PtsOK, ClientType, BoxType, Apart, SessionInv, Container
<1>1. CASE c.first <= s.seq
  <2>1. t = s
    BY <1>1 DEF ApplyNumbered
  <2>2. PtsOK(s, R \union Pushed(s.queue))
    BY FewerToCome DEF Pushed
  <2>3. Moved(s, s) /\ Orderly(s, s) /\ Holds(s, s)
    BY <1>0 DEF Moved, Orderly, Holds
  <2> HIDE DEF t
  <2> QED BY <2>1, <2>2, <2>3 DEF Applied, t
<1>2. CASE c.first > s.seq + 1
  <2>1. t = [s EXCEPT !.queue = @ \union {c}, !.seqTimer = TRUE]
    BY <1>0, <1>2 DEF ApplyNumbered
  <2>2. /\ t \in ClientType /\ t.queue = s.queue \union {c} /\ t.box = s.box /\ t.known = s.known
        /\ t.request = s.request /\ t.seq = s.seq /\ t.seen = s.seen /\ t.minTimer = s.minTimer
        /\ t.date = s.date /\ t.skipped = s.skipped
        /\ t.seqTimer
    <3>1. s.queue \union {c} \in SUBSET Container
      BY <1>0 DEF ClientType, Carries
    <3> QED BY <1>0, <2>1, <3>1 DEF ClientType
  <2> HIDE DEF t
  <2>3. PtsOK(t, R \union Pushed(t.queue))
    BY <2>2 DEF PtsOK, RequestOK
  <2>4. Moved(s, t) /\ Orderly(s, t) /\ SeqOK(t, TRUE) /\ Holds(s, t)
    BY <1>0, <2>2 DEF Moved, Orderly, SeqOK, Holds
  <2>5. QueueOK(t)
    BY <1>2, <2>2 DEF QueueOK
  <2> QED BY <2>2, <2>3, <2>4, <2>5 DEF Applied, t
<1>3. CASE c.first = s.seq + 1
  <2> DEFINE w == ApplyInTurn(s, c, bad, deadline)
  <2>1. t = Drain(w, bad, deadline)
    BY <1>0, <1>3 DEF ApplyNumbered
  <2> HIDE DEF t
  <2>2. c.pushed \subseteq rest /\ PtsOK(s, rest)
    BY DEF Pushed
  <2>3. PtsOK(w, rest \ c.pushed) /\ InTurn(s, w, c)
    <3> HIDE DEF rest
    <3> QED BY <1>0, <2>2, ApplyInTurnOK
  <2> HIDE DEF w
  <2>4. /\ w.queue \subseteq s.queue /\ w.seq = c.last /\ w.seen = s.seen \union {c} /\ Moved(s, w)
    BY <2>3 DEF InTurn
  <2>5. PtsOK(w, R \union Pushed(w.queue))
    <3>1. \A d \in s.queue : d.pushed \intersect c.pushed = {}
      BY DEF Apart
    <3>2. R \intersect c.pushed = {}
      BY DEF Apart
    <3>3. R \union Pushed(w.queue) \subseteq rest \ c.pushed
      BY <2>4, <3>1, <3>2 DEF Pushed
    <3> HIDE DEF rest
    <3> QED BY <2>3, <3>3, FewerToCome
  <2>6. /\ \A d \in sent : d.last < c.first => d \in s.seen
        /\ \A d \in sent : d.last <= c.last => d \in s.seen \union {c}
    BY <1>0, <1>3, TurnIsNext
  <2>7. SeqOK(w, TRUE)
    BY <1>0, <2>4, <2>6 DEF SeqOK
  <2>8. IsFiniteSet(w.queue) /\ Apart(w.queue, R)
    BY <2>4, FS_Subset DEF Apart
  <2>9. Draining(w, t, w.queue, R, TRUE)
    BY <2>1, <2>5, <2>7, <2>8, DrainOK
  <2>10. /\ PtsOK(t, R \union Pushed(t.queue)) /\ Moved(w, t) /\ SeqOK(t, TRUE) /\ QueueOK(t)
         /\ t.queue \subseteq w.queue /\ w.seen \subseteq t.seen /\ Orderly(w, t)
    BY <2>9 DEF Draining, QueueOK
  <2>11. Orderly(s, t)
    BY <2>4, <2>6, <2>10 DEF Orderly
  <2>12. Moved(s, t)
    BY <1>0, <2>4, <2>5, <2>10, MovedTwice DEF PtsOK
  <2>13. ASSUME s.queue = {} PROVE Holds(s, t)
    <3>1. w.queue = {} /\ w \in ClientType
      BY <2>4, <2>5, <2>13 DEF PtsOK
    <3>2. t = [w EXCEPT !.seqTimer = FALSE]
      BY <2>1, <3>1, DrainNone
    <3>3. t.skipped = w.skipped /\ t.date = w.date
      BY <3>1, <3>2 DEF ClientType
    <3> QED BY <2>3, <3>3 DEF InTurn, Holds
  <2> QED BY <2>4, <2>10, <2>11, <2>12, <2>13 DEF Applied, t
<1> QED BY <1>0, <1>1, <1>2, <1>3

\* applyUpdates() of a short message, and of a result as if it were one.
LEMMA ApplyShortOK ==
    ASSUME LogInv, NEW rest, NEW s, PtsOK(s, rest), NEW c, Carries(c), c.pushed # {},
           c.pushed \subseteq rest, NEW loaded \in BOOLEAN, NEW deadline \in Deadlines
    PROVE  /\ PtsOK(ApplyShort(s, c, loaded, deadline), rest \ c.pushed)
           /\ Plain(s, ApplyShort(s, c, loaded, deadline))
<1> DEFINE u == CHOOSE v \in c.pushed : TRUE
           t == ApplyShort(s, c, loaded, deadline)
           g == GetDifference(s)
           w == Given(s, UpdateAndApply(s.box, u, deadline))
           x == SetDate(w, c.date)
<1>1. /\ c.pushed = {u} /\ u \in log /\ u \in rest /\ c.date \in Nat /\ c.date <= clock
      /\ s \in ClientType
  BY DEF Carries, Container, PtsOK
<1>2. t = IF ~loaded THEN g ELSE IF UpdatedPasses(s.box, u) THEN x ELSE w
  BY DEF ApplyShort
<1> HIDE DEF t, u
<1>3. PtsOK(g, rest \ c.pushed) /\ Plain(s, g)
  <2>1. PtsOK(g, rest \ c.pushed)
    BY GetDifferenceFed, FewerToCome
  <2>2. Fed(s, g) /\ g.minTimer = s.minTimer /\ g.skipped = s.skipped
    BY GetDifferenceFed
  <2> HIDE DEF g
  <2>3. Skips(s, g, c.date)
    BY <2>2 DEF Skips
  <2> QED BY <1>1, <2>1, <2>2, <2>3, FedPlain
<1>4. PtsOK(w, rest \ c.pushed) /\ Fed(s, w) /\ w.minTimer = s.minTimer /\ w.skipped = s.skipped
  BY <1>1, GiveUpdateFed
<1> HIDE DEF w, g
<1>5. Plain(s, w)
  <2>1. Skips(s, w, c.date)
    BY <1>4 DEF Skips
  <2> QED BY <1>1, <1>4, <2>1, FedPlain
<1>6. PtsOK(x, rest \ c.pushed) /\ Plain(s, x)
  <2> DEFINE less == rest \ c.pushed
             date == c.date
  <2>1. PtsOK(w, less) /\ date \in Nat
    BY <1>1, <1>4
  <2> HIDE DEF less, date
  <2>2. PtsOK(SetDate(w, date), less) /\ Plain(s, SetDate(w, date))
    BY <1>1, <1>5, <2>1, DatePlain
  <2> QED BY <2>2 DEF less, date
<1> HIDE DEF x
<1> QED BY <1>2, <1>3, <1>4, <1>5, <1>6 DEF t

\* applyUpdates() of a container without a seq number.
LEMMA ApplyPlainOK ==
    ASSUME LogInv, NEW rest, NEW s, PtsOK(s, rest), NEW c, Carries(c), c.pushed \subseteq rest,
           c.short => c.pushed # {}, c.short \/ c.last = 0, NEW bad, NEW deadline \in Deadlines
    PROVE  /\ PtsOK(ApplyUpdates(s, c, bad, deadline), rest \ c.pushed)
           /\ Plain(s, ApplyUpdates(s, c, bad, deadline))
<1>1. CASE c.short
  <2> DEFINE loaded == c \notin bad
  <2>1. loaded \in BOOLEAN /\ ApplyUpdates(s, c, bad, deadline) = ApplyShort(s, c, loaded, deadline)
    BY <1>1 DEF ApplyUpdates
  <2> HIDE DEF loaded
  <2> QED BY <1>1, <2>1, ApplyShortOK
<1>2. CASE ~c.short
  <2>1. ApplyUpdates(s, c, bad, deadline) = ApplyVector(s, c, bad, deadline)
    BY <1>2 DEF ApplyUpdates
  <2> QED BY <2>1, ApplyVectorOK
<1> QED BY <1>1, <1>2

\* applyAffectedHistory(): the caller has applied the effect itself.
LEMMA AffectedOK ==
    ASSUME LogInv, NEW rest, NEW s, PtsOK(s, rest), NEW u \in log, u \in rest, u.date <= clock,
           NEW deadline \in Deadlines
    PROVE  LET r == UpdateAndApplyCount(s.box, u, deadline)
               t == Given(s, [r EXCEPT !.applied = @ \union {u}])
           IN  PtsOK(t, rest \ {u}) /\ Plain(s, t) /\ t.date = s.date
<1> DEFINE r == UpdateAndApplyCount(s.box, u, deadline)
           q == [r EXCEPT !.applied = @ \union {u}]
           t == Given(s, q)
<1>1. /\ Gave(log, serverPts, s.box, s.known \union (r.applied \union {u}), rest \ {u}, r.box)
      /\ Waiting(r.box) /\ QueueBelow(r.box)
      /\ r.box \in BoxType(Nat, log) /\ r.applied \subseteq log
  <2> HIDE DEF r
  <2> QED BY UpdateAndApplyCountSound DEF LogInv, PtsOK, r
<1>2. r = [box |-> r.box, applied |-> r.applied]
  BY DEF UpdateAndApplyCount, ApplySkipped
<1> HIDE DEF r
<1>3. q.box = r.box /\ q.applied = r.applied \union {u}
  BY <1>2
<1> HIDE DEF q
<1>4. GiveOK(s, q, rest \ {u})
  BY <1>1, <1>3 DEF GiveOK
<1>5. PtsOK(t, rest \ {u}) /\ Fed(s, t) /\ t.minTimer = s.minTimer /\ t.skipped = s.skipped
  BY <1>4, GivenFed
<1> HIDE DEF t
<1>6. Plain(s, t) /\ t.date = s.date
  <2>1. Skips(s, t, u.date) /\ s \in ClientType
    BY <1>5 DEF Skips, PtsOK
  <2> QED BY <1>5, <2>1, FedPlain DEF Fed
<1> QED BY <1>5, <1>6 DEF t, q, r

-----------------------------------------------------------------------------
(* stateDone() and differenceDone().                                         *)

AnswerType == [pts : Nat, seq : Nat, date : Nat, final : BOOLEAN]

\* An answer the server may have given to the request of s, whose session the
\* client knows or does not.
Fits(s, a, same) ==
    /\ a \in AnswerType /\ s.box.good <= a.pts /\ a.pts <= serverPts /\ a.pts > 0
    /\ NoneAcross(log, a.pts)
    /\ same => s.seq <= a.seq /\ a.seq <= serverSeq

\* What the answer a makes of s.
Told(s, t, a) ==
    /\ s.known \subseteq t.known /\ t.box.good = a.pts
    /\ t.queue = {} /\ t.minTimer = s.minTimer
    /\ t.date = IF s.minTimer THEN s.date ELSE Larger(s.date, a.date)
    /\ t.skipped = {d \in s.skipped : ~(s.request.date < d /\ d <= a.date)}
    /\ (a.final <=> ~t.box.requesting) /\ t.request.state # "answered"
    /\ ~a.final => t.request.date = t.date

LEMMA AnsweredOK ==
    ASSUME LogInv, SessionInv, NEW rest, NEW s, PtsOK(s, rest), s.box.requesting,
           NEW same \in BOOLEAN, NEW a, Fits(s, a, same)
    PROVE  LET t == Answered(s, a)
           IN  PtsOK(t, rest) /\ SeqOK(t, same) /\ Told(s, t, a)
<1> DEFINE new == {c \in sent : a.final /\ c.last <= a.seq}
           old == {u \in log : u.pts <= a.pts}
           left == {d \in s.skipped : ~(s.request.date < d /\ d <= a.date)}
           date == IF s.minTimer THEN s.date ELSE Larger(s.date, a.date)
           learnt == [s EXCEPT !.box = InitPts(@, a.pts), !.known = @ \union old,
                               !.seen = @ \union new, !.skipped = left]
           x == SetDate(learnt, a.date)
           y == SetSeq(x, a.seq, {}, "ahead")
           free == [y EXCEPT !.box = SetRequesting(@, FALSE), !.request = NoRequest]
           t == Answered(s, a)
<1>0. /\ s \in ClientType /\ s.date \in Nat /\ s.seq \in Nat /\ s.minTimer \in BOOLEAN
      /\ s.box \in BoxType(Nat, log) /\ s.queue = {} /\ s.known \subseteq log
      /\ a.pts \in Nat /\ a.seq \in Nat /\ a.date \in Nat /\ a.final \in BOOLEAN /\ a.pts > 0
      /\ new \subseteq Container /\ old \subseteq log /\ left \subseteq Nat /\ serverSeq \in Nat
  BY DEF PtsOK, ClientType, RequestOK, Fits, AnswerType, SessionInv
<1>1. t = IF a.final THEN free ELSE GetDifference(free)
  BY DEF Answered
<1> DEFINE box == InitPts(s.box, a.pts)
           k == s.known \union old
<1>2. /\ Sound(log, serverPts, SetRequesting(box, FALSE), k, rest)
      /\ box.good = a.pts /\ ~Gap(box) /\ box.queue = {} /\ box.requesting
      /\ box \in BoxType(Nat, log) /\ k \subseteq log
  <2>1. \A v \in log : v.pts <= a.pts => v \in k
    OBVIOUS
  <2>2. k \subseteq log /\ Intervals(log) /\ serverPts \in Nat /\ a.pts <= serverPts
        /\ NoneAcross(log, a.pts)
    BY <1>0 DEF LogInv, Fits
  <2>3. box \in BoxType(Nat, log)
    BY <1>0 DEF InitPts, BoxType
  <2> HIDE DEF box, k
  <2>4. Sound(log, serverPts, SetRequesting(InitPts(s.box, a.pts), FALSE), k, rest)
    <3>1. k \in SUBSET log
      BY <2>2
    <3> QED BY <1>0, <2>1, <2>2, <3>1, InitPtsSound
  <2>5. /\ box.good = a.pts /\ ~Gap(box) /\ box.queue = {} /\ box.requesting
    BY <1>0 DEF InitPts, Gap, BoxType, box
  <2> QED BY <2>2, <2>3, <2>4, <2>5 DEF box
<1>3. /\ learnt \in ClientType /\ learnt.box = box /\ learnt.known = k /\ learnt.seen = s.seen \union new
      /\ learnt.skipped = left /\ learnt.seq = s.seq /\ learnt.date = s.date /\ learnt.queue = {}
      /\ learnt.minTimer = s.minTimer
  <2> HIDE DEF new, old, left
  <2>1. s.seen \union new \in SUBSET Container /\ k \in SUBSET log /\ left \in SUBSET Nat
    BY <1>0, <1>2 DEF ClientType
  <2>2. learnt = [s EXCEPT !.box = box, !.known = k, !.seen = s.seen \union new, !.skipped = left]
    OBVIOUS
  <2> HIDE DEF learnt, box, k
  <2> QED BY <1>0, <1>2, <2>1, <2>2 DEF ClientType
<1> HIDE DEF learnt, left, box, k
<1>4. /\ x \in ClientType /\ x.box = box /\ x.known = k /\ x.seen = s.seen \union new
      /\ x.skipped = left /\ x.seq = s.seq /\ x.date = date /\ x.queue = {} /\ x.minTimer = s.minTimer
  <2>1. CASE s.date < a.date /\ ~s.minTimer
    <3>1. x = [learnt EXCEPT !.date = a.date]
      BY <1>3, <2>1 DEF SetDate
    <3>2. date = a.date
      BY <1>0, <2>1 DEF Larger
    <3> HIDE DEF x, date, new
    <3> QED BY <1>0, <1>3, <3>1, <3>2 DEF ClientType
  <2>2. CASE ~(s.date < a.date /\ ~s.minTimer)
    <3>1. x = learnt
      BY <1>3, <2>2 DEF SetDate
    <3>2. date = s.date
      BY <1>0, <2>2 DEF Larger
    <3> HIDE DEF x, date, new
    <3> QED BY <1>3, <3>1, <3>2
  <2> QED BY <2>1, <2>2
<1> HIDE DEF x, date, new
<1>5. /\ y \in ClientType /\ y.box = box /\ y.known = k /\ y.seen = s.seen \union new
      /\ y.skipped = left /\ y.date = date /\ y.queue = {} /\ y.minTimer = s.minTimer
      /\ same => y.seq = a.seq
  <2>1. CASE a.seq = 0 \/ a.seq = s.seq
    <3>1. y = x
      BY <1>4, <2>1 DEF SetSeq
    <3>2. same => s.seq = a.seq
      BY <1>0, <2>1 DEF Fits
    <3> HIDE DEF y
    <3> QED BY <1>4, <3>1, <3>2
  <2>2. CASE ~(a.seq = 0 \/ a.seq = s.seq)
    <3> DEFINE z == [x EXCEPT !.seq = a.seq]
    <3>1. /\ z \in ClientType /\ z.box = box /\ z.known = k /\ z.seen = s.seen \union new
          /\ z.skipped = left /\ z.seq = a.seq /\ z.date = date /\ z.queue = {}
          /\ z.minTimer = s.minTimer
      BY <1>0, <1>4 DEF ClientType
    <3>2. y = Drain(z, {}, "ahead")
      BY <1>4, <2>2 DEF SetSeq
    <3> HIDE DEF z, y
    <3>3. y = [z EXCEPT !.seqTimer = FALSE]
      BY <3>1, <3>2, DrainNone
    <3> QED BY <3>1, <3>3 DEF ClientType
  <2> QED BY <2>1, <2>2
<1> HIDE DEF y
<1>6. /\ free \in ClientType /\ free.box = SetRequesting(box, FALSE) /\ free.known = k
      /\ free.seen = s.seen \union new /\ free.skipped = left /\ free.date = date
      /\ free.queue = {} /\ free.minTimer = s.minTimer /\ free.request = NoRequest
      /\ same => free.seq = a.seq
  <2>1. SetRequesting(box, FALSE) \in BoxType(Nat, log) /\ NoRequest \in RequestType
    BY <1>2 DEF SetRequesting, BoxType, NoRequest, RequestType
  <2>2. free = [y EXCEPT !.box = SetRequesting(box, FALSE), !.request = NoRequest]
    BY <1>5
  <2> HIDE DEF free
  <2> QED BY <1>5, <2>1, <2>2 DEF ClientType
<1> HIDE DEF free
<1>7. /\ ~free.box.requesting /\ free.box.good = a.pts /\ free.box.queue = {} /\ ~Gap(free.box)
  BY <1>2, <1>6 DEF SetRequesting, Gap, BoxType
<1>8. PtsOK(free, rest)
  <2>1. Sound(log, serverPts, free.box, free.known, rest)
    BY <1>2, <1>6
  <2>2. Waiting(free.box) /\ QueueBelow(free.box) /\ RequestOK(free)
    <3>1. free.request.state = "none"
      BY <1>6 DEF NoRequest
    <3> QED BY <1>6, <1>7, <3>1 DEF Waiting, QueueBelow, RequestOK
  <2> QED BY <1>6, <2>1, <2>2 DEF PtsOK
<1>9. s.known \subseteq k
  BY DEF k
<1>10. CASE a.final
  <2>1. t = free
    BY <1>1, <1>10
  <2>2. SeqOK(free, same)
    BY <1>0, <1>6, <1>10 DEF SeqOK, Fits, new
  <2>3. Told(s, free, a)
    <3>1. free.request.state = "none"
      BY <1>6 DEF NoRequest
    <3> QED BY <1>6, <1>7, <1>9, <1>10, <3>1 DEF Told, left, date
  <2> QED BY <1>8, <2>1, <2>2, <2>3
<1>11. CASE ~a.final
  <2> DEFINE g == GetDifference(free)
  <2>1. t = g
    BY <1>1, <1>11
  <2>2. /\ PtsOK(g, rest) /\ Fed(free, g) /\ g.box.requesting /\ g.box.good = free.box.good
        /\ g.known = free.known /\ g.minTimer = free.minTimer /\ g.skipped = free.skipped
    BY <1>8, GetDifferenceFed
  <2> HIDE DEF g, t
  <2>3. /\ g.queue = {} /\ g.seq = free.seq /\ g.date = free.date
        /\ g.request.state = "sent" /\ g.request.date = free.date
    BY <1>7, <2>2 DEF Fed
  <2>4. SeqOK(g, same)
    BY <1>0, <1>6, <2>2, <2>3 DEF SeqOK, Fits
  <2>5. Told(s, g, a)
    BY <1>6, <1>7, <1>9, <1>11, <2>2, <2>3 DEF Told, left, date
  <2> QED BY <2>1, <2>2, <2>4, <2>5 DEF t
<1> QED BY <1>0, <1>10, <1>11

-----------------------------------------------------------------------------
(* The inductive invariant.                                                  *)

\* The client has been told of the server's session.
Known == notice.what # "new session"

\* The updates that are still to be given to the box.
ToCome == results \union Pushed(net \union client.queue)

\* A short message has an update with a pts, a numbered container is of the session.
Travels(c, session) ==
    (c.short => c.last = 0 /\ c.pushed # {}) /\ (c.last # 0 => c \in session)

\* What is on its way: updates and containers that are there once, numbered
\* ones of the server's session; a notice comes before what was sent later.
WireInv ==
    /\ clock \in Nat /\ \A u \in log : u.date <= clock
    /\ IsFiniteSet(client.queue) /\ results \subseteq log
    /\ Apart(net \union client.queue, results) /\ net \intersect client.queue = {}
    /\ \A c \in net \union client.queue : c.date <= clock
    /\ \A c \in net : Travels(c, sent)
    /\ notice \in [what : {"none", "new session", "too long"}, date : Nat]
    /\ notice.date <= clock
    /\ notice # NoNotice => \A c \in net : c.date > notice.date

\* An answer on its way fits the request; if it was made in a new session, the
\* notice of it comes first.
AnswerInv ==
    client.request.state = "answered" =>
       /\ Fits(client, answer, Known) /\ answer.date <= clock
       /\ answer.date >= notice.date => answer.seq <= serverSeq

IInv ==
    /\ LogInv /\ SessionInv /\ WireInv /\ AnswerInv
    /\ PtsOK(client, ToCome) /\ SeqOK(client, Known) /\ QueueOK(client)

\* The step of ContainersInOrder, and with it what the client promises: it
\* forgets nothing and does not move its claim back.
InOrder ==
    \A c \in client'.seen \ client.seen :
       ~client.box.requesting /\ c \in net \union client.queue =>
          \A d \in sent : d.last < c.first => d \in client'.seen

Goes ==
    client.known \subseteq client'.known /\ client'.box.good >= client.box.good /\ InOrder

LEMMA InitIInv == Init => IInv
<1> SUFFICES ASSUME Init PROVE IInv
  OBVIOUS
<1> USE DEF Init
<1>1. LogInv
  BY BoundsAssumption DEF LogInv, Intervals
<1>2. SessionInv
  BY DEF SessionInv
<1>3. /\ client.queue = {} /\ client.known = {} /\ client.seq = 0 /\ client.box.good = 0
      /\ client.box.last = 0 /\ client.box.requesting /\ client.box.queue = {}
      /\ client.request.state = "sent" /\ client.request.pts = 0
  BY DEF NewClient, NewBox, SetRequesting, NoRequest
<1>4. WireInv
  BY <1>3, FS_EmptySet DEF WireInv, Apart, NoNotice
<1>5. AnswerInv
  BY <1>3 DEF AnswerInv
<1>6. client \in ClientType
  <2>1. SetRequesting(NewBox, TRUE) \in BoxType(Nat, log)
    BY DEF SetRequesting, NewBox, BoxType
  <2>2. [NoRequest EXCEPT !.state = "sent"] \in RequestType
    BY DEF NoRequest, RequestType
  <2> QED BY <2>1, <2>2 DEF NewClient, ClientType
<1>7. PtsOK(client, ToCome)
  <2>1. client.box \in BoxType(Nat, log) /\ serverPts \in Nat
    BY <1>6, BoundsAssumption DEF ClientType
  <2>2. Sound(log, serverPts, client.box, client.known, ToCome)
    BY <1>3, <2>1 DEF Sound
  <2>3. Waiting(client.box) /\ QueueBelow(client.box) /\ RequestOK(client)
    BY <1>3 DEF Waiting, QueueBelow, RequestOK
  <2> QED BY <1>6, <2>2, <2>3 DEF PtsOK
<1>8. SeqOK(client, Known) /\ QueueOK(client)
  BY <1>3 DEF SeqOK, QueueOK
<1> QED BY <1>1, <1>2, <1>4, <1>5, <1>7, <1>8 DEF IInv

-----------------------------------------------------------------------------
(* The client's steps keep it.                                               *)

\* What is to be shown of a step that leaves the server alone.
LEMMA ClientStep ==
    ASSUME IInv, UNCHANGED serverVars, WireInv', AnswerInv',
           PtsOK(client', ToCome'), SeqOK(client', Known'), QueueOK(client')
    PROVE  IInv'
<1> USE DEF serverVars
<1>1. LogInv' /\ SessionInv'
  BY DEF IInv, LogInv, SessionInv
<1>2. PtsOK(client, ToCome)'
  BY DEF PtsOK, ClientType, RequestOK
<1>3. SeqOK(client, Known)' /\ QueueOK(client)'
  BY DEF SeqOK, QueueOK
<1> QED BY <1>1, <1>2, <1>3 DEF IInv

\* Nothing new is on its way.
LEMMA WireShrinks ==
    ASSUME IInv, UNCHANGED serverVars, net' \subseteq net, results' \subseteq results,
           NEW c, client'.queue \subseteq client.queue \union {c},
           c \in client'.queue => c \in net \union client.queue,
           net' \intersect client'.queue = {}, notice' = notice \/ notice' = NoNotice
    PROVE  WireInv'
<1>1. WireInv
  BY DEF IInv
<1>2. IsFiniteSet(client'.queue)
  <2>1. IsFiniteSet(client.queue \union {c})
    BY <1>1, FS_AddElement DEF WireInv
  <2> QED BY <2>1, FS_Subset
<1>3. net' \union client'.queue \subseteq net \union client.queue
  OBVIOUS
<1>4. Apart(net' \union client'.queue, results')
  <2> QED BY <1>1, <1>3 DEF WireInv, Apart
<1>5. Apart(net \union client.queue, results)'
  BY <1>4 DEF Apart, Carries, serverVars
<1>6. /\ clock' \in Nat /\ \A u \in log' : u.date <= clock'
      /\ results' \subseteq log'
      /\ \A d \in net' : Travels(d, sent')
      /\ \A d \in net' \union client'.queue : d.date <= clock'
  BY <1>1, <1>3 DEF WireInv, serverVars
<1>7. /\ notice' \in [what : {"none", "new session", "too long"}, date : Nat]
      /\ notice'.date <= clock'
      /\ notice' # NoNotice => \A d \in net' : d.date > notice'.date
  <2>1. CASE notice' = notice
    BY <1>1, <2>1 DEF WireInv, serverVars
  <2>2. CASE notice' = NoNotice
    <3>1. NoNotice \in [what : {"none", "new session", "too long"}, date : Nat] /\ NoNotice.date = 0
      BY DEF NoNotice
    <3>2. clock' \in Nat
      BY <1>6
    <3>3. notice' \in [what : {"none", "new session", "too long"}, date : Nat]
      BY <2>2, <3>1
    <3>4. notice'.date <= clock'
      <4>1. notice'.date = 0
        BY <2>2, <3>1, Zenon
      <4> HIDE <2>2
      <4> QED BY <3>2, <4>1
    <3> QED BY <2>2, <3>3, <3>4
  <2> QED BY <2>1, <2>2
<1> QED BY <1>2, <1>5, <1>6, <1>7 DEF WireInv

\* An answer on its way still fits, or the request it answers is over.
LEMMA AnswerKept ==
    ASSUME IInv, UNCHANGED <<serverVars, answer, notice>>, Moved(client, client'),
           client'.seq = client.seq \/ ~client.box.requesting
    PROVE  AnswerInv'
<1>1. SUFFICES ASSUME client'.request.state = "answered"
               PROVE  /\ Fits(client, answer, Known)' /\ answer'.date <= clock'
                      /\ answer'.date >= notice'.date => answer'.seq <= serverSeq'
  BY DEF AnswerInv
<1>2. RequestOK(client) /\ AnswerInv
  BY DEF IInv, PtsOK
<1>3. client.box.requesting /\ client'.request = client.request
  BY <1>1, <1>2 DEF Moved, RequestOK
<1>4. client'.box.good = client.box.good /\ client'.seq = client.seq
  BY <1>3 DEF Moved
<1>5. Fits(client, answer, Known)
  BY <1>1, <1>2, <1>3 DEF AnswerInv
<1>6. Fits(client, answer, Known)'
  BY <1>4, <1>5 DEF Fits, Known, serverVars
<1> QED BY <1>1, <1>2, <1>3, <1>6 DEF AnswerInv, serverVars

\* getDifference(), called by a handler that has made x of the client.
LEMMA AskKeeps ==
    ASSUME IInv, UNCHANGED <<serverVars, net, results>>, AnswerInv',
           notice' = notice \/ notice' = NoNotice,
           NEW x, PtsOK(x, ToCome), x.box.good = client.box.good, x.known = client.known,
           x.seen = client.seen, Known' => x.seq <= serverSeq, client' = GetDifference(x)
    PROVE  IInv' /\ Goes
<1> DEFINE t == GetDifference(x)
<1>1. /\ PtsOK(t, ToCome) /\ Fed(x, t) /\ t.box.requesting /\ t.box.good = x.box.good
      /\ t.known = x.known
  BY GetDifferenceFed
<1> HIDE DEF t
<1>2. client' = t
  BY DEF t
<1>3. t.seq = x.seq /\ t.seen = x.seen /\ t.queue = {}
  BY <1>1 DEF Fed, PtsOK, RequestOK
<1>4. PtsOK(client', ToCome')
  <2>1. ToCome' \subseteq ToCome
    BY <1>2, <1>3 DEF ToCome, Pushed
  <2> QED BY <1>1, <1>2, <2>1, FewerToCome
<1>5. SeqOK(client', Known') /\ QueueOK(client')
  BY <1>1, <1>2, <1>3 DEF SeqOK, QueueOK
<1>6. WireInv'
  BY <1>2, <1>3, WireShrinks
<1>7. IInv'
  BY <1>4, <1>5, <1>6, ClientStep
<1>8. client.box.good \in Nat
  BY DEF IInv, PtsOK, ClientType, BoxType
<1>9. Goes
  BY <1>1, <1>2, <1>3, <1>8 DEF Goes, InOrder
<1> QED BY <1>7, <1>9

\* The three timers.
LEMMA TimersKeep == IInv /\ (PtsTimer \/ SeqTimer \/ MinChannelTimer) => IInv' /\ Goes
<1> SUFFICES ASSUME IInv, PtsTimer \/ SeqTimer \/ MinChannelTimer PROVE IInv' /\ Goes
  OBVIOUS
<1>0. /\ PtsOK(client, ToCome) /\ client \in ClientType /\ client.box.good \in Nat
      /\ SeqOK(client, Known)
  BY DEF IInv, PtsOK, ClientType, BoxType
<1>1. UNCHANGED <<serverVars, net, results, answer, notice>>
  BY DEF PtsTimer, SeqTimer, MinChannelTimer, wireVars
<1>2. \E x : /\ client' = GetDifference(x) /\ PtsOK(x, ToCome) /\ x.box = client.box
             /\ x.known = client.known /\ x.seen = client.seen /\ x.seq = client.seq
             /\ x.request = client.request
  <2>1. CASE PtsTimer
    BY <1>0, <2>1 DEF PtsTimer
  <2>2. CASE SeqTimer
    <3> DEFINE x == [client EXCEPT !.seqTimer = FALSE]
    <3>1. /\ x \in ClientType /\ x.box = client.box /\ x.queue = client.queue
          /\ x.known = client.known /\ x.seen = client.seen /\ x.seq = client.seq
          /\ x.request = client.request
      BY <1>0 DEF ClientType
    <3>2. client' = GetDifference(x)
      BY <2>2 DEF SeqTimer
    <3> HIDE DEF x
    <3>3. PtsOK(x, ToCome)
      BY <1>0, <3>1 DEF PtsOK, RequestOK
    <3> QED BY <3>1, <3>2, <3>3
  <2>3. CASE MinChannelTimer
    <3> DEFINE x == [client EXCEPT !.minTimer = FALSE]
    <3>1. /\ x \in ClientType /\ x.box = client.box /\ x.queue = client.queue
          /\ x.known = client.known /\ x.seen = client.seen /\ x.seq = client.seq
          /\ x.request = client.request
      BY <1>0 DEF ClientType
    <3>2. client' = GetDifference(x)
      BY <2>3 DEF MinChannelTimer
    <3> HIDE DEF x
    <3>3. PtsOK(x, ToCome)
      BY <1>0, <3>1 DEF PtsOK, RequestOK
    <3> QED BY <3>1, <3>2, <3>3
  <2> QED BY <2>1, <2>2, <2>3
<1>3. PICK x : /\ client' = GetDifference(x) /\ PtsOK(x, ToCome) /\ x.box = client.box
               /\ x.known = client.known /\ x.seen = client.seen /\ x.seq = client.seq
               /\ x.request = client.request
  BY <1>2
<1>4. AnswerInv'
  <2> DEFINE t == GetDifference(x)
  <2>1. Fed(x, t) /\ t.box.requesting /\ t.box.good = x.box.good /\ t.known = x.known
    BY <1>3, GetDifferenceFed
  <2> HIDE DEF t
  <2>2. client' = t
    BY <1>3 DEF t
  <2>3. /\ client'.seq = client.seq /\ client'.box.good = client.box.good
        /\ client.box.requesting => client'.request = client.request
        /\ ~client.box.requesting => client'.request.state = "sent"
    BY <1>3, <2>1, <2>2 DEF Fed
  <2>4. RequestOK(client) /\ AnswerInv
    BY DEF IInv, PtsOK
  <2>5. SUFFICES ASSUME client'.request.state = "answered"
                 PROVE  /\ Fits(client, answer, Known)' /\ answer'.date <= clock'
                        /\ answer'.date >= notice'.date => answer'.seq <= serverSeq'
    BY DEF AnswerInv
  <2>6. Fits(client, answer, Known)
    BY <2>3, <2>4, <2>5 DEF AnswerInv
  <2>7. Fits(client, answer, Known)'
    BY <1>1, <2>3, <2>6 DEF Fits, Known, serverVars
  <2> QED BY <1>1, <2>3, <2>4, <2>5, <2>7 DEF AnswerInv, serverVars
<1>5. Known' => x.seq <= serverSeq
  BY <1>0, <1>1, <1>3 DEF SeqOK, Known
<1> QED BY <1>1, <1>3, <1>4, <1>5, AskKeeps

\* A step that changes nothing of the client but the state of its request.
LEMMA SameClientKeeps ==
    ASSUME IInv, UNCHANGED <<serverVars, net, results>>, AnswerInv',
           notice' = notice \/ notice' = NoNotice, Known \/ ~Known',
           NEW state \in {"none", "sent", "answered", "failed"},
           state = client.request.state \/ (client.request.state = "sent" /\ state # "none"),
           client' = [client EXCEPT !.request.state = state]
    PROVE  IInv' /\ Goes
<1>0. /\ PtsOK(client, ToCome) /\ client \in ClientType /\ client.box.good \in Nat
      /\ SeqOK(client, Known) /\ client.request \in RequestType /\ QueueOK(client)
      /\ net \intersect client.queue = {}
  BY DEF IInv, PtsOK, ClientType, BoxType, WireInv
<1>1. /\ client' \in ClientType /\ client'.box = client.box /\ client'.queue = client.queue
      /\ client'.known = client.known /\ client'.seen = client.seen /\ client'.seq = client.seq
      /\ client'.request.pts = client.request.pts /\ client'.request.state = state
      /\ client'.seqTimer = client.seqTimer
  <2>1. [client.request EXCEPT !.state = state] \in RequestType
    BY <1>0 DEF RequestType
  <2> QED BY <1>0, <2>1 DEF ClientType, RequestType
<1>2. PtsOK(client', ToCome')
  <2>1. RequestOK(client')
    BY <1>0, <1>1 DEF PtsOK, RequestOK
  <2>2. ToCome' = ToCome
    BY <1>1 DEF ToCome, Pushed
  <2> QED BY <1>0, <1>1, <2>1, <2>2 DEF PtsOK
<1>3. SeqOK(client', Known') /\ QueueOK(client')
  BY <1>0, <1>1 DEF SeqOK, QueueOK
<1>4. WireInv'
  BY <1>0, <1>1, WireShrinks
<1>5. IInv'
  BY <1>2, <1>3, <1>4, ClientStep
<1> QED BY <1>0, <1>1, <1>5 DEF Goes, InOrder

\* mtpNewSessionCreated() and updatesTooLong.
LEMMA NoticeKeeps == IInv /\ ReceiveNotice => IInv' /\ Goes
<1> SUFFICES ASSUME IInv, ReceiveNotice PROVE IInv' /\ Goes
  OBVIOUS
<1>0. /\ PtsOK(client, ToCome) /\ client \in ClientType /\ client.box.good \in Nat
      /\ SeqOK(client, Known) /\ AnswerInv /\ RequestOK(client) /\ SessionInv
  BY DEF IInv, PtsOK, ClientType, BoxType
<1>1. /\ notice' = NoNotice /\ UNCHANGED <<serverVars, net, results, answer>>
      /\ client.request.state = "answered" => answer.date >= notice.date
  BY DEF ReceiveNotice
<1>2. Known'
  BY <1>1 DEF Known, NoNotice
<1>3. client.request.state = "answered" =>
        /\ answer \in AnswerType /\ client.box.good <= answer.pts /\ answer.pts <= serverPts
        /\ answer.pts > 0 /\ NoneAcross(log, answer.pts) /\ answer.date <= clock
        /\ answer.seq <= serverSeq /\ answer.seq \in Nat /\ answer.date \in Nat
  BY <1>0, <1>1 DEF AnswerInv, Fits, AnswerType
<1>4. ASSUME client'.request.state = "answered" => client.request.state = "answered",
             client'.box.good = client.box.good,
             client'.seq = 0 \/ (Known /\ client'.seq = client.seq)
      PROVE  AnswerInv'
  <2>1. SUFFICES ASSUME client'.request.state = "answered"
                 PROVE  /\ Fits(client, answer, Known)' /\ answer'.date <= clock'
                        /\ answer'.date >= notice'.date => answer'.seq <= serverSeq'
    BY DEF AnswerInv
  <2>2. client'.seq <= answer.seq
    BY <1>0, <1>3, <1>4, <2>1 DEF AnswerInv, Fits
  <2>3. /\ answer' = answer /\ clock' = clock /\ log' = log /\ serverPts' = serverPts
        /\ serverSeq' = serverSeq
    BY <1>1 DEF serverVars
  <2>4. Fits(client, answer, Known)'
    BY <1>3, <1>4, <2>1, <2>2, <2>3 DEF Fits
  <2> QED BY <1>3, <1>4, <2>1, <2>3, <2>4
<1>5. CASE notice.what = "new session"
  <2> DEFINE x == [client EXCEPT !.seq = 0]
             t == GetDifference(x)
  <2>1. /\ x \in ClientType /\ x.box = client.box /\ x.queue = client.queue
        /\ x.known = client.known /\ x.seen = client.seen /\ x.seq = 0
        /\ x.request = client.request
    BY <1>0 DEF ClientType
  <2>2. client' = t
    BY <1>5 DEF ReceiveNotice
  <2> HIDE DEF x
  <2>3. PtsOK(x, ToCome)
    BY <1>0, <2>1 DEF PtsOK, RequestOK
  <2>4. Fed(x, t) /\ t.box.requesting /\ t.box.good = x.box.good
    BY <2>3, GetDifferenceFed
  <2> HIDE DEF t
  <2>5. /\ client'.seq = 0 /\ client'.box.good = client.box.good
        /\ client'.request.state = "answered" => client.request.state = "answered"
    BY <2>1, <2>2, <2>4 DEF Fed
  <2>6. AnswerInv'
    BY <1>4, <2>5
  <2>7. x.seq <= serverSeq
    BY <1>0, <2>1 DEF SessionInv
  <2> QED BY <1>1, <2>1, <2>2, <2>3, <2>6, <2>7, AskKeeps DEF t
<1>6. CASE notice.what # "new session" /\ client.box.requesting
  <2> DEFINE state == client.request.state
  <2>1. client' = client
    BY <1>6 DEF ReceiveNotice
  <2>2. state \in {"none", "sent", "answered", "failed"}
    BY <1>0 DEF ClientType, RequestType
  <2>3. client' = [client EXCEPT !.request.state = state]
    BY <1>0, <2>1 DEF ClientType, RequestType
  <2>4. AnswerInv'
    BY <1>4, <1>6, <2>1 DEF Known
  <2> HIDE DEF state
  <2>5. Known
    BY <1>6 DEF Known
  <2> QED BY <1>1, <2>2, <2>3, <2>4, <2>5, SameClientKeeps DEF state
<1>7. CASE notice.what # "new session" /\ ~client.box.requesting
  <2> DEFINE t == GetDifference(client)
  <2>1. client' = t
    BY <1>7 DEF ReceiveNotice
  <2>2. Fed(client, t) /\ t.box.requesting /\ t.box.good = client.box.good
    BY <1>0, GetDifferenceFed
  <2> HIDE DEF t
  <2>3. /\ client'.seq = client.seq /\ client'.box.good = client.box.good
        /\ client'.request.state # "answered"
    <3>0. ~client.box.requesting
      BY <1>7
    <3>1. t.seq = client.seq /\ t.request.state = "sent"
      BY <2>2, <3>0 DEF Fed
    <3> QED BY <2>1, <2>2, <3>1
  <2>4. AnswerInv'
    BY <1>4, <1>7, <2>3 DEF Known
  <2>5. client.seq <= serverSeq
    BY <1>0, <1>7 DEF SeqOK, Known
  <2> QED BY <1>0, <1>1, <2>1, <2>4, <2>5, AskKeeps DEF t
<1> QED BY <1>5, <1>6, <1>7

\* An update given to the box outside of a numbered container.
LEMMA PlainKeeps ==
    ASSUME IInv, UNCHANGED <<serverVars, notice, answer>>, net' \subseteq net,
           results' \subseteq results, Plain(client, client'),
           PtsOK(client', ToCome')
    PROVE  IInv' /\ Goes
<1>0. /\ PtsOK(client, ToCome) /\ client.box.good \in Nat /\ SeqOK(client, Known)
      /\ QueueOK(client) /\ net \intersect client.queue = {}
  BY DEF IInv, PtsOK, ClientType, BoxType, WireInv
<1>1. /\ client'.queue \subseteq client.queue /\ client'.seq = client.seq
      /\ client'.seen = client.seen /\ Moved(client, client')
      /\ client'.queue # {} => client'.queue = client.queue /\ client'.seqTimer = client.seqTimer
  BY DEF Plain
<1>2. SeqOK(client', Known') /\ QueueOK(client')
  <2>1. ~client'.box.requesting => ~client.box.requesting
    BY <1>1 DEF Moved
  <2> QED BY <1>0, <1>1, <2>1 DEF SeqOK, QueueOK, Known, serverVars
<1>3. AnswerInv'
  BY <1>1, AnswerKept
<1>4. WireInv'
  BY <1>0, <1>1, WireShrinks
<1>5. IInv'
  BY <1>2, <1>3, <1>4, ClientStep DEF serverVars
<1>6. Goes
  BY <1>0, <1>1 DEF Moved, Goes, InOrder
<1> QED BY <1>5, <1>6

\* A result of an own request.
LEMMA ResultsKeep ==
    ASSUME IInv, NEW u, NEW deadline \in Deadlines,
           \/ \E short \in BOOLEAN : ReceiveResult(u, short, deadline)
           \/ ReceiveAffected(u, deadline)
    PROVE  IInv' /\ Goes /\ Moved(client, client') /\ Holds(client, client')
<1>0. /\ LogInv /\ PtsOK(client, ToCome) /\ client.queue \in SUBSET Container
      /\ results \subseteq log /\ log \subseteq Update /\ \A v \in log : v.date <= clock
      /\ Apart(net \union client.queue, results)
  BY DEF IInv, LogInv, PtsOK, ClientType, WireInv
<1>1. /\ u \in results /\ u \in log /\ u \in ToCome /\ u.date <= clock
      /\ results' = results \ {u} /\ UNCHANGED <<serverVars, net, notice, answer>>
  BY <1>0 DEF ReceiveResult, ReceiveAffected, ToCome
<1>2. PtsOK(client', ToCome \ {u}) /\ Plain(client, client')
  <2>1. CASE \E short \in BOOLEAN : ReceiveResult(u, short, deadline)
    <3>1. PICK short \in BOOLEAN : ReceiveResult(u, short, deadline)
      BY <2>1
    <3> DEFINE c == [date |-> u.date, short |-> short, first |-> 0, last |-> 0,
                     pushed |-> {u}, skips |-> FALSE]
    <3>2. client' = ApplyUpdates(client, c, {}, deadline)
      BY <3>1 DEF ReceiveResult
    <3>3. c.pushed = {u} /\ c.last = 0 /\ Carries(c)
      BY <1>0, <1>1 DEF Carries, Container, Update
    <3> HIDE DEF c
    <3>4. c.pushed # {} /\ c.pushed \subseteq ToCome
      BY <1>1, <3>3
    <3>5. /\ PtsOK(ApplyUpdates(client, c, {}, deadline), ToCome \ c.pushed)
          /\ Plain(client, ApplyUpdates(client, c, {}, deadline))
      BY <1>0, <3>3, <3>4, ApplyPlainOK
    <3> QED BY <3>2, <3>3, <3>5
  <2>2. CASE ReceiveAffected(u, deadline)
    <3> DEFINE r == UpdateAndApplyCount(client.box, u, deadline)
               t == Given(client, [r EXCEPT !.applied = @ \union {u}])
    <3>1. client' = t
      BY <2>2 DEF ReceiveAffected
    <3>2. PtsOK(t, ToCome \ {u}) /\ Plain(client, t)
      BY <1>0, <1>1, AffectedOK
    <3> HIDE DEF t
    <3> QED BY <3>1, <3>2
  <2> QED BY <2>1, <2>2
<1>3. client'.queue \subseteq client.queue
  BY <1>2 DEF Plain
<1>4. ToCome' \subseteq ToCome \ {u}
  BY <1>0, <1>1, <1>3 DEF ToCome, Pushed, Apart
<1>5. PtsOK(client', ToCome')
  BY <1>2, <1>4, FewerToCome
<1> QED BY <1>1, <1>2, <1>5, PlainKeeps DEF Plain

\* mtpUpdateReceived().
LEMMA PushKeeps ==
    ASSUME IInv, NEW c, NEW bad, NEW deadline \in Deadlines, ReceivePush(c, bad, deadline)
    PROVE  /\ IInv' /\ Goes /\ Moved(client, client')
           /\ client.queue = {} => Holds(client, client')
<1> DEFINE R == results \union Pushed(net \ {c})
           all == net \union client.queue
<1>0. /\ LogInv /\ SessionInv /\ WireInv /\ PtsOK(client, ToCome) /\ client.box.good \in Nat
      /\ client \in ClientType /\ SeqOK(client, Known) /\ QueueOK(client)
      /\ client.box.requesting \in BOOLEAN
  BY DEF IInv, PtsOK, ClientType, BoxType
<1>1. /\ c \in net /\ net' = net \ {c} /\ UNCHANGED <<serverVars, results, notice, answer>>
      /\ client' = IF client.box.requesting THEN client ELSE ApplyUpdates(client, c, bad, deadline)
      /\ AfterNotice(c.date)
  BY DEF ReceivePush
<1>2. /\ Apart(all, results) /\ net \intersect client.queue = {} /\ Carries(c)
      /\ c.date \in Nat /\ notice.date \in Nat /\ c \notin client.queue
      /\ Travels(c, sent)
      /\ notice # NoNotice => c.date > notice.date
      /\ IsFiniteSet(client.queue)
  <2>1. Apart(all, results) /\ c \in all /\ notice.date \in Nat
    BY <1>0, <1>1 DEF WireInv
  <2>2. Carries(c) /\ c.date \in Nat
    BY <2>1 DEF Apart, Carries, Container
  <2> QED BY <1>0, <1>1, <2>1, <2>2 DEF WireInv
<1>3. Known
  <2>1. notice = NoNotice
    BY <1>1, <1>2 DEF AfterNotice
  <2> QED BY <2>1 DEF Known, NoNotice
<1>4. ToCome = R \union Pushed(client.queue) \union c.pushed
  BY <1>1 DEF ToCome, Pushed
<1>5. (R \union Pushed(client.queue)) \intersect c.pushed = {}
  BY <1>1, <1>2 DEF Pushed, Apart
<1>6. ASSUME client'.queue \subseteq client.queue PROVE ToCome' \subseteq ToCome \ c.pushed
  BY <1>1, <1>4, <1>5, <1>6 DEF ToCome, Pushed
<1>7. CASE client.box.requesting
  <2>1. client' = client
    BY <1>1, <1>7
  <2>2. PtsOK(client', ToCome')
    BY <1>0, <1>6, <2>1, FewerToCome
  <2>3. Plain(client, client')
    <3>1. client.date \in Nat
      BY <1>0 DEF ClientType
    <3> QED BY <1>0, <2>1, <3>1 DEF Plain, Moved, Holds
  <2> QED BY <1>1, <2>2, <2>3, PlainKeeps DEF Plain
<1>8. CASE ~client.box.requesting /\ (c.short \/ c.last = 0)
  <2> DEFINE t == ApplyUpdates(client, c, bad, deadline)
  <2>1. client' = t
    BY <1>1, <1>8
  <2>2. (c.short => c.pushed # {}) /\ c.pushed \subseteq ToCome
    BY <1>2, <1>4 DEF Travels
  <2>3. PtsOK(t, ToCome \ c.pushed) /\ Plain(client, t)
    BY <1>0, <1>2, <1>8, <2>2, ApplyPlainOK
  <2> HIDE DEF t
  <2>4. client'.queue \subseteq client.queue
    BY <2>1, <2>3 DEF Plain
  <2>5. PtsOK(client', ToCome')
    BY <1>6, <2>1, <2>3, <2>4, FewerToCome
  <2> QED BY <1>1, <2>1, <2>3, <2>5, PlainKeeps DEF Plain
<1>9. CASE ~client.box.requesting /\ ~(c.short \/ c.last = 0)
  <2> DEFINE t == ApplyNumbered(client, c, bad, deadline)
  <2>1. client' = t
    BY <1>1, <1>9 DEF ApplyUpdates
  <2>2. Apart(client.queue \union {c}, R)
    BY <1>1, <1>2 DEF Apart, Pushed
  <2>3. PtsOK(client, R \union Pushed(client.queue \union {c}))
    <3>1. R \union Pushed(client.queue \union {c}) = ToCome
      BY <1>4 DEF Pushed
    <3> QED BY <1>0, <3>1
  <2> HIDE DEF R
  <2>4. Applied(client, t, c, R)
    <3>1. c \in sent
      BY <1>2, <1>9 DEF Travels
    <3> QED BY <1>0, <1>2, <1>3, <1>9, <2>2, <2>3, <3>1, ApplyNumberedOK
  <2> HIDE DEF t
  <2>5. /\ PtsOK(t, R \union Pushed(t.queue)) /\ Moved(client, t) /\ SeqOK(t, TRUE) /\ QueueOK(t)
        /\ t.queue \subseteq client.queue \union {c} /\ client.seen \subseteq t.seen
        /\ Orderly(client, t) /\ (client.queue = {} => Holds(client, t))
    BY <2>4 DEF Applied
  <2>6. PtsOK(client', ToCome')
    <3>1. ToCome' \subseteq R \union Pushed(t.queue)
      BY <1>1, <2>1 DEF ToCome, Pushed, R
    <3> QED BY <2>1, <2>5, <3>1, FewerToCome
  <2>7. SeqOK(client', Known') /\ QueueOK(client')
    BY <1>1, <1>3, <2>1, <2>5 DEF Known, SeqOK
  <2>8. AnswerInv'
    BY <1>1, <1>9, <2>1, <2>5, AnswerKept
  <2>9. WireInv'
    BY <1>1, <1>2, <2>1, <2>5, WireShrinks
  <2>10. Goes
    BY <1>0, <2>1, <2>5 DEF Goes, Moved, InOrder, Orderly
  <2>11. IInv'
    BY <1>1, <2>6, <2>7, <2>8, <2>9, ClientStep
  <2> QED BY <2>1, <2>5, <2>10, <2>11
<1> QED BY <1>0, <1>7, <1>8, <1>9

\* stateDone() and differenceDone().
LEMMA DoneKeeps == IInv /\ DifferenceDone => IInv' /\ Goes
<1> SUFFICES ASSUME IInv, DifferenceDone PROVE IInv' /\ Goes
  OBVIOUS
<1> DEFINE t == Answered(client, answer)
<1>0. /\ LogInv /\ SessionInv /\ PtsOK(client, ToCome) /\ RequestOK(client)
      /\ AnswerInv /\ client.box.good \in Nat /\ net \intersect client.queue = {}
  BY DEF IInv, PtsOK, ClientType, BoxType, WireInv
<1>1. /\ client.request.state = "answered" /\ client' = t
      /\ UNCHANGED <<serverVars, net, results, notice>>
  BY DEF DifferenceDone
<1>2. client.box.requesting /\ client.queue = {} /\ Fits(client, answer, Known) /\ Known \in BOOLEAN
  BY <1>0, <1>1 DEF RequestOK, AnswerInv, Known
<1>3. PtsOK(t, ToCome) /\ SeqOK(t, Known) /\ Told(client, t, answer)
  <2> DEFINE same == Known
  <2>1. same \in BOOLEAN /\ Fits(client, answer, same)
    BY <1>2
  <2> HIDE DEF same, t
  <2>2. PtsOK(t, ToCome) /\ SeqOK(t, same) /\ Told(client, t, answer)
    BY <1>0, <1>2, <2>1, AnsweredOK DEF t
  <2> QED BY <2>2 DEF same
<1> HIDE DEF t
<1>4. /\ t.queue = {} /\ client.known \subseteq t.known /\ t.box.good >= client.box.good
      /\ t.request.state # "answered"
  BY <1>2, <1>3 DEF Told, Fits
<1>5. PtsOK(client', ToCome')
  <2>1. ToCome' \subseteq ToCome
    BY <1>1, <1>4 DEF ToCome, Pushed
  <2> QED BY <1>1, <1>3, <2>1, FewerToCome
<1>6. SeqOK(client', Known') /\ QueueOK(client') /\ AnswerInv'
  BY <1>1, <1>3, <1>4 DEF SeqOK, QueueOK, AnswerInv, Known
<1>7. WireInv'
  BY <1>1, <1>4, WireShrinks
<1>8. IInv'
  BY <1>1, <1>5, <1>6, <1>7, ClientStep
<1> QED BY <1>1, <1>2, <1>4, <1>8 DEF Goes, InOrder

\* differenceFail() and getDifferenceAfterFail().
LEMMA FailKeeps == IInv /\ (DifferenceFail \/ AfterFailTimer) => IInv' /\ Goes
<1>1. ASSUME IInv, DifferenceFail PROVE IInv' /\ Goes
  <2> DEFINE state == "failed"
  <2>1. /\ client' = [client EXCEPT !.request.state = state] /\ client.request.state = "sent"
        /\ UNCHANGED <<serverVars, net, results, notice>>
        /\ state # "none" /\ state \in {"none", "sent", "answered", "failed"}
    BY <1>1 DEF DifferenceFail, wireVars
  <2>2. client \in ClientType
    BY <1>1 DEF IInv, PtsOK
  <2>3. client'.request.state = "failed"
    BY <2>1, <2>2 DEF ClientType, RequestType
  <2>4. AnswerInv'
    BY <2>3 DEF AnswerInv
  <2>5. Known \/ ~Known'
    BY <2>1 DEF Known
  <2> HIDE DEF state
  <2> QED BY <1>1, <2>1, <2>4, <2>5, SameClientKeeps
<1>2. ASSUME IInv, AfterFailTimer PROVE IInv' /\ Goes
  <2> DEFINE x == [client EXCEPT !.box = SetRequesting(@, FALSE)]
             t == GetDifference(x)
             d == SetRequesting([SetRequesting(client.box, FALSE) EXCEPT !.timer = FALSE], TRUE)
             q == [state |-> "sent", pts |-> client.box.good, date |-> client.date]
  <2>0. /\ PtsOK(client, ToCome) /\ client \in ClientType /\ client.box \in BoxType(Nat, log)
        /\ client.box.good \in Nat /\ client.date \in Nat /\ SeqOK(client, Known)
        /\ RequestOK(client) /\ Sound(log, serverPts, client.box, client.known, ToCome)
        /\ net \intersect client.queue = {}
    BY <1>2 DEF IInv, PtsOK, ClientType, BoxType, WireInv
  <2>1. /\ client.request.state = "failed" /\ client' = t
        /\ UNCHANGED <<serverVars, net, results, notice, answer>>
    BY <1>2 DEF AfterFailTimer, wireVars
  <2>2. /\ x.box = SetRequesting(client.box, FALSE) /\ ~x.box.requesting
        /\ x.box.good = client.box.good /\ x.date = client.date /\ x \in ClientType
        /\ x.seq = client.seq /\ x.known = client.known /\ x.seen = client.seen
    <3>1. SetRequesting(client.box, FALSE) \in BoxType(Nat, log)
      BY <2>0 DEF SetRequesting, BoxType
    <3> QED BY <2>0, <3>1 DEF ClientType, SetRequesting, BoxType
  <2> HIDE DEF x
  <2>3. t = [x EXCEPT !.box = d, !.queue = {}, !.seqTimer = FALSE, !.request = q]
    BY <2>2 DEF GetDifference, Request
  <2>4. /\ d \in BoxType(Nat, log) /\ d.requesting /\ d.good = client.box.good
        /\ d.last = client.box.last /\ d.queue = {}
    BY <2>0 DEF SetRequesting, BoxType
  <2>5. q \in RequestType /\ q.state = "sent" /\ q.pts = client.box.good
    BY <2>0 DEF RequestType
  <2> HIDE DEF d, q, t
  <2>6. /\ t \in ClientType /\ t.box = d /\ t.queue = {} /\ t.request = q /\ t.seq = client.seq
        /\ t.known = client.known /\ t.seen = client.seen
    BY <2>2, <2>3, <2>4, <2>5 DEF ClientType
  <2>7. PtsOK(client', ToCome')
    <3>1. ToCome' \in SUBSET ToCome
      BY <2>1, <2>6 DEF ToCome, Pushed
    <3>2. Sound(log, serverPts, d, client.known, ToCome')
      BY <2>0, <2>4, <3>1, SoundFlags
    <3>3. Waiting(d) /\ QueueBelow(d) /\ RequestOK(t)
      BY <2>4, <2>5, <2>6 DEF Waiting, QueueBelow, RequestOK
    <3> QED BY <2>1, <2>6, <3>2, <3>3 DEF PtsOK
  <2>8. SeqOK(client', Known') /\ QueueOK(client') /\ AnswerInv'
    BY <2>0, <2>1, <2>4, <2>5, <2>6 DEF SeqOK, QueueOK, AnswerInv, Known
  <2>9. WireInv'
    BY <1>2, <2>1, <2>6, WireShrinks
  <2>10. IInv'
    BY <1>2, <2>1, <2>7, <2>8, <2>9, ClientStep
  <2> QED BY <2>0, <2>1, <2>4, <2>6, <2>10 DEF Goes, InOrder
<1> QED BY <1>1, <1>2

-----------------------------------------------------------------------------
(* The server's steps and those of the network keep it.                      *)

\* An update the server makes is beyond its pts; `some' is to come for the
\* client then.
LEMMA MadeKeeps ==
    ASSUME IInv, NEW n \in Nat \ {0}, log' = log \union {Made(n)}, serverPts' = serverPts + n,
           client' = client, clock \in Nat, ToCome' \subseteq ToCome \union {Made(n)}
    PROVE  /\ LogInv' /\ PtsOK(client, ToCome)' /\ Made(n) \in Update /\ Made(n) \notin log
           /\ \A v \in log : v.pts < Made(n).pts
           /\ \A pts \in Nat : pts <= serverPts /\ NoneAcross(log, pts) => NoneAcross(log', pts)
<1> DEFINE u == Made(n)
<1>0. /\ LogInv /\ serverPts \in Nat /\ serverPts > 0 /\ Intervals(log) /\ PtsOK(client, ToCome)
      /\ client \in ClientType
  BY DEF IInv, LogInv, PtsOK
<1>1. /\ u \in Update /\ u.pts = serverPts + n /\ u.count = n /\ Before(u) = serverPts
      /\ u.pts \in Nat /\ u.count \in Nat /\ u.count > 0
  BY <1>0 DEF Made, Update, Before
<1> HIDE DEF u
<1>2. \A v \in log : v.pts \in Nat /\ v.count \in Nat /\ v.pts <= serverPts /\ v.pts < u.pts
  BY <1>0, <1>1 DEF LogInv, Update
<1>3. log' = log \union {u} /\ serverPts' = u.pts /\ u \notin log
  BY <1>1, <1>2 DEF u
<1>4. Intervals(log \union {u})
  BY <1>0, <1>1, <1>2 DEF Intervals, Before
<1>5. LogInv'
  <2>1. log' \subseteq Update /\ serverPts' \in Nat /\ serverPts' > 0
    BY <1>0, <1>1, <1>3 DEF LogInv
  <2>2. \A v \in log' : v.pts <= serverPts'
    BY <1>1, <1>2, <1>3
  <2>3. Intervals(log)'
    BY <1>3, <1>4 DEF Intervals, Before
  <2> QED BY <2>1, <2>2, <2>3 DEF LogInv
<1>6. PtsOK(client, ToCome)'
  <2>1. Sound(log \union {u}, u.pts, client.box, client.known, ToCome')
    <3> DEFINE more == ToCome'
               M == log \union {u}
    <3>1. Sound(log, serverPts, client.box, client.known, ToCome) /\ more \subseteq ToCome \union {u}
      BY <1>0 DEF PtsOK, u
    <3> HIDE DEF more, M
    <3>2. M = log \union {u} /\ \A v \in log : v.pts <= serverPts
      BY <1>2 DEF M
    <3>3. Sound(M, u.pts, client.box, client.known, more)
      BY <1>0, <1>1, <3>1, <3>2, SoundGrows
    <3> QED BY <3>3 DEF M, more
  <2>2. client \in ClientType'
    BY <1>0, <1>3 DEF ClientType, BoxType
  <2> QED BY <1>0, <1>3, <2>1, <2>2 DEF PtsOK, RequestOK
<1>7. \A pts \in Nat : pts <= serverPts /\ NoneAcross(log, pts) => NoneAcross(log', pts)
  BY <1>1, <1>3 DEF NoneAcross
<1> QED BY <1>1, <1>2, <1>3, <1>5, <1>6, <1>7 DEF u

\* The server has made something: the request and its answer stay as they are.
LEMMA AnswerOutlives ==
    ASSUME IInv, UNCHANGED <<client, answer, notice>>, clock' = clock + 1, clock \in Nat,
           serverPts' \in Nat, serverPts' >= serverPts, serverSeq' \in Nat, serverSeq' >= serverSeq,
           \A pts \in Nat : pts <= serverPts /\ NoneAcross(log, pts) => NoneAcross(log', pts)
    PROVE  AnswerInv'
<1>1. SUFFICES ASSUME client.request.state = "answered"
               PROVE  /\ Fits(client, answer, Known)' /\ answer'.date <= clock'
                      /\ answer'.date >= notice'.date => answer'.seq <= serverSeq'
  BY DEF AnswerInv
<1>2. /\ Fits(client, answer, Known) /\ answer.date <= clock
      /\ answer.date >= notice.date => answer.seq <= serverSeq
      /\ serverSeq \in Nat /\ serverPts \in Nat /\ LogInv
  BY <1>1 DEF IInv, AnswerInv, SessionInv, LogInv
<1>3. answer \in AnswerType /\ answer.pts \in Nat /\ answer.seq \in Nat /\ answer.date \in Nat
  BY <1>2 DEF Fits, AnswerType
<1>4. Fits(client, answer, Known)'
  <2>1. /\ client.box.good <= answer.pts /\ answer.pts <= serverPts /\ answer.pts > 0
        /\ NoneAcross(log, answer.pts)
        /\ Known => client.seq <= answer.seq /\ answer.seq <= serverSeq
    BY <1>2 DEF Fits
  <2>2. answer.pts <= serverPts' /\ NoneAcross(log', answer.pts)
    BY <1>2, <1>3, <2>1
  <2>3. Known' => Known
    BY DEF Known
  <2>4. Known' => answer.seq <= serverSeq'
    BY <1>2, <1>3, <2>1, <2>3
  <2> QED BY <1>3, <2>1, <2>2, <2>3, <2>4 DEF Fits
<1> QED BY <1>2, <1>3, <1>4

\* A container on its way to the client that was not there before.
LEMMA NetGrows ==
    ASSUME WireInv, LogInv, log \subseteq log', clock' = clock + 1, NEW c, c \in Container,
           c.date = clock + 1, c.pushed \subseteq log', c.pushed \intersect log = {},
           \A u, v \in c.pushed : u = v, \A v \in log' \ log : v.date <= clock + 1,
           Travels(c, sent'), sent \subseteq sent',
           net' = net \union {c}, UNCHANGED <<results, notice, client>>
    PROVE  WireInv'
<1>1. /\ clock \in Nat /\ IsFiniteSet(client.queue) /\ Apart(net \union client.queue, results)
      /\ results \subseteq log /\ net \intersect client.queue = {} /\ notice.date <= clock
      /\ notice \in [what : {"none", "new session", "too long"}, date : Nat]
      /\ \A d \in net : Travels(d, sent)
      /\ notice # NoNotice => \A d \in net : d.date > notice.date
  BY DEF WireInv
<1>0. clock \in Nat /\ notice.date \in Nat /\ notice.date <= clock
  BY DEF WireInv
<1>2. /\ \A u \in log : u.date <= clock /\ u.date \in Nat
      /\ \A d \in net \union client.queue : d.date <= clock
  BY DEF WireInv, LogInv, Update
<1>3. \A d \in net \union client.queue : d \in Container /\ d.pushed \subseteq log /\ d.date \in Nat
  BY <1>1 DEF Apart, Carries, Container
<1>4. Apart(net \union client.queue, results)'
  <2> DEFINE all == net \union client.queue
             more == all \union {c}
  <2>1. Apart(all, results) /\ results \subseteq log /\ \A d \in all : d.pushed \subseteq log
    BY <1>1, <1>3
  <2>2. (net \union client.queue)' = more
    OBVIOUS
  <2> HIDE DEF all
  <2>3. /\ \A d \in more : /\ d \in Container /\ d.pushed \subseteq log' /\ d.pushed \intersect results = {}
                           /\ \A u, v \in d.pushed : u = v
    BY <2>1 DEF Apart, Carries
  <2>5. \A d \in more : d.date <= clock'
    <3>1. \A d \in all : d.date <= clock /\ d.date \in Nat
      BY <2>1 DEF Apart, Carries, Container
    <3> QED BY <1>0, <3>1
  <2>4. \A d, e \in more : d = e \/ d.pushed \intersect e.pushed = {}
    BY <2>1 DEF Apart
  <2> HIDE DEF more
  <2> QED BY <2>2, <2>3, <2>4, <2>5 DEF Apart, Carries
<1>5. \A u \in log' : u.date <= clock'
  <2>1. \A u \in log : u.date <= clock + 1
    BY <1>0, <1>2
  <2>2. \A u \in log' : u \in log \/ u \in log' \ log
    OBVIOUS
  <2> QED BY <2>1, <2>2
<1>6. c \notin client.queue /\ \A d \in net' \union client'.queue : d.date <= clock'
  <2>1. \A d \in net \union client.queue : d.date <= clock + 1 /\ d.date # clock + 1
    BY <1>0, <1>2, <1>3
  <2> QED BY <1>0, <2>1
<1>7. notice'.date <= clock' /\ (notice' # NoNotice => \A d \in net' : d.date > notice'.date)
  <2>1. notice'.date <= clock' /\ c.date > notice.date
    BY <1>0
  <2> QED BY <1>1, <2>1
<1>8. \A d \in net' : Travels(d, sent')
  BY <1>1 DEF Travels
<1>9. /\ clock' \in Nat /\ IsFiniteSet(client.queue)' /\ (results \subseteq log)'
      /\ (net \intersect client.queue = {})'
      /\ (notice \in [what : {"none", "new session", "too long"}, date : Nat])'
  <2>1. client' = client /\ notice' = notice /\ results' = results
    OBVIOUS
  <2>2. net' \intersect client.queue = {}
    BY <1>1, <1>6
  <2>3. clock' \in Nat
    BY <1>0
  <2> QED BY <1>1, <2>1, <2>2, <2>3, Zenon
<1> QED BY <1>4, <1>5, <1>6, <1>7, <1>8, <1>9 DEF WireInv

\* A container with the next seq numbers.
LEMMA SessionGrows ==
    ASSUME SessionInv, SeqOK(client, Known), client.seq \in Nat, UNCHANGED <<client, notice>>,
           NEW c \in Container, c.first = serverSeq + 1, c.first <= c.last,
           sent' = sent \union {c}, serverSeq' = c.last
    PROVE  SessionInv' /\ SeqOK(client, Known)'
<1>1. /\ serverSeq \in Nat /\ c.first \in Nat /\ c.last \in Nat
      /\ \A d \in sent : d.first \in Nat /\ d.last \in Nat /\ d.last <= serverSeq
      /\ \A d \in sent : d \in Container
  BY DEF SessionInv, Container
<1>2. SessionInv'
  <2>1. sent' \subseteq Container /\ serverSeq' \in Nat
    BY <1>1
  <2>2. \A d \in sent' : 0 < d.first /\ d.first <= d.last /\ d.last <= serverSeq'
    BY <1>1 DEF SessionInv
  <2>3. \A d, e \in sent' : d = e \/ d.last < e.first \/ e.last < d.first
    BY <1>1 DEF SessionInv
  <2> QED BY <2>1, <2>2, <2>3 DEF SessionInv
<1>3. SeqOK(client, Known)'
  <2>1. SUFFICES ASSUME Known
                 PROVE  /\ client.queue \subseteq sent' /\ client.seq <= serverSeq'
                        /\ ~client.box.requesting => \A d \in sent' : d.last <= client.seq => d \in client.seen
    BY DEF SeqOK, Known
  <2>2. /\ client.queue \subseteq sent /\ client.seq <= serverSeq
        /\ ~client.box.requesting => \A d \in sent : d.last <= client.seq => d \in client.seen
    BY <2>1 DEF SeqOK
  <2> QED BY <1>1, <2>2
<1> QED BY <1>2, <1>3

\* The step of UpdateLog the server takes, if it takes one.
Serves ==
    /\ client'.known = client.known /\ client'.box.good = client.box.good
    /\ client'.seen = client.seen
    /\ log' = log \/ \E u \in log' \ log :
          /\ log' = log \union {u} /\ u.pts > client.box.good
          /\ \A v \in log : u.pts > v.pts

LEMMA IInvTypes ==
    ASSUME IInv
    PROVE  /\ LogInv /\ SessionInv /\ WireInv /\ SeqOK(client, Known) /\ QueueOK(client)
           /\ PtsOK(client, ToCome) /\ RequestOK(client)
           /\ client \in ClientType /\ client.seq \in Nat /\ client.box.good \in Nat
           /\ client.box.good <= serverPts /\ serverPts \in Nat /\ serverSeq \in Nat
           /\ clock \in Nat /\ log \subseteq Update
  BY DEF IInv, LogInv, SessionInv, WireInv, PtsOK, ClientType, BoxType, Sound

\* The parts of the next state together.
LEMMA ServerStep ==
    ASSUME LogInv', SessionInv', WireInv', AnswerInv', PtsOK(client, ToCome)',
           SeqOK(client, Known)', QueueOK(client), client' = client
    PROVE  IInv'
  BY DEF IInv, QueueOK

\* An update with a pts, in a container or a result.
LEMMA MadeServes ==
    ASSUME IInv, NEW n \in Nat \ {0}, log' = log \union {Made(n)}, serverPts' = serverPts + n,
           client' = client, ToCome' \subseteq ToCome \union {Made(n)}
    PROVE  /\ LogInv' /\ PtsOK(client, ToCome)' /\ Serves
           /\ Made(n) \in Update /\ Made(n) \notin log /\ Made(n).date = clock + 1
           /\ \A pts \in Nat : pts <= serverPts /\ NoneAcross(log, pts) => NoneAcross(log', pts)
           /\ serverPts' \in Nat /\ serverPts' >= serverPts
<1>1. /\ LogInv' /\ PtsOK(client, ToCome)' /\ Made(n) \in Update /\ Made(n) \notin log
      /\ \A v \in log : v.pts < Made(n).pts
      /\ \A pts \in Nat : pts <= serverPts /\ NoneAcross(log, pts) => NoneAcross(log', pts)
  BY MadeKeeps, IInvTypes
<1>2. Made(n).pts = serverPts + n /\ Made(n).date = clock + 1
  BY DEF Made
<1>3. client.box.good \in Nat /\ client.box.good <= serverPts /\ serverPts \in Nat
  BY IInvTypes
<1>4. Serves
  <2> DEFINE u == Made(n)
  <2>1. u \in log' \ log /\ log' = log \union {u} /\ u.pts > client.box.good
    BY <1>1, <1>2, <1>3
  <2>2. \A v \in log : u.pts > v.pts
    BY <1>1, <1>2, <1>3, IInvTypes DEF Update
  <2> HIDE DEF u
  <2>3. \E v \in log' \ log : /\ log' = log \union {v} /\ v.pts > client.box.good
                             /\ \A w \in log : v.pts > w.pts
    BY <2>1, <2>2
  <2>4. /\ client'.known = client.known /\ client'.box.good = client.box.good
        /\ client'.seen = client.seen
    OBVIOUS
  <2> QED BY <2>3, <2>4 DEF Serves
<1>5. serverPts' \in Nat /\ serverPts' >= serverPts
  BY <1>3
<1> QED BY <1>1, <1>2, <1>4, <1>5, Zenon

\* The update of a container, if it has one.
LEMMA ContainerMade ==
    ASSUME IInv, NEW n \in Nat \ {0}, NEW has \in BOOLEAN, NEW some,
           some = IF has THEN {Made(n)} ELSE {}, Makes(some), UNCHANGED client,
           ToCome' \subseteq ToCome \union some
    PROVE  /\ LogInv' /\ PtsOK(client, ToCome)' /\ Serves
           /\ some \subseteq Update /\ some \intersect log = {} /\ \A u \in some : u.date = clock + 1
           /\ \A pts \in Nat : pts <= serverPts /\ NoneAcross(log, pts) => NoneAcross(log', pts)
           /\ serverPts' \in Nat /\ serverPts' >= serverPts
           /\ clock' = clock + 1 /\ log' = log \union some
<1>1. clock' = clock + 1 /\ log' = log \union some
  BY DEF Makes
<1>2. CASE has
  <2>1. some = {Made(n)} /\ Made(n).count = n
    BY <1>2 DEF Made
  <2>2. (CHOOSE v \in some : TRUE).count = n /\ some # {}
    BY <2>1
  <2>3. serverPts' = serverPts + n
    BY <2>2 DEF Makes
  <2>4. UNCHANGED client /\ ToCome' \subseteq ToCome \union {Made(n)} /\ log' = log \union {Made(n)}
    BY <1>1, <2>1
  <2> QED BY <1>1, <2>1, <2>3, <2>4, MadeServes
<1>3. CASE ~has
  <2>1. some = {} /\ log' = log /\ serverPts' = serverPts
    BY <1>1, <1>3 DEF Makes
  <2>2. PtsOK(client, ToCome')
    BY <2>1, IInvTypes, FewerToCome
  <2>3. PtsOK(client, ToCome)'
    BY <2>1, <2>2 DEF PtsOK, ClientType, RequestOK
  <2>4. LogInv' /\ Serves
    BY <2>1, IInvTypes DEF LogInv, Serves
  <2> QED BY <1>1, <2>1, <2>3, <2>4, IInvTypes
<1> QED BY <1>2, <1>3

LEMMA PushPlainKeeps ==
    ASSUME IInv, NEW kind \in Kinds, NEW n \in Counts, PushPlain(kind, n) PROVE IInv' /\ Serves
<1> DEFINE has == kind \in {"update", "short"}
           some == IF has THEN {Made(n)} ELSE {}
           c == [date |-> clock + 1, short |-> kind = "short", first |-> 0, last |-> 0,
                 pushed |-> some, skips |-> kind = "skips"]
<1>1. /\ Makes(some) /\ net' = net \union {c} /\ n \in Nat \ {0}
      /\ UNCHANGED <<sent, serverSeq, results, notice, answer, client>>
  BY BoundsAssumption DEF PushPlain
<1>2. ToCome' \subseteq ToCome \union some
  BY <1>1 DEF ToCome, Pushed
<1>3. /\ LogInv' /\ PtsOK(client, ToCome)' /\ Serves
      /\ some \subseteq Update /\ some \intersect log = {} /\ \A u \in some : u.date = clock + 1
      /\ \A pts \in Nat : pts <= serverPts /\ NoneAcross(log, pts) => NoneAcross(log', pts)
      /\ serverPts' \in Nat /\ serverPts' >= serverPts
      /\ clock' = clock + 1 /\ log' = log \union some
  <2>1. has \in BOOLEAN /\ some = IF has THEN {Made(n)} ELSE {}
    OBVIOUS
  <2>2. UNCHANGED client
    BY <1>1
  <2> HIDE DEF has, some, c
  <2> QED BY <1>1, <1>2, <2>1, <2>2, ContainerMade
<1>4. /\ c \in Container /\ c.date = clock + 1 /\ c.pushed = some /\ Travels(c, sent')
  <2>1. some \subseteq Update /\ clock + 1 \in Nat
    BY <1>3, IInvTypes
  <2>2. c.short => kind = "short" /\ some = {Made(n)}
    OBVIOUS
  <2> HIDE DEF some
  <2>3. c \in Container /\ c.date = clock + 1 /\ c.pushed = some /\ c.last = 0
    BY <2>1 DEF Container
  <2>4. c.short => c.pushed # {}
    BY <2>2, <2>3
  <2> HIDE DEF c
  <2> QED BY <2>3, <2>4 DEF Travels
<1>5. \A u, v \in some : u = v
  OBVIOUS
<1> HIDE DEF c, some, has
<1>6. WireInv'
  <2>1. /\ c.pushed \subseteq log' /\ c.pushed \intersect log = {} /\ \A u, v \in c.pushed : u = v
        /\ \A v \in log' \ log : v.date <= clock + 1
    BY <1>3, <1>4, <1>5, IInvTypes
  <2> QED BY <1>1, <1>3, <1>4, <2>1, NetGrows, IInvTypes
<1>7. AnswerInv'
  <2>1. serverSeq' \in Nat /\ serverSeq' >= serverSeq /\ UNCHANGED <<client, answer, notice>>
    BY <1>1, IInvTypes
  <2> QED BY <1>3, <2>1, AnswerOutlives, IInvTypes
<1>8. SessionInv' /\ SeqOK(client, Known)'
  BY <1>1, IInvTypes DEF SessionInv, SeqOK, Known
<1> QED BY <1>1, <1>3, <1>6, <1>7, <1>8, ServerStep, IInvTypes

LEMMA PushNumberedKeeps == ASSUME IInv, NEW kind \in Kinds, PushNumbered(kind) PROVE IInv' /\ Serves
<1> DEFINE has == kind = "update"
           some == IF has THEN {Made(1)} ELSE {}
           c == [date |-> clock + 1, short |-> FALSE, first |-> serverSeq + 1,
                 last |-> serverSeq + (IF kind = "combined" THEN 2 ELSE 1),
                 pushed |-> some, skips |-> kind = "skips"]
<1>1. /\ Makes(some) /\ serverSeq' = c.last /\ sent' = sent \union {c} /\ net' = net \union {c}
      /\ UNCHANGED <<results, notice, answer, client>>
  BY DEF PushNumbered
<1>3. ToCome' \subseteq ToCome \union some
  BY <1>1 DEF ToCome, Pushed
<1>4. /\ LogInv' /\ PtsOK(client, ToCome)' /\ Serves
      /\ some \subseteq Update /\ some \intersect log = {} /\ \A u \in some : u.date = clock + 1
      /\ \A pts \in Nat : pts <= serverPts /\ NoneAcross(log, pts) => NoneAcross(log', pts)
      /\ serverPts' \in Nat /\ serverPts' >= serverPts
      /\ clock' = clock + 1 /\ log' = log \union some
  <2>1. has \in BOOLEAN /\ some = IF has THEN {Made(1)} ELSE {}
    OBVIOUS
  <2>2. UNCHANGED client /\ 1 \in Nat \ {0}
    BY <1>1
  <2> HIDE DEF has, some, c
  <2> QED BY <1>1, <1>3, <2>1, <2>2, ContainerMade
<1>5. /\ c \in Container /\ c.date = clock + 1 /\ c.pushed = some /\ c.first = serverSeq + 1
      /\ c.first <= c.last /\ c.last # 0 /\ c.last \in Nat /\ c.last >= serverSeq /\ ~c.short
  BY <1>4, IInvTypes DEF Container
<1>6. \A u, v \in some : u = v
  OBVIOUS
<1> HIDE DEF c, some
<1>7. WireInv'
  <2>1. Travels(c, sent')
    BY <1>1, <1>5 DEF Travels
  <2>2. /\ c.pushed \subseteq log' /\ c.pushed \intersect log = {} /\ \A u, v \in c.pushed : u = v
        /\ \A v \in log' \ log : v.date <= clock + 1
    BY <1>4, <1>5, <1>6, IInvTypes
  <2> QED BY <1>1, <1>4, <1>5, <2>1, <2>2, NetGrows, IInvTypes
<1>8. AnswerInv'
  BY <1>1, <1>4, <1>5, AnswerOutlives, IInvTypes
<1>9. SessionInv' /\ SeqOK(client, Known)'
  BY <1>1, <1>5, SessionGrows, IInvTypes
<1> QED BY <1>1, <1>4, <1>7, <1>8, <1>9, ServerStep, IInvTypes

LEMMA ServerResultKeeps == ASSUME IInv, NEW n \in Counts, ServerResult(n) PROVE IInv' /\ Serves
<1> DEFINE u == Made(n)
           all == net \union client.queue
<1>1. /\ n \in Nat \ {0} /\ clock' = clock + 1 /\ log' = log \union {u}
      /\ serverPts' = serverPts + u.count /\ results' = results \union {u}
      /\ UNCHANGED <<sent, serverSeq, net, notice, answer, client>>
  BY BoundsAssumption DEF ServerResult, Makes
<1>2. u.count = n
  BY DEF Made
<1>3. ToCome' \subseteq ToCome \union {u}
  BY <1>1 DEF ToCome, Pushed
<1>4. /\ LogInv' /\ PtsOK(client, ToCome)' /\ Serves
      /\ u \in Update /\ u \notin log /\ u.date = clock + 1
      /\ \A pts \in Nat : pts <= serverPts /\ NoneAcross(log, pts) => NoneAcross(log', pts)
      /\ serverPts' \in Nat /\ serverPts' >= serverPts
  BY <1>1, <1>2, <1>3, MadeServes
<1> HIDE DEF u
<1>5. WireInv'
  <2>1. clock \in Nat /\ notice.date \in Nat /\ notice.date <= clock
    BY IInvTypes DEF WireInv
  <2>2. \A v \in log : v.date <= clock /\ v.date \in Nat
    BY IInvTypes DEF WireInv, Update
  <2>3. clock' \in Nat /\ \A v \in log' : v.date <= clock'
    BY <1>1, <1>4, <2>1, <2>2
  <2>4. Apart(all, results) /\ \A d \in all : d.pushed \subseteq log /\ d \in Container
    BY IInvTypes DEF WireInv, Apart, Carries
  <2>5. Apart(net \union client.queue, results)'
    <3>1. (net \union client.queue)' = all
      BY <1>1
    <3>2. /\ \A d \in all : d.pushed \intersect results' = {} /\ d.pushed \subseteq log'
          /\ \A d, e \in all : d = e \/ d.pushed \intersect e.pushed = {}
      BY <1>1, <1>4, <2>4 DEF Apart
    <3>3. \A d \in all : d \in Container /\ \A v, w \in d.pushed : v = w
      BY <2>4 DEF Apart, Carries
    <3>4. \A d \in all : d.date <= clock'
      <4>1. \A d \in all : d.date <= clock /\ d.date \in Nat
        BY <2>4 DEF Apart, Carries, Container
      <4> HIDE DEF all
      <4> QED BY <1>1, <2>1, <4>1
    <3> HIDE DEF all
    <3> QED BY <3>1, <3>2, <3>3, <3>4 DEF Apart, Carries
  <2>6. \A d \in net' \union client'.queue : d.date <= clock'
    <3>1. \A d \in all : d.date <= clock /\ d.date \in Nat
      BY <2>4, IInvTypes DEF WireInv, Container
    <3> QED BY <1>1, <2>1, <3>1
  <2>7. /\ IsFiniteSet(client'.queue) /\ net' \intersect client'.queue = {}
        /\ \A d \in net' : Travels(d, sent')
        /\ notice' # NoNotice => \A d \in net' : d.date > notice'.date
        /\ notice' \in [what : {"none", "new session", "too long"}, date : Nat]
    BY <1>1, IInvTypes, Zenon DEF WireInv
  <2>8. results' \subseteq log' /\ notice'.date <= clock'
    <3>1. results \subseteq log /\ notice' = notice
      BY <1>1, IInvTypes DEF WireInv
    <3> QED BY <1>1, <2>1, <3>1
  <2> QED BY <2>3, <2>5, <2>6, <2>7, <2>8 DEF WireInv
<1>6. AnswerInv'
  <2>1. serverSeq' \in Nat /\ serverSeq' >= serverSeq /\ UNCHANGED <<client, answer, notice>>
    BY <1>1, IInvTypes
  <2> QED BY <1>1, <1>4, <2>1, AnswerOutlives, IInvTypes
<1>7. SessionInv' /\ SeqOK(client, Known)'
  BY <1>1, IInvTypes DEF SessionInv, SeqOK, Known
<1> QED BY <1>1, <1>4, <1>5, <1>6, <1>7, ServerStep, IInvTypes

LEMMA NoticeFields ==
    ASSUME NEW what \in {"new session", "too long"}, NEW date \in Nat,
           NEW n, n = [what |-> what, date |-> date]
    PROVE  /\ n \in [what : {"none", "new session", "too long"}, date : Nat]
           /\ n.what = what /\ n.date = date
  OBVIOUS

LEMMA PushesLostKeep == IInv /\ PushesLost => IInv' /\ Serves
<1> SUFFICES ASSUME IInv, PushesLost PROVE IInv' /\ Serves
  OBVIOUS
<1>0. clock' = clock + 1 /\ clock \in Nat
  BY IInvTypes DEF PushesLost
<1>1. /\ notice = NoNotice /\ net' = {} /\ clock' = clock + 1 /\ clock \in Nat
      /\ UNCHANGED <<log, serverPts, results, answer, client>>
  BY IInvTypes DEF PushesLost
<1>2. /\ notice' \in [what : {"none", "new session", "too long"}, date : Nat]
      /\ \/ notice'.what = "new session" /\ notice'.date = clock + 1
            /\ serverSeq' = 0 /\ sent' = {}
         \/ notice'.date = clock + 1 /\ serverSeq' = serverSeq /\ sent' = sent
         \/ notice'.date = 0 /\ serverSeq' = serverSeq /\ sent' = sent
  <2>0. clock + 1 \in Nat
    BY <1>0
  <2>1. CASE /\ notice' = [what |-> "new session", date |-> clock + 1]
             /\ serverSeq' = 0 /\ sent' = {}
    <3>1. /\ notice' \in [what : {"none", "new session", "too long"}, date : Nat]
          /\ notice'.what = "new session" /\ notice'.date = clock + 1
      BY <2>0, <2>1, NoticeFields
    <3> QED BY <2>1, <3>1
  <2>2. CASE /\ notice' = [what |-> "too long", date |-> clock + 1]
             /\ serverSeq' = serverSeq /\ sent' = sent
    <3>1. /\ notice' \in [what : {"none", "new session", "too long"}, date : Nat]
          /\ notice'.what = "too long" /\ notice'.date = clock + 1
      BY <2>0, <2>2, NoticeFields
    <3> QED BY <2>2, <3>1
  <2>3. CASE notice' = notice /\ serverSeq' = serverSeq /\ sent' = sent
    <3>1. notice' = NoNotice
      BY <1>1, <2>3
    <3>2. notice' \in [what : {"none", "new session", "too long"}, date : Nat] /\ notice'.date = 0
      BY <3>1 DEF NoNotice
    <3> QED BY <2>3, <3>2
  <2> QED BY <2>1, <2>2, <2>3 DEF PushesLost
<1>3. Known
  BY <1>1 DEF Known, NoNotice
<1>4. LogInv' /\ Serves
  BY <1>1, IInvTypes DEF LogInv, Serves
<1>5. PtsOK(client, ToCome)'
  <2>1. ToCome' \subseteq ToCome
    BY <1>1 DEF ToCome, Pushed
  <2>2. PtsOK(client, ToCome')
    BY <2>1, IInvTypes, FewerToCome
  <2> QED BY <1>1, <2>2 DEF PtsOK, ClientType, RequestOK
<1>6. SessionInv' /\ SeqOK(client, Known)'
  <2>1. CASE serverSeq' = 0 /\ sent' = {} /\ ~Known'
    BY <2>1 DEF SessionInv, SeqOK
  <2>2. CASE serverSeq' = serverSeq /\ sent' = sent
    <3>1. SessionInv /\ SeqOK(client, TRUE) /\ client' = client
      BY <1>1, <1>3, IInvTypes DEF SeqOK
    <3> QED BY <2>2, <3>1 DEF SessionInv, SeqOK
  <2>3. (serverSeq' = serverSeq /\ sent' = sent) \/ (serverSeq' = 0 /\ sent' = {} /\ ~Known')
    BY <1>2 DEF Known
  <2> QED BY <2>1, <2>2, <2>3
<1>7. notice'.date <= clock'
  <2>1. notice'.date = clock + 1 \/ notice'.date = 0
    BY <1>2
  <2> QED BY <1>0, <2>1
<1>8. WireInv'
  <2>1. \A u \in log' : u.date <= clock'
    <3>1. \A u \in log : u.date <= clock /\ u.date \in Nat
      BY IInvTypes DEF WireInv, Update
    <3> QED BY <1>1, <3>1
  <2>2. \A d \in net' \union client'.queue : d.date <= clock'
    <3>1. \A d \in client.queue : d.date <= clock /\ d.date \in Nat
      BY IInvTypes DEF WireInv, ClientType, Container
    <3> QED BY <1>1, <3>1
  <2>3. Apart(net \union client.queue, results)'
    <3> DEFINE Q == client.queue
    <3>1. Apart(Q, results) /\ clock \in Nat /\ \A d \in Q : d.date \in Nat
      BY IInvTypes DEF WireInv, Apart, ClientType, Container
    <3>2. (net \union client.queue)' = Q /\ clock' = clock + 1 /\ log' = log /\ results' = results
      BY <1>1
    <3> HIDE DEF Q
    <3>3. \A d \in Q : /\ d \in Container /\ d.date <= clock' /\ d.pushed \subseteq log'
                       /\ \A u, v \in d.pushed : u = v
      BY <3>1, <3>2 DEF Apart, Carries
    <3> QED BY <3>1, <3>2, <3>3 DEF Apart, Carries
  <2>4. IsFiniteSet(client'.queue) /\ results' \subseteq log'
    BY <1>1, IInvTypes DEF WireInv
  <2>5. clock' \in Nat /\ net' = {}
    BY <1>1
  <2> QED BY <1>2, <1>7, <2>1, <2>2, <2>3, <2>4, <2>5 DEF WireInv
<1>9. AnswerInv'
  <2>1. SUFFICES ASSUME client.request.state = "answered"
                 PROVE  /\ Fits(client, answer, Known)' /\ answer.date <= clock'
                        /\ answer.date >= notice'.date => answer.seq <= serverSeq'
    BY <1>1 DEF AnswerInv
  <2>2. /\ Fits(client, answer, Known) /\ answer.date <= clock /\ answer.date \in Nat
        /\ answer.seq <= serverSeq
    BY <1>3, <2>1 DEF IInv, AnswerInv, Fits, AnswerType
  <2>3. answer.date >= notice'.date => answer.seq <= serverSeq'
    <3>1. notice'.date = clock + 1 \/ serverSeq' = serverSeq
      BY <1>2
    <3> QED BY <1>1, <2>2, <3>1
  <2>4. Known' => serverSeq' = serverSeq
    BY <1>2 DEF Known
  <2>5. Fits(client, answer, Known)'
    BY <1>1, <1>3, <2>2, <2>4 DEF Fits
  <2>6. answer.date <= clock'
    BY <1>1, <2>2
  <2> QED BY <2>3, <2>5, <2>6
<1> QED BY <1>1, <1>4, <1>5, <1>6, <1>8, <1>9, ServerStep, IInvTypes

LEMMA ServerAnswersKeep == ASSUME IInv, NEW pts \in Nat, ServerAnswers(pts) PROVE IInv' /\ Serves
<1> DEFINE final == pts = serverPts
           date == IF final THEN clock ELSE (CHOOSE u \in log : u.pts = pts).date
           state == "answered"
<1>1. /\ client.request.state = "sent" /\ pts \in {u.pts : u \in log} \union {serverPts}
      /\ pts # serverPts => pts > client.request.pts
      /\ answer' = [pts |-> pts, seq |-> serverSeq, final |-> final, date |-> date]
      /\ client' = [client EXCEPT !.request.state = state]
      /\ UNCHANGED <<serverVars, net, results, notice>>
  BY DEF ServerAnswers
<1>2. /\ client \in ClientType /\ client.request \in RequestType /\ client.box.requesting
      /\ client.request.pts = client.box.good /\ client.box.good \in Nat
      /\ client.box.good <= serverPts /\ serverPts > 0 /\ Intervals(log) /\ serverPts \in Nat
      /\ clock \in Nat /\ serverSeq \in Nat
  BY <1>1, IInvTypes DEF ClientType, RequestOK, LogInv
<1>3. /\ client.box.good <= pts /\ pts <= serverPts /\ pts > 0 /\ date \in Nat /\ date <= clock
      /\ NoneAcross(log, pts)
  <2>1. CASE final
    BY <1>2, <2>1, IInvTypes DEF LogInv, NoneAcross
  <2>2. CASE ~final
    <3>1. \E u \in log : u.pts = pts
      BY <1>1, <2>2
    <3>2. PICK u \in log : u.pts = pts /\ date = u.date
      BY <2>2, <3>1
    <3> HIDE DEF date, final
    <3>3. u.date \in Nat /\ u.date <= clock /\ u.pts <= serverPts
      BY IInvTypes DEF LogInv, WireInv, Update
    <3>4. NoneAcross(log, pts)
      <4>1. SUFFICES ASSUME NEW v \in log PROVE v.pts <= pts \/ pts <= Before(v)
        BY DEF NoneAcross
      <4>2. /\ u.pts \in Nat /\ v.pts \in Nat /\ v.count \in Nat /\ u.count \in Nat
            /\ u = v \/ u.pts <= Before(v) \/ v.pts <= Before(u)
        BY <1>2 DEF Intervals
      <4> QED BY <3>2, <4>2 DEF Before
    <3>5. pts > client.request.pts
      BY <1>1, <2>2 DEF final
    <3> QED BY <1>2, <3>2, <3>3, <3>4, <3>5
  <2> QED BY <2>1, <2>2
<1>4. /\ client'.box = client.box /\ client'.seq = client.seq /\ client'.known = client.known
      /\ client'.seen = client.seen
  BY <1>1, <1>2 DEF ClientType
<1>5. /\ answer'.pts = pts /\ answer'.seq = serverSeq /\ answer'.date = date
      /\ answer' \in AnswerType
  <2>1. final \in BOOLEAN
    OBVIOUS
  <2> HIDE DEF final, date
  <2> QED BY <1>1, <1>2, <1>3, <2>1 DEF AnswerType
<1> HIDE DEF final, date, state
<1>6. AnswerInv'
  <2>1. Known' => client.seq <= serverSeq
    BY <1>1, IInvTypes DEF SeqOK, Known
  <2>2. serverSeq' = serverSeq /\ log' = log /\ serverPts' = serverPts /\ clock' = clock
    BY <1>1 DEF serverVars
  <2>3. Fits(client, answer, Known)'
    BY <1>2, <1>3, <1>4, <1>5, <2>1, <2>2 DEF Fits
  <2> QED BY <1>2, <1>3, <1>5, <2>2, <2>3 DEF AnswerInv
<1>7. IInv'
  <2>1. state \in {"none", "sent", "answered", "failed"} /\ state # "none"
    BY DEF state
  <2>2. Known \/ ~Known'
    BY <1>1 DEF Known
  <2> QED BY <1>1, <1>6, <2>1, <2>2, SameClientKeeps
<1> QED BY <1>1, <1>4, <1>7 DEF Serves, serverVars

-----------------------------------------------------------------------------
(* The theorems.                                                             *)

LEMMA EnvironmentKeeps == IInv /\ Environment => IInv' /\ Serves
<1> SUFFICES ASSUME IInv, Environment PROVE IInv' /\ Serves
  OBVIOUS
<1>1. CASE \E kind \in Kinds, n \in Counts : PushPlain(kind, n)
  BY <1>1, PushPlainKeeps
<1>2. CASE \E kind \in Kinds : PushNumbered(kind)
  BY <1>2, PushNumberedKeeps
<1>5. CASE \E n \in Counts : ServerResult(n)
  BY <1>5, ServerResultKeeps
<1>3. CASE PushesLost
  BY <1>3, PushesLostKeep
<1>4. CASE \E pts \in 0..serverPts : ServerAnswers(pts)
  BY <1>4, IInvTypes, ServerAnswersKeep
<1> QED BY <1>1, <1>2, <1>3, <1>4, <1>5 DEF Environment

LEMMA ClientKeeps == IInv /\ Client => IInv' /\ Goes
<1> SUFFICES ASSUME IInv, Client PROVE IInv' /\ Goes
  OBVIOUS
<1>1. CASE \E c \in net, deadline \in Deadlines :
             \E bad \in SUBSET {d \in {c} \union client.queue : d.pushed # {}} :
                ReceivePush(c, bad, deadline)
  BY <1>1, PushKeeps
<1>2. CASE \E u \in results, deadline \in Deadlines :
             \/ \E short \in BOOLEAN : ReceiveResult(u, short, deadline)
             \/ ReceiveAffected(u, deadline)
  BY <1>2, ResultsKeep
<1>3. CASE ReceiveNotice
  BY <1>3, NoticeKeeps
<1>4. CASE PtsTimer \/ SeqTimer \/ MinChannelTimer
  BY <1>4, TimersKeep
<1>5. CASE DifferenceDone
  BY <1>5, DoneKeeps
<1>6. CASE DifferenceFail \/ AfterFailTimer
  BY <1>6, FailKeeps
<1> QED BY <1>1, <1>2, <1>3, <1>4, <1>5, <1>6 DEF Client

LEMMA IInvKept == IInv /\ [Next]_vars => IInv'
<1>1. IInv /\ Next => IInv'
  BY EnvironmentKeeps, ClientKeeps DEF Next
<1>2. IInv /\ UNCHANGED vars => IInv'
  <2> SUFFICES ASSUME IInv, UNCHANGED vars PROVE IInv'
    OBVIOUS
  <2> USE DEF vars, serverVars, wireVars
  <2>1. ToCome' = ToCome /\ UNCHANGED <<serverVars, net, results, notice, answer, client>>
    BY DEF ToCome, Pushed
  <2>2. AnswerInv'
    BY <2>1 DEF IInv, AnswerInv, Fits, Known
  <2>3. WireInv'
    BY <2>1 DEF IInv, WireInv, Apart, Carries
  <2>4. PtsOK(client', ToCome') /\ SeqOK(client', Known') /\ QueueOK(client')
    BY <2>1 DEF IInv, Known
  <2> QED BY <2>1, <2>2, <2>3, <2>4, ClientStep
<1> QED BY <1>1, <1>2

\* The invariant all else rests on.
LEMMA AlwaysIInv == Spec => []IInv
  BY InitIInv, IInvKept, PTL DEF Spec

\* The account keeps the promise of UpdateLog: the pts the next difference is
\* asked from never passes an update with a pts that the client has not.
THEOREM ImplementsLog == Spec => KeepsLog
<1>1. Init => Log!Init
  <2> SUFFICES ASSUME Init PROVE Log!Init
    OBVIOUS
  <2>1. client.box = SetRequesting(NewBox, TRUE) /\ client.known = {} /\ log = {}
    BY DEF Init, NewClient
  <2>2. client.box.good = 0
    BY <2>1 DEF SetRequesting, NewBox
  <2>3. log = {} /\ client.known = {}
    BY <2>1
  <2> QED BY <2>2, <2>3 DEF Log!Init
<1>2. ASSUME IInv, Environment PROVE Log!Make \/ UNCHANGED Log!logVars
  <2>1. Serves
    BY <1>2, EnvironmentKeeps
  <2>2. CASE log' = log
    BY <2>1, <2>2 DEF Serves, Log!logVars
  <2>3. CASE log' # log
    BY <2>1, <2>3 DEF Serves, Log!Make
  <2> QED BY <2>2, <2>3
<1>3. ASSUME IInv, Client PROVE Log!Learn
  <2>1. IInv' /\ Goes
    BY <1>3, ClientKeeps
  <2>2. log' = log
    BY <1>3 DEF Client, ReceivePush, ReceiveResult, ReceiveAffected, ReceiveNotice, PtsTimer,
                SeqTimer, MinChannelTimer, DifferenceDone, DifferenceFail, AfterFailTimer, serverVars
  <2>3. PtsOK(client, ToCome)'
    BY <2>1 DEF IInv
  <2>4. /\ client'.known \subseteq log' /\ client'.box.good \in Nat
        /\ \A u \in log' : u.pts <= client'.box.good => u \in client'.known
    BY <2>3 DEF PtsOK, Sound, BoxType
  <2> QED BY <2>1, <2>2, <2>4 DEF Log!Learn, Log!Complete, Goes
<1>4. IInv /\ UNCHANGED vars => UNCHANGED Log!logVars
  BY DEF vars, serverVars, Log!logVars
<1>5. IInv /\ [Next]_vars => [Log!Next]_Log!logVars
  BY <1>2, <1>3, <1>4 DEF Next, Log!Next
<1> QED BY <1>1, <1>5, AlwaysIInv, PTL DEF Spec, KeepsLog, Log!Spec

\* No gap is waited for in vain: while an update with a pts is missing its timer
\* runs or the difference is requested, and containers that wait for their turn
\* wait for one that is missing, with theirs.
THEOREM GapIsWaited == Spec => []GapWaits
<1>1. IInv => GapWaits
  <2> SUFFICES ASSUME IInv PROVE GapWaits
    OBVIOUS
  <2>1. Waiting(client.box) /\ RequestOK(client) /\ QueueOK(client)
    BY DEF IInv, PtsOK
  <2> QED BY <2>1 DEF GapWaits, Waiting, RequestOK, QueueOK
<1> QED BY <1>1, AlwaysIInv, PTL

\* The seq number the client has reached never passes a container of the
\* server's session it does not have.
THEOREM NoContainerLost == Spec => []NoLostContainer
<1>1. IInv => NoLostContainer
  BY DEF IInv, SeqOK, Known, NoLostContainer
<1> QED BY <1>1, AlwaysIInv, PTL

\* A pushed container takes effect only after all numbered ones before it.
THEOREM ContainersTakeTurns == Spec => ContainersInOrder
<1>1. IInv /\ [Next]_vars =>
        [\A c \in client'.seen \ client.seen :
           ~client.box.requesting /\ c \in net \union client.queue =>
              \A d \in sent : d.last < c.first => d \in client'.seen]_vars
  <2>1. ASSUME IInv, Environment PROVE InOrder
    BY <2>1, EnvironmentKeeps DEF Serves, InOrder
  <2>2. ASSUME IInv, Client PROVE InOrder
    BY <2>2, ClientKeeps DEF Goes
  <2> QED BY <2>1, <2>2 DEF Next, InOrder
<1> QED BY <1>1, AlwaysIInv, PTL DEF Spec, ContainersInOrder

-----------------------------------------------------------------------------
(* Dates: a channel message that was skipped stays ahead of the date the    *)
(* next difference is asked for, so that the server reports it, but for the *)
(* results of own requests that come while the difference is requested.     *)

\* Of what was skipped the date has passed, nothing is from the future; for the
\* rest the timer runs or the difference is requested, by an earlier date.
ClientDates ==
    /\ \A d \in client.skipped : d <= clock
    /\ \A d \in client.skipped : client.date < d => client.minTimer \/ client.box.requesting
    /\ client.box.requesting => client.request.date <= client.date

\* A final answer covers all that was skipped.
AnswerDates ==
    client.request.state = "answered" /\ answer.final =>
       \A d \in client.skipped : d <= answer.date

DateInv == ClientDates /\ AnswerDates

\* The step of SkippedStaysAhead, and one that passes no skipped message.
NonePassed ==
    \A d \in client'.skipped :
       d \in client.skipped \/ client.queue = {} => ~(client.date < d /\ d <= client'.date)

\* Steps that skip nothing and leave the client's date alone.
Steady ==
    /\ client'.date = client.date /\ client'.skipped = client.skipped
    /\ client.minTimer \/ client.box.requesting => client'.minTimer \/ client'.box.requesting
    /\ client'.box.requesting => client'.request.date <= client'.date
    /\ client'.request.state = "answered" => client.request.state = "answered"

\* The fields the invariant is about.
LEMMA DateTypes ==
    ASSUME IInv
    PROVE  /\ client \in ClientType /\ client.date \in Nat /\ client.skipped \subseteq Nat
           /\ client.request.date \in Nat
           /\ client.minTimer \in BOOLEAN /\ client.box.requesting \in BOOLEAN
           /\ clock \in Nat
  BY IInvTypes DEF ClientType, BoxType, RequestType

LEMMA SteadyKeeps ==
    ASSUME IInv, DateInv, Steady, UNCHANGED answer, clock' \in Nat, clock' >= clock
    PROVE  DateInv' /\ NonePassed
<1>1. ClientDates'
  BY DateTypes DEF DateInv, ClientDates, Steady
<1>2. AnswerDates'
  BY DEF DateInv, AnswerDates, Steady
<1>3. NonePassed
  BY DateTypes DEF NonePassed, Steady
<1> QED BY <1>1, <1>2, <1>3 DEF DateInv

\* What handlers make of the client: the date passes a skipped message only
\* while the difference is requested.
LEMMA MovedKeepsDates ==
    ASSUME IInv, DateInv, Moved(client, client'), UNCHANGED <<serverVars, answer>>,
           client' \in ClientType, client.queue = {} => Holds(client, client')
    PROVE  DateInv' /\ (client.box.requesting \/ NonePassed)
<1>1. /\ client.date \in Nat /\ client'.date \in Nat /\ client.skipped \subseteq Nat
      /\ client'.skipped \subseteq Nat /\ client.request.date \in Nat /\ clock' = clock
      /\ client.date <= client'.date /\ client.minTimer \in BOOLEAN
      /\ client.box.requesting \in BOOLEAN /\ client'.box.requesting \in BOOLEAN
  BY DateTypes DEF Moved, serverVars, ClientType, BoxType
<1>2. \A d \in client'.skipped : d <= clock'
  BY <1>1 DEF Moved, DateInv, ClientDates
<1>3. ASSUME NEW d \in client'.skipped, client'.date < d
      PROVE  client'.minTimer \/ client'.box.requesting
  <2>1. CASE client'.skipped # client.skipped
    BY <2>1 DEF Moved
  <2>2. CASE d \in client.skipped
    <3>1. client.date < d
      BY <1>1, <1>3
    <3> QED BY <2>2, <3>1 DEF Moved, DateInv, ClientDates
  <2> QED BY <2>1, <2>2
<1>4. client'.box.requesting => client'.request.date <= client'.date
  <2>1. CASE client.box.requesting
    <3>1. client'.request = client.request /\ client.request.date <= client.date
      BY <2>1 DEF Moved, DateInv, ClientDates
    <3> QED BY <1>1, <3>1
  <2>2. CASE ~client.box.requesting
    BY <2>2 DEF Moved
  <2> QED BY <2>1, <2>2
<1>5. AnswerDates'
  <2>1. SUFFICES ASSUME client'.request.state = "answered", answer.final
                 PROVE  \A d \in client'.skipped : d <= answer.date
    BY DEF AnswerDates
  <2>2. client.box.requesting /\ client'.request = client.request
    <3>1. RequestOK(client)
      BY IInvTypes
    <3> QED BY <2>1, <3>1 DEF Moved, RequestOK
  <2> QED BY <2>1, <2>2 DEF Moved, DateInv, AnswerDates
<1>6. ~client.box.requesting => NonePassed
  <2> SUFFICES ASSUME ~client.box.requesting, NEW d \in client'.skipped,
                      d \in client.skipped \/ client.queue = {},
                      client.date < d, d <= client'.date
               PROVE  FALSE
    BY DEF NonePassed
  <2>1. CASE d \in client.skipped
    <3>1. client.minTimer
      BY <2>1 DEF DateInv, ClientDates
    <3>2. client'.date = client.date
      BY <3>1 DEF Moved
    <3> QED BY <1>1, <3>2
  <2>2. CASE d \notin client.skipped /\ client.queue = {}
    <3>1. client'.date = client.date
      BY <2>2 DEF Holds
    <3> QED BY <1>1, <3>1
  <2> QED BY <2>1, <2>2
<1> QED BY <1>2, <1>3, <1>4, <1>5, <1>6 DEF DateInv, ClientDates

-----------------------------------------------------------------------------
(* The client's steps.                                                       *)

\* getDifference(), called by a handler that has made x of the client.
LEMMA AskSteady ==
    ASSUME IInv, DateInv, NEW rest, NEW x, PtsOK(x, rest), client' = GetDifference(x),
           x.box = client.box, x.date = client.date, x.skipped = client.skipped,
           x.request = client.request
    PROVE  Steady
<1> DEFINE t == GetDifference(x)
<1>1. Fed(x, t) /\ t.box.requesting /\ t.skipped = x.skipped
  BY GetDifferenceFed
<1> HIDE DEF t
<1>2. client' = t
  BY DEF t
<1>3. x.box.requesting \in BOOLEAN /\ client.date \in Nat
  BY DateTypes
<1>4. /\ t.date = client.date
      /\ ~client.box.requesting => t.request.state = "sent" /\ t.request.date = client.date
      /\ client.box.requesting => t.request = client.request
  BY <1>1, <1>3 DEF Fed
<1>5. t.request.date <= client.date
  BY <1>3, <1>4 DEF DateInv, ClientDates
<1> QED BY <1>1, <1>2, <1>4, <1>5 DEF Steady

LEMMA TimersKeepDates ==
    IInv /\ DateInv /\ (PtsTimer \/ SeqTimer \/ MinChannelTimer \/ ReceiveNotice)
       => DateInv' /\ NonePassed
<1> SUFFICES ASSUME IInv, DateInv, PtsTimer \/ SeqTimer \/ MinChannelTimer \/ ReceiveNotice
             PROVE  DateInv' /\ NonePassed
  OBVIOUS
<1>1. UNCHANGED answer /\ clock' \in Nat /\ clock' >= clock
  <2>1. UNCHANGED answer /\ UNCHANGED serverVars
    BY DEF PtsTimer, SeqTimer, MinChannelTimer, ReceiveNotice, wireVars
  <2>2. clock \in Nat /\ clock' = clock
    BY <2>1, DateTypes DEF serverVars
  <2> QED BY <2>1, <2>2
<1>2. PtsOK(client, ToCome) /\ client \in ClientType
  BY IInvTypes
<1>3. \/ client' = client
      \/ \E x : /\ x \in ClientType /\ client' = GetDifference(x) /\ x.box = client.box
                /\ x.date = client.date /\ x.skipped = client.skipped
                /\ x.queue = client.queue /\ x.request = client.request
                /\ x.known = client.known
  <2>1. CASE PtsTimer
    BY <1>2, <2>1 DEF PtsTimer
  <2>2. CASE SeqTimer
    <3> DEFINE x == [client EXCEPT !.seqTimer = FALSE]
    <3>1. client' = GetDifference(x)
      BY <2>2 DEF SeqTimer
    <3>2. /\ x \in ClientType /\ x.box = client.box /\ x.date = client.date
          /\ x.skipped = client.skipped /\ x.queue = client.queue
          /\ x.request = client.request /\ x.known = client.known
      BY <1>2 DEF ClientType
    <3> HIDE DEF x
    <3> QED BY <3>1, <3>2
  <2>3. CASE MinChannelTimer
    <3> DEFINE x == [client EXCEPT !.minTimer = FALSE]
    <3>1. client' = GetDifference(x)
      BY <2>3 DEF MinChannelTimer
    <3>2. /\ x \in ClientType /\ x.box = client.box /\ x.date = client.date
          /\ x.skipped = client.skipped /\ x.queue = client.queue
          /\ x.request = client.request /\ x.known = client.known
      BY <1>2 DEF ClientType
    <3> HIDE DEF x
    <3> QED BY <3>1, <3>2
  <2>4. CASE ReceiveNotice
    <3>1. \/ client' = client \/ client' = GetDifference(client)
          \/ client' = GetDifference([client EXCEPT !.seq = 0])
      BY <2>4 DEF ReceiveNotice
    <3>2. [client EXCEPT !.seq = 0] \in ClientType
      BY <1>2 DEF ClientType
    <3> QED BY <1>2, <3>1, <3>2 DEF ClientType
  <2> QED BY <2>1, <2>2, <2>3, <2>4
<1>4. CASE client' = client
  <2>1. Steady
    BY <1>4 DEF Steady, DateInv, ClientDates
  <2> QED BY <1>1, <2>1, SteadyKeeps
<1>5. CASE \E x : /\ x \in ClientType /\ client' = GetDifference(x) /\ x.box = client.box
                  /\ x.date = client.date /\ x.skipped = client.skipped
                  /\ x.queue = client.queue /\ x.request = client.request
                  /\ x.known = client.known
  <2>1. PICK x : /\ x \in ClientType /\ client' = GetDifference(x) /\ x.box = client.box
                 /\ x.date = client.date /\ x.skipped = client.skipped
                 /\ x.queue = client.queue /\ x.request = client.request
                 /\ x.known = client.known
    BY <1>5
  <2>2. PtsOK(x, ToCome)
    BY <1>2, <2>1 DEF PtsOK, RequestOK
  <2>3. Steady
    BY <2>1, <2>2, AskSteady
  <2> QED BY <1>1, <2>3, SteadyKeeps
<1> QED BY <1>3, <1>4, <1>5

\* A push does nothing while the difference is requested.
LEMMA PushKeepsDates ==
    ASSUME IInv, DateInv, NEW c, NEW bad, NEW deadline \in Deadlines, ReceivePush(c, bad, deadline)
    PROVE  DateInv' /\ NonePassed
<1>1. /\ Moved(client, client') /\ client' \in ClientType
      /\ client.queue = {} => Holds(client, client')
  <2>1. IInv' /\ Moved(client, client') /\ (client.queue = {} => Holds(client, client'))
    BY PushKeeps
  <2>2. client' \in ClientType'
    BY <2>1 DEF IInv, PtsOK
  <2>3. log' = log
    BY DEF ReceivePush, serverVars
  <2> QED BY <2>1, <2>2, <2>3 DEF ClientType
<1>2. DateInv' /\ (client.box.requesting \/ NonePassed)
  BY <1>1, MovedKeepsDates DEF ReceivePush
<1>3. ASSUME client.box.requesting PROVE NonePassed
  <2>1. client' = client /\ client.date \in Nat /\ client.skipped \subseteq Nat
    BY <1>3, DateTypes DEF ReceivePush
  <2> QED BY <2>1 DEF NonePassed
<1> QED BY <1>2, <1>3

\* A result may move the date while the difference is requested.
LEMMA ResultsKeepDates ==
    ASSUME IInv, DateInv, NEW u \in results, NEW deadline \in Deadlines,
           \/ \E short \in BOOLEAN : ReceiveResult(u, short, deadline)
           \/ ReceiveAffected(u, deadline)
    PROVE  DateInv' /\ (ResultWhileRequesting \/ NonePassed)
<1>1. UNCHANGED <<serverVars, answer>>
  BY DEF ReceiveResult, ReceiveAffected
<1>2. Moved(client, client') /\ client' \in ClientType /\ Holds(client, client')
  <2>1. IInv' /\ Moved(client, client') /\ Holds(client, client')
    BY ResultsKeep
  <2>2. client' \in ClientType'
    BY <2>1 DEF IInv, PtsOK
  <2>3. log' = log
    BY <1>1 DEF serverVars
  <2> QED BY <2>1, <2>2, <2>3 DEF ClientType
<1>3. DateInv' /\ (client.box.requesting \/ NonePassed)
  BY <1>1, <1>2, MovedKeepsDates
<1>4. CASE \E short \in BOOLEAN : ReceiveResult(u, short, deadline)
  BY <1>3, <1>4 DEF ResultWhileRequesting
<1>5. CASE ReceiveAffected(u, deadline)
  <2>1. client'.date = client.date
    <3>1. /\ LogInv /\ PtsOK(client, ToCome) /\ u \in log /\ u \in ToCome /\ u.date <= clock
      BY IInvTypes DEF WireInv, ToCome
    <3> DEFINE r == UpdateAndApplyCount(client.box, u, deadline)
               t == Given(client, [r EXCEPT !.applied = @ \union {u}])
    <3>2. PtsOK(t, ToCome \ {u}) /\ Plain(client, t) /\ t.date = client.date
      BY <3>1, AffectedOK
    <3>3. client' = t
      BY <1>5 DEF ReceiveAffected
    <3> HIDE DEF t
    <3> QED BY <3>2, <3>3
  <2>2. NonePassed
    <3>1. client'.skipped \subseteq Nat
      BY <1>2 DEF ClientType
    <3> QED BY <2>1, <3>1, DateTypes DEF NonePassed
  <2> QED BY <1>3, <2>2
<1> QED BY <1>4, <1>5

\* stateDone() and differenceDone(): what is asked for next is not later than
\* what is left of the skipped messages, unless the date has passed them before.
LEMMA DoneKeepsDates == IInv /\ DateInv /\ DifferenceDone => DateInv' /\ NonePassed
<1> SUFFICES ASSUME IInv, DateInv, DifferenceDone PROVE DateInv' /\ NonePassed
  OBVIOUS
<1> DEFINE t == Answered(client, answer)
<1>1. /\ client.request.state = "answered" /\ client' = t /\ UNCHANGED serverVars
  BY DEF DifferenceDone
<1>2. client.box.requesting /\ Fits(client, answer, Known) /\ Known \in BOOLEAN
  BY <1>1, IInvTypes DEF RequestOK, IInv, AnswerInv, Known
<1>3. Told(client, t, answer)
  <2> DEFINE same == Known
  <2>1. same \in BOOLEAN /\ Fits(client, answer, same)
    BY <1>2
  <2> HIDE DEF same, t
  <2> QED BY <1>2, <2>1, IInvTypes, AnsweredOK DEF t
<1> HIDE DEF t
<1>4. /\ client.date \in Nat /\ client.skipped \subseteq Nat /\ clock \in Nat /\ clock' = clock
      /\ answer.date \in Nat /\ client.request.date \in Nat /\ answer.final \in BOOLEAN
      /\ client.request.date <= client.date
  BY <1>1, <1>2, DateTypes DEF DateInv, ClientDates, Fits, AnswerType, serverVars
<1>5. /\ t.date = client.date \/ t.date = answer.date
      /\ client.date <= t.date /\ t.date \in Nat
  BY <1>3, <1>4 DEF Told, Larger
<1>6. \A d \in t.skipped : /\ d \in client.skipped /\ d \in Nat
                           /\ d <= client.request.date \/ d > answer.date
  BY <1>3, <1>4 DEF Told
<1>7. ClientDates'
  <2>1. \A d \in t.skipped : d <= clock
    BY <1>6 DEF DateInv, ClientDates
  <2>2. ASSUME NEW d \in t.skipped, t.date < d PROVE t.box.requesting
    <3>1. d > answer.date
      BY <1>4, <1>5, <1>6, <2>2
    <3>2. ~answer.final
      BY <1>1, <1>4, <1>6, <2>2, <3>1 DEF DateInv, AnswerDates
    <3> QED BY <1>3, <3>2 DEF Told
  <2>3. t.box.requesting => t.request.date <= t.date
    BY <1>3, <1>5 DEF Told
  <2> QED BY <1>1, <1>4, <2>1, <2>2, <2>3 DEF ClientDates
<1>8. AnswerDates'
  BY <1>1, <1>3 DEF Told, AnswerDates
<1>9. NonePassed
  BY <1>1, <1>4, <1>5, <1>6 DEF NonePassed
<1> QED BY <1>7, <1>8, <1>9 DEF DateInv

\* differenceFail() and getDifferenceAfterFail().
LEMMA FailKeepsDates ==
    IInv /\ DateInv /\ (DifferenceFail \/ AfterFailTimer) => DateInv' /\ NonePassed
<1> SUFFICES ASSUME IInv, DateInv, DifferenceFail \/ AfterFailTimer PROVE DateInv' /\ NonePassed
  OBVIOUS
<1>0. /\ UNCHANGED answer /\ clock' \in Nat /\ clock' >= clock /\ client \in ClientType
      /\ client.date \in Nat /\ client.request \in RequestType /\ client.box \in BoxType(Nat, log)
  BY DateTypes DEF DifferenceFail, AfterFailTimer, wireVars, serverVars, ClientType
<1>1. CASE DifferenceFail
  <2>1. client' = [client EXCEPT !.request.state = "failed"]
    BY <1>1 DEF DifferenceFail
  <2>2. /\ client'.date = client.date /\ client'.skipped = client.skipped
        /\ client'.minTimer = client.minTimer
        /\ client'.box = client.box /\ client'.request.date = client.request.date
        /\ client'.request.state = "failed"
    BY <1>0, <2>1 DEF ClientType, RequestType
  <2>3. Steady
    BY <2>2 DEF Steady, DateInv, ClientDates
  <2> QED BY <1>0, <2>3, SteadyKeeps
<1>2. CASE AfterFailTimer
  <2> DEFINE x == [client EXCEPT !.box = SetRequesting(@, FALSE)]
             d == SetRequesting([x.box EXCEPT !.timer = FALSE], TRUE)
             q == [state |-> "sent", pts |-> x.box.good, date |-> x.date]
  <2>1. client' = GetDifference(x)
    BY <1>2 DEF AfterFailTimer
  <2>2. /\ ~x.box.requesting /\ x.box \in BoxType(Nat, log) /\ x.date = client.date
        /\ x.skipped = client.skipped /\ x \in ClientType
    <3>1. SetRequesting(client.box, FALSE) \in BoxType(Nat, log)
      BY <1>0 DEF SetRequesting, BoxType
    <3> QED BY <1>0, <3>1 DEF ClientType, SetRequesting, BoxType
  <2> HIDE DEF x
  <2>3. client' = [x EXCEPT !.box = d, !.queue = {}, !.seqTimer = FALSE, !.request = q]
    BY <2>1, <2>2 DEF GetDifference, Request
  <2>4. d.requesting /\ q.state = "sent" /\ q.date = client.date
    BY <2>2 DEF SetRequesting, BoxType
  <2> HIDE DEF d, q
  <2>5. /\ client'.date = client.date /\ client'.skipped = client.skipped
        /\ client'.box = d /\ client'.request = q
    BY <2>2, <2>3 DEF ClientType
  <2>6. Steady
    BY <1>0, <2>4, <2>5 DEF Steady
  <2> QED BY <1>0, <2>6, SteadyKeeps
<1> QED BY <1>1, <1>2

-----------------------------------------------------------------------------
(* The server's steps and those of the network.                              *)

\* None of them but an answer reaches the client.
LEMMA ServerKeepsDates ==
    ASSUME IInv, DateInv, UNCHANGED <<client, answer>>, clock' = clock + 1
    PROVE  DateInv' /\ NonePassed
<1>1. Steady
  BY DEF Steady, DateInv, ClientDates
<1>2. clock' \in Nat /\ clock' >= clock
  BY DateTypes
<1> QED BY <1>1, <1>2, SteadyKeeps

LEMMA AnswersKeepDates ==
    ASSUME IInv, DateInv, NEW pts, ServerAnswers(pts) PROVE DateInv' /\ NonePassed
<1>1. /\ UNCHANGED serverVars
      /\ client' = [client EXCEPT !.request.state = "answered"]
  BY DEF ServerAnswers
<1>2. answer'.final => answer'.date = clock
  BY DEF ServerAnswers
<1>3. client \in ClientType /\ client.request \in RequestType
  BY DateTypes DEF ClientType
<1>4. /\ client'.date = client.date /\ client'.skipped = client.skipped
      /\ client'.minTimer = client.minTimer
      /\ client'.box = client.box /\ client'.request.date = client.request.date
  BY <1>1, <1>3 DEF ClientType, RequestType
<1>5. ClientDates'
  BY <1>1, <1>4 DEF DateInv, ClientDates, serverVars
<1>6. AnswerDates'
  BY <1>2, <1>4 DEF AnswerDates, DateInv, ClientDates
<1>7. NonePassed
  BY <1>4, DateTypes DEF NonePassed
<1> QED BY <1>5, <1>6, <1>7 DEF DateInv

-----------------------------------------------------------------------------
(* The theorem.                                                              *)

\* The client's date passes a channel message that was skipped only when a
\* difference asked for by an earlier date comes, or with a result of an own
\* request that comes while one is requested; also in the step that skips it, if
\* no containers wait.
THEOREM SkippedIsReported == Spec => SkippedStaysAhead
<1>1. Init => DateInv
  <2> SUFFICES ASSUME Init PROVE DateInv
    OBVIOUS
  <2>1. /\ client.skipped = {} /\ client.date = 0 /\ client.request.date = 0
        /\ client.request.state = "sent"
    BY DEF Init, NewClient, NoRequest
  <2> QED BY <2>1 DEF DateInv, ClientDates, AnswerDates
<1>2. IInv /\ DateInv /\ Next => DateInv' /\ (ResultWhileRequesting \/ NonePassed)
  <2> SUFFICES ASSUME IInv, DateInv, Next PROVE DateInv' /\ (ResultWhileRequesting \/ NonePassed)
    OBVIOUS
  <2>1. CASE Environment
    <3>1. CASE \E pts \in 0..serverPts : ServerAnswers(pts)
      BY <3>1, AnswersKeepDates
    <3>2. CASE ~ \E pts \in 0..serverPts : ServerAnswers(pts)
      <4>1. UNCHANGED <<client, answer>> /\ clock' = clock + 1
        BY <2>1, <3>2 DEF Environment, PushPlain, PushNumbered, ServerResult, PushesLost, Makes
      <4> QED BY <4>1, ServerKeepsDates
    <3> QED BY <3>1, <3>2
  <2>2. CASE Client
    BY <2>2, PushKeepsDates, ResultsKeepDates, TimersKeepDates, DoneKeepsDates, FailKeepsDates
       DEF Client
  <2> QED BY <2>1, <2>2 DEF Next
<1>3. DateInv /\ UNCHANGED vars => DateInv'
  BY DEF vars, serverVars, wireVars, boundVars, DateInv, ClientDates, AnswerDates
<1>4. IInv /\ DateInv /\ [Next]_vars => DateInv'
  BY <1>2, <1>3
<1>5. IInv /\ DateInv /\ [Next]_vars =>
        [\A d \in client'.skipped : d \in client.skipped \/ client.queue = {} =>
           (client.date < d /\ d <= client'.date => ResultWhileRequesting)]_vars
  BY <1>2 DEF NonePassed
<1> QED BY <1>1, <1>4, <1>5, AlwaysIInv, PTL DEF Spec, SkippedStaysAhead
=============================================================================
