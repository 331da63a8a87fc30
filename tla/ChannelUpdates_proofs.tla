----------------------- MODULE ChannelUpdates_proofs -----------------------
(***************************************************************************)
(* Proofs about ChannelUpdates for every value of its constants: the       *)
(* inductive invariant IInv, and from it type correctness, NoLostUpdate,   *)
(* NeverOvercounted, QueueWaitsForGap, RequestMatchesBox and the           *)
(* implementation of UpdateLog.  Then what waits: GapWaits, PushedInOrder  *)
(* and PollGoesOn.                                                         *)
(***************************************************************************)
EXTENDS ChannelUpdates, PtsWaiter_proofs, FiniteSetTheorems

-----------------------------------------------------------------------------
(* The inductive invariant in two parts: what only the server and the       *)
(* network change, and what the client changes.                             *)

EnvInv ==
    /\ log \subseteq Update /\ serverPts \in Nat
    /\ net \subseteq log /\ results \subseteq log /\ tooLong \in Nat
    /\ active \in BOOLEAN /\ losses \in Nat /\ fails \in Nat /\ views \in Nat
    /\ LogIsIntervals

\* The log is made of disjoint intervals up to the server's pts.
LEMMA LogIntervals ==
    ASSUME EnvInv
    PROVE  Intervals(log) /\ \A v \in log : v.pts <= serverPts
<1>1. InitialPts \in Nat /\ \A v \in log : v.pts \in Nat /\ v.count \in Nat
  BY BoundsAssumption DEF EnvInv, Update
<1> QED BY <1>1 DEF EnvInv, LogIsIntervals, Intervals, Before

BoxInv ==
    /\ box \in BoxType(Nat, log) /\ box.good <= serverPts /\ box.last <= serverPts
    /\ known \subseteq log /\ counted \subseteq log
    /\ base \in Nat /\ base <= serverPts /\ Boundary(base)
    /\ CountsMatch /\ QueueKept /\ QueueWaitsForGap /\ NoLostUpdate

RequestInv ==
    /\ request \in {"none", "sent", "answered", "failed"}
    /\ reqPts \in Nat /\ answer \in Answer
    /\ AnswerAhead /\ RequestMatchesBox

\* The two parts, the requests and TravelOnce make up IInv.
LEMMA IInvParts == IInv <=> EnvInv /\ BoxInv /\ RequestInv /\ TravelOnce
  BY DEF IInv, TypeOK, EnvInv, BoxInv, RequestInv

\* The same of the next state.
LEMMA IInvPartsNext == IInv' <=> EnvInv' /\ BoxInv' /\ RequestInv' /\ TravelOnce'
  BY DEF IInv, TypeOK, EnvInv, BoxInv, RequestInv

\* What an update given to the box may be: one of the log that was not
\* counted, or the zero points of a response.
Given(u, kept) ==
    /\ u \in Update /\ u.pts > 0 /\ u.pts <= serverPts /\ Boundary(u.pts)
    /\ \/ u \in log \ counted /\ u.count > 0 /\ u \in kept
       \/ u.count = 0 /\ u \notin log

\* Giving u to the box: what it applies, with what the caller has applied,
\* becomes known.
GiveToBox(u, r, extra) ==
    /\ box' = r.box /\ SendIfRequesting(r.box)
    /\ Account(u, r.applied \union extra)
    /\ log' = log /\ serverPts' = serverPts

\* Giving an update to the box keeps its invariant; the claim and what is
\* known only grow.
LEMMA GiveKeepsBox ==
    ASSUME EnvInv, BoxInv, RequestInv, NEW u, NEW r, NEW kept, NEW extra,
           Given(u, kept \union extra), Outcome(box, u, r, kept),
           r.box \in BoxType(Nat, log), r.applied \subseteq log, extra \subseteq log,
           GiveToBox(u, r, extra)
    PROVE  /\ BoxInv' /\ RequestInv' /\ counted' \subseteq counted \union {u}
           /\ box'.good >= box.good /\ known \subseteq known'
<1>0. /\ u.pts \in Nat /\ u.count \in Nat /\ serverPts \in Nat /\ log \subseteq Update
      /\ box.good \in Nat /\ box.last \in Nat /\ box.count \in Nat /\ base \in Nat
      /\ box'.good \in Nat /\ box'.last \in Nat /\ box'.count \in Nat
      /\ box' = r.box /\ log' = log /\ serverPts' = serverPts
  BY DEF EnvInv, BoxInv, Given, GiveToBox, BoxType, Update
<1>1. CASE box.requesting
  <2>1. /\ box'.requesting /\ box'.good = box.good /\ box'.last = box.last
        /\ known \subseteq known' /\ known' \subseteq log
        /\ counted' = counted /\ base' = base
        /\ request' = request /\ reqPts' = reqPts /\ answer' = answer
    BY <1>1 DEF Outcome, GiveToBox, Account, SendIfRequesting, BoxInv, historyVars, requestVars
  <2>2. Inited(box')
    BY <1>1, <2>1 DEF RequestInv, AnswerAhead, Inited
  <2>3. BoxInv'
    BY <1>0, <2>1, <2>2 DEF BoxInv, Boundary, Before, CountsMatch, QueueKept, QueueWaitsForGap,
         NoLostUpdate
  <2>4. RequestInv'
    BY <1>0, <1>1, <2>1 DEF RequestInv, AnswerAhead, RequestMatchesBox, Inited, Boundary, Before
  <2> QED BY <1>0, <2>1, <2>3, <2>4
<1>2. CASE ~box.requesting /\ Old(box, u)
  <2>1. /\ box' = box /\ known \subseteq known' /\ known' \subseteq log
        /\ counted' = counted /\ base' = base
        /\ request' = request /\ reqPts' = reqPts /\ answer' = answer
    BY <1>2 DEF Outcome, GiveToBox, Account, SendIfRequesting, BoxInv, historyVars, requestVars
  <2>2. BoxInv'
    BY <1>0, <2>1 DEF BoxInv, Boundary, Before, CountsMatch, QueueKept, QueueWaitsForGap,
         NoLostUpdate, Covered, Gap
  <2>3. RequestInv'
    BY <1>0, <2>1 DEF RequestInv, AnswerAhead, RequestMatchesBox, Boundary, Before
  <2> QED BY <1>0, <2>1, <2>2, <2>3
<1>3. CASE ~box.requesting /\ ~Old(box, u) /\ ~Inited(box)
  <2>1. /\ box'.good = u.pts /\ box'.last = u.pts /\ box'.count = u.pts
        /\ box'.queue = {} /\ ~box'.requesting
    BY <1>3 DEF Outcome, GiveToBox
  <2>2. /\ known' = known \union (r.applied \union extra) \union UpTo(u.pts)
        /\ counted' = {} /\ base' = u.pts
    BY <1>3 DEF GiveToBox, Account
  <2>3. request' = request /\ reqPts' = reqPts /\ answer' = answer
    BY <2>1, <1>0 DEF GiveToBox, SendIfRequesting, requestVars
  <2>4. Cardinality(Covered({})) = 0
    <3>1. Covered({}) = {}
      BY DEF Covered
    <3> QED BY <3>1, FS_EmptySet
  <2>5. known' \subseteq log /\ UpTo(u.pts) \subseteq known'
    BY <2>2 DEF UpTo, BoxInv
  <2>6. Inited(box')
    BY <1>0, <2>1 DEF Inited, Given
  <2>7. CountsMatch'
    BY <1>0, <2>1, <2>2, <2>4, <2>6 DEF CountsMatch
  <2>8. BoxInv'
    BY <1>0, <2>1, <2>2, <2>5, <2>7 DEF BoxInv, Boundary, Before, QueueKept, QueueWaitsForGap,
         NoLostUpdate, Given, UpTo
  <2>9. RequestInv'
    BY <1>0, <1>3, <2>1, <2>3 DEF RequestInv, AnswerAhead, RequestMatchesBox, Boundary, Before
  <2>10. box'.good >= box.good /\ known \subseteq known'
    BY <1>0, <1>3, <2>1, <2>2 DEF Inited
  <2> QED BY <2>2, <2>8, <2>9, <2>10
<1>4. CASE ~box.requesting /\ ~Old(box, u) /\ Inited(box)
  <2>1. /\ box'.last = Larger(box.last, u.pts) /\ box'.count = box.count + u.count
        /\ ~Gap(box') => /\ box'.good = box'.last /\ ~box'.requesting /\ box'.queue = {}
                         /\ (box.queue \union kept) \subseteq r.applied
        /\ Gap(box') => /\ box'.good = box.good
                        /\ ~box'.requesting =>
                             /\ (box.queue \union kept) \subseteq (r.applied \union box'.queue)
                             /\ box'.queue # {} => box'.waitSkipped
    BY <1>0, <1>4 DEF Outcome
  <2>2. /\ known' = known \union (r.applied \union extra) /\ base' = base
        /\ counted' = counted \union ({u} \intersect log)
    BY <1>4 DEF GiveToBox, Account
  <2>3. /\ known \subseteq known' /\ known' \subseteq log
        /\ counted' \subseteq log /\ counted' \subseteq counted \union {u}
    BY <2>2 DEF BoxInv
  <2>4. box'.last >= box.last /\ box'.last >= u.pts /\ box'.last <= serverPts
    BY <1>0, <2>1 DEF Larger, Given, BoxInv
  <2>5. /\ base <= box.good /\ box.good <= box.last /\ base <= box.last
        /\ box.count = base + Cardinality(Covered(counted))
        /\ \A v \in counted : base <= Before(v) /\ v.pts <= box.last
    BY <1>0, <1>4 DEF BoxInv, CountsMatch
  <2>6. \A v \in counted : v.pts \in Nat /\ v.count \in Nat /\ v \in Update
    BY <1>0 DEF BoxInv, Update
  <2>7. IsFiniteSet(Covered(counted)) /\ Cardinality(Covered(counted)) \in Nat
    BY <1>0, <2>5, <2>6, CoveredBounds
  <2>8. /\ box'.count = base + Cardinality(Covered(counted'))
        /\ \A v \in counted' : base <= Before(v) /\ v.pts <= box'.last
    <3>1. CASE u \in log
      <4>1. counted' = counted \union {u} /\ u \notin counted /\ u.count > 0
        BY <2>2, <3>1 DEF Given
      <4>2. Cardinality(Covered(counted')) = Cardinality(Covered(counted)) + u.count
        BY <1>0, <3>1, <4>1, LogIntervals, CoverOneMore DEF BoxInv
      <4>3. box'.count = base + Cardinality(Covered(counted'))
        BY <1>0, <2>1, <2>5, <2>7, <4>2
      <4>4. base <= Before(u)
        BY <1>0, <1>4, <2>5, <3>1, <4>1 DEF BoxInv, Boundary, Old, Before
      <4> QED BY <1>0, <2>4, <2>5, <2>6, <4>1, <4>3, <4>4
    <3>2. CASE u \notin log
      <4>1. counted' = counted /\ u.count = 0
        BY <2>2, <3>2 DEF Given
      <4> QED BY <1>0, <2>1, <2>4, <2>5, <2>6, <2>7, <4>1
    <3> QED BY <3>1, <3>2
  <2>9. CountsMatch'
    <3>1. Inited(box')
      BY <1>0, <1>4, <2>1, <2>4, <2>5 DEF Inited
    <3> QED BY <1>0, <2>1, <2>2, <2>4, <2>5, <2>8, <3>1 DEF CountsMatch
  <2>10. NoLostUpdate'
    <3>1. CASE Gap(box')
      BY <1>0, <2>1, <2>3, <3>1 DEF BoxInv, NoLostUpdate
    <3>2. CASE ~Gap(box')
      <4>1. box'.good = box'.last /\ box'.last = box'.count
        BY <2>1, <3>2 DEF Gap
      <4>2. Cardinality(Covered(counted')) \in Int
        <5>1. \A v \in counted' : v.pts \in Nat /\ v.count \in Nat
          BY <1>0, <2>3 DEF Update
        <5>2. base <= box'.last
          BY <1>0, <2>4, <2>5
        <5> QED BY <1>0, <2>8, <5>1, <5>2, CoveredBounds
      <4>3. Cardinality(Covered(counted')) = box'.last - base /\ base <= box'.last
        BY <1>0, <2>4, <2>5, <2>8, <4>1, <4>2
      <4>4. \A v \in log : v.pts <= box'.last => v.pts <= base \/ v \in counted'
        BY <1>0, <2>3, <2>8, <4>3, LogIntervals, CountsMeet DEF BoxInv, Boundary
      <4>5. \A v \in log : v.pts <= base => v \in known
        BY <1>0, <2>5 DEF BoxInv, NoLostUpdate, Update
      <4>6. counted' \subseteq known'
        <5>1. counted \subseteq known \union box.queue
          BY <1>4 DEF BoxInv, QueueKept
        <5>2. u \in log => u \in kept \union extra
          BY DEF Given
        <5>3. box.queue \union kept \subseteq r.applied
          BY <2>1, <3>2
        <5> QED BY <2>2, <5>1, <5>2, <5>3
      <4> QED BY <1>0, <2>3, <4>1, <4>4, <4>5, <4>6 DEF NoLostUpdate
    <3> QED BY <3>1, <3>2
  <2>11. QueueKept' /\ QueueWaitsForGap'
    <3>1. counted \subseteq known \union box.queue
      BY <1>4 DEF BoxInv, QueueKept
    <3>2. u \in log => u \in kept \union extra
      BY DEF Given
    <3>3. ~box'.requesting => (box.queue \union kept) \subseteq (r.applied \union box'.queue)
      BY <2>1
    <3>4. ~box'.requesting => counted' \subseteq known' \union box'.queue
      BY <2>2, <3>1, <3>2, <3>3
    <3>5. Inited(box')
      BY <1>0, <1>4, <2>1, <2>4, <2>5 DEF Inited
    <3> QED BY <2>1, <3>4, <3>5 DEF QueueKept, QueueWaitsForGap
  <2>12. BoxInv'
    <3>1. box'.good <= serverPts
      BY <1>0, <2>1, <2>4 DEF BoxInv
    <3>2. base' \in Nat /\ base' <= serverPts' /\ Boundary(base)'
      BY <1>0, <2>2 DEF BoxInv, Boundary, Before
    <3> QED BY <1>0, <2>3, <2>4, <2>9, <2>10, <2>11, <3>1, <3>2 DEF BoxInv
  <2>13. RequestInv'
    <3>1. Inited(box')
      BY <1>0, <1>4, <2>1, <2>4, <2>5 DEF Inited
    <3>2. CASE box'.requesting
      <4>1. request' = "sent" /\ reqPts' = box'.good /\ answer' = NoAnswer
        BY <1>0, <1>4, <3>2 DEF GiveToBox, SendIfRequesting
      <4> QED BY <1>0, <3>1, <3>2, <4>1 DEF RequestInv, AnswerAhead, RequestMatchesBox, NoAnswer, Answer
    <3>3. CASE ~box'.requesting
      <4>1. request' = request /\ reqPts' = reqPts /\ answer' = answer
        BY <1>0, <3>3 DEF GiveToBox, SendIfRequesting, requestVars
      <4> QED BY <1>0, <1>4, <3>3, <4>1 DEF RequestInv, AnswerAhead, RequestMatchesBox
    <3> QED BY <3>2, <3>3
  <2>14. box'.good >= box.good
    BY <1>0, <2>1, <2>4, <2>5
  <2> QED BY <2>3, <2>12, <2>13, <2>14
<1> QED BY <1>1, <1>2, <1>3, <1>4

-----------------------------------------------------------------------------
(* The steps: each keeps IInv and is a step of UpdateLog or a stutter.      *)

LogStep == Log!Learn \/ Log!Make

\* A step that only learns and moves the claim forward is a Learn step.
LEMMA Learns ==
    ASSUME IInv', log' = log, known \subseteq known', box'.good >= box.good
    PROVE  Log!Learn
<1>1. box'.good \in Nat /\ known' \subseteq log'
  BY DEF IInv, TypeOK, BoxType
<1>2. \A u \in log' : u.pts <= box'.good => u \in known'
  BY DEF IInv, NoLostUpdate
<1> QED BY <1>1, <1>2 DEF Log!Learn, Log!Complete

\* The initial states.
LEMMA InitHolds == Init => IInv /\ Log!Init
<1> SUFFICES ASSUME Init PROVE IInv /\ Log!Init
  OBVIOUS
<1>1. InitialPts \in Nat
  BY BoundsAssumption
<1>2. /\ box \in BoxType(Nat, log) /\ box.good = InitialPts /\ box.last = InitialPts
      /\ box.count = InitialPts /\ box.queue = {} /\ ~box.requesting
  BY <1>1 DEF Init, NewBox, InitPts, BoxType
<1>3. TypeOK
  <2>1. NoAnswer \in Answer /\ answer = NoAnswer
    BY DEF Init, NoAnswer, Answer
  <2>2. /\ log \subseteq Update /\ serverPts \in Nat /\ net \subseteq log /\ results \subseteq log
        /\ tooLong \in Nat /\ known \subseteq log /\ counted \subseteq log /\ base \in Nat
        /\ losses \in Nat /\ fails \in Nat /\ views \in Nat /\ reqPts \in Nat
        /\ request \in {"none", "sent", "answered", "failed"}
        /\ box.good <= serverPts /\ box.last <= serverPts
    BY <1>1, <1>2 DEF Init
  <2>3. active \in BOOLEAN
    BY DEF Init
  <2> QED BY <1>2, <2>1, <2>2, <2>3 DEF TypeOK
<1>4. LogIsIntervals /\ TravelOnce /\ Boundary(base) /\ base <= serverPts
  BY <1>1 DEF Init, LogIsIntervals, TravelOnce, Boundary
<1>5. CountsMatch
  <2>1. Covered(counted) = {}
    BY DEF Init, Covered
  <2>2. Cardinality(Covered(counted)) = 0
    BY <2>1, FS_EmptySet
  <2>3. ~Inited(box) => box.count = 0
    BY <1>1, <1>2 DEF Inited
  <2> QED BY <1>1, <1>2, <2>2, <2>3 DEF Init, CountsMatch
<1>6. QueueKept /\ QueueWaitsForGap /\ AnswerAhead /\ RequestMatchesBox /\ NoLostUpdate
  BY <1>2 DEF Init, QueueKept, QueueWaitsForGap, AnswerAhead, RequestMatchesBox, NoLostUpdate
<1>7. Log!Init
  BY <1>1, <1>2 DEF Init, Log!Init
<1> QED BY <1>3, <1>4, <1>5, <1>6, <1>7 DEF IInv

\* The server makes an update beyond all others and all that is claimed.
LEMMA MakesKeeps ==
    ASSUME IInv, NEW c, ServerMakes(c),
           \/ net' = net \union {Made(c)} /\ results' = results
           \/ results' = results \union {Made(c)} /\ net' = net,
           UNCHANGED <<tooLong, box, requestVars, active, known, historyVars, boundVars>>
    PROVE  IInv' /\ Log!Make
<1> DEFINE m == Made(c)
<1>1. /\ EnvInv /\ BoxInv /\ RequestInv /\ TravelOnce
  BY IInvParts
<1>2. /\ c \in Nat /\ c > 0 /\ serverPts \in Nat /\ InitialPts \in Nat
      /\ m \in Update /\ m.pts = serverPts + c /\ m.count = c /\ Before(m) = serverPts
      /\ log' = log \union {m} /\ serverPts' = serverPts + c
  BY <1>1, BoundsAssumption DEF ServerMakes, EnvInv, Made, Update, Before
<1>3. \A v \in log : /\ v.pts \in Nat /\ v.count \in Nat /\ v.pts <= serverPts
                      /\ v.count > 0 /\ InitialPts <= Before(v)
  BY <1>1 DEF EnvInv, LogIsIntervals, Update
<1>4. m \notin log /\ m \notin net /\ m \notin results /\ m \notin counted
  BY <1>1, <1>2, <1>3 DEF EnvInv, BoxInv
<1>5. /\ box' = box /\ request' = request /\ reqPts' = reqPts /\ answer' = answer
      /\ known' = known /\ counted' = counted /\ base' = base /\ active' = active
      /\ tooLong' = tooLong /\ losses' = losses /\ fails' = fails /\ views' = views
  BY DEF requestVars, historyVars, boundVars
<1>6. LogIsIntervals'
  <2>1. \A u \in log' : u.count > 0 /\ InitialPts <= Before(u) /\ u.pts <= serverPts'
    BY <1>1, <1>2, <1>3 DEF EnvInv, LogIsIntervals
  <2>2. \A u, v \in log' : u = v \/ u.pts <= Before(v) \/ v.pts <= Before(u)
    BY <1>1, <1>2, <1>3 DEF EnvInv, LogIsIntervals
  <2> QED BY <1>1, <1>2, <2>1, <2>2 DEF EnvInv, LogIsIntervals, Before
<1>7. EnvInv'
  BY <1>1, <1>2, <1>5, <1>6 DEF EnvInv
<1>8. /\ box.good \in Nat /\ box.last \in Nat /\ box.good <= serverPts /\ box.last <= serverPts
      /\ base \in Nat /\ base <= serverPts
  BY <1>1 DEF BoxInv, BoxType
<1>9. BoxInv'
  <2>1. box' \in BoxType(Nat, log')
    BY <1>1, <1>2, <1>5 DEF BoxInv, BoxType
  <2>2. Boundary(base)'
    BY <1>1, <1>2, <1>5, <1>8 DEF BoxInv, Boundary, Before
  <2>3. CountsMatch'
    BY <1>1, <1>5 DEF BoxInv, CountsMatch, Covered, Before
  <2>4. QueueKept' /\ QueueWaitsForGap'
    BY <1>1, <1>5 DEF BoxInv, QueueKept, QueueWaitsForGap
  <2>5. NoLostUpdate'
    BY <1>1, <1>2, <1>5, <1>8 DEF BoxInv, NoLostUpdate
  <2>6. /\ known' \subseteq log' /\ counted' \subseteq log' /\ base' \in Nat
        /\ base' <= serverPts' /\ box'.good <= serverPts' /\ box'.last <= serverPts'
    BY <1>1, <1>2, <1>5, <1>8 DEF BoxInv
  <2> QED BY <2>1, <2>2, <2>3, <2>4, <2>5, <2>6 DEF BoxInv
<1>10. RequestInv'
  <2>1. request = "answered" => answer.pts \in Nat /\ answer.pts <= serverPts
    BY <1>1 DEF RequestInv, AnswerAhead, Answer
  <2> QED BY <1>1, <1>2, <1>5, <2>1 DEF RequestInv, AnswerAhead, RequestMatchesBox, Boundary, Before
<1>11. TravelOnce'
  BY <1>1, <1>4, <1>5 DEF TravelOnce
<1>12. IInv'
  BY <1>7, <1>9, <1>10, <1>11, IInvPartsNext
<1>13. Log!Make
  BY <1>2, <1>3, <1>4, <1>5, <1>8 DEF Log!Make
<1> QED BY <1>12, <1>13

\* A step of the network only: the client and the log stay as they are.
LEMMA NetworkKeeps ==
    ASSUME IInv, net' \subseteq net, results' \subseteq results, tooLong' \in Nat,
           losses' \in Nat, fails' \in Nat, views' \in Nat, active' \in BOOLEAN,
           UNCHANGED <<log, serverPts>>
    PROVE  EnvInv' /\ (counted' \subseteq counted => TravelOnce')
<1>1. EnvInv /\ TravelOnce
  BY IInvParts
<1> QED BY <1>1 DEF EnvInv, LogIsIntervals, Before, TravelOnce

\* A box that differs in its flags and timer only.
SameNumbers(b, c) ==
    /\ c \in BoxType(Nat, log) /\ c.good = b.good /\ c.last = b.last /\ c.count = b.count
    /\ c.queue = b.queue /\ c.requesting = b.requesting /\ c.waitSkipped = b.waitSkipped

\* Such a step of the client keeps its invariant.
LEMMA FlagsKeep ==
    ASSUME EnvInv, BoxInv, RequestInv, SameNumbers(box, box'),
           UNCHANGED <<log, serverPts, requestVars, known, historyVars>>
    PROVE  BoxInv' /\ RequestInv'
<1>1. /\ request' = request /\ reqPts' = reqPts /\ answer' = answer
      /\ counted' = counted /\ base' = base /\ known' = known
      /\ log' = log /\ serverPts' = serverPts
  BY DEF requestVars, historyVars
<1>2. /\ box' \in BoxType(Nat, log') /\ box'.good = box.good /\ box'.last = box.last
      /\ box'.count = box.count /\ box'.queue = box.queue
      /\ box'.requesting = box.requesting /\ box'.waitSkipped = box.waitSkipped
  BY <1>1 DEF SameNumbers
<1>3. CountsMatch'
  BY <1>1, <1>2 DEF BoxInv, CountsMatch, Inited, Covered, Before
<1>4. QueueKept' /\ QueueWaitsForGap' /\ NoLostUpdate' /\ Boundary(base)'
  BY <1>1, <1>2 DEF BoxInv, QueueKept, QueueWaitsForGap, Gap, Inited, NoLostUpdate, Boundary, Before
<1>5. BoxInv'
  BY <1>1, <1>2, <1>3, <1>4 DEF BoxInv
<1>6. RequestInv'
  BY <1>1, <1>2 DEF RequestInv, AnswerAhead, RequestMatchesBox, Inited, Boundary, Before
<1> QED BY <1>5, <1>6

\* Asking for the difference: the box has the numbers of the one before it,
\* which is free to ask, or was released to ask again.
LEMMA AskingKeeps ==
    ASSUME EnvInv, BoxInv, RequestInv, NEW b, NEW byTimer \in BOOLEAN,
           \/ SameNumbers(box, b)
           \/ box.requesting /\ b = SetRequesting(box, FALSE),
           GetChannelDifference(b, byTimer),
           UNCHANGED <<log, serverPts, known, historyVars>>
    PROVE  BoxInv' /\ RequestInv' /\ box'.good = box.good
<1>1. /\ counted' = counted /\ base' = base /\ known' = known
      /\ log' = log /\ serverPts' = serverPts
  BY DEF historyVars
<1>2. /\ b \in BoxType(Nat, log) /\ b.good = box.good /\ b.last = box.last
      /\ b.count = box.count
      /\ Inited(b) <=> Inited(box)
  BY DEF BoxInv, SameNumbers, SetRequesting, BoxType, Inited
<1> DEFINE free == IF byTimer THEN b ELSE [b EXCEPT !.timer = FALSE]
<1>3. /\ free \in BoxType(Nat, log) /\ free.good = b.good /\ free.last = b.last
      /\ free.count = b.count /\ free.queue = b.queue
      /\ free.requesting = b.requesting /\ free.waitSkipped = b.waitSkipped
  <2>1. CASE byTimer
    BY <1>2, <2>1
  <2>2. CASE ~byTimer
    BY <1>2, <2>2 DEF BoxType
  <2> QED BY <2>1, <2>2
<1>4. CASE MayRequest(b)
  <2> HIDE DEF free
  <2>1. /\ box' = SetRequesting(free, TRUE)
        /\ request' = "sent" /\ reqPts' = b.good /\ answer' = NoAnswer
    BY <1>4 DEF GetChannelDifference, free
  <2>2. /\ box' \in BoxType(Nat, log) /\ box'.good = box.good /\ box'.last = box.last
        /\ box'.requesting
    BY <1>2, <1>3, <2>1 DEF SetRequesting, BoxType
  <2>3. Inited(box')
    BY <1>2, <1>4, <2>2 DEF MayRequest, Inited
  <2>4. reqPts' \in Nat /\ reqPts' = box'.good
    BY <1>2, <2>1, <2>2 DEF BoxType
  <2>5. BoxInv'
    BY <1>1, <2>2, <2>3 DEF BoxInv, CountsMatch, QueueKept, QueueWaitsForGap, NoLostUpdate, Boundary, Before
  <2>6. RequestInv'
    BY <2>1, <2>2, <2>3, <2>4 DEF RequestInv, AnswerAhead, RequestMatchesBox, NoAnswer, Answer
  <2> QED BY <2>2, <2>5, <2>6
<1>5. CASE ~MayRequest(b)
  <2>1. SameNumbers(box, b)
    <3>1. CASE box.requesting /\ b = SetRequesting(box, FALSE)
      <4>1. Inited(box) /\ ~b.requesting
        BY <3>1 DEF RequestInv, AnswerAhead, SetRequesting, BoxInv, BoxType
      <4> QED BY <1>2, <1>5, <4>1 DEF MayRequest
    <3> QED BY <3>1
  <2>2. box' = free /\ UNCHANGED requestVars
    BY <1>5 DEF GetChannelDifference
  <2>3. SameNumbers(box, box') /\ box'.good = box.good
    BY <1>3, <2>1, <2>2 DEF SameNumbers
  <2> QED BY <2>2, <2>3, FlagsKeep
<1> QED BY <1>4, <1>5

\* The queue of a box meets what the methods of PtsWaiter rely on.
LEMMA QueueReady ==
    ASSUME BoxInv
    PROVE  /\ box \in BoxType(Nat, log) /\ box.queue \subseteq log
           /\ ~box.requesting /\ box.queue # {} => box.waitSkipped
           /\ ~box.requesting /\ ~Inited(box) => box.queue = {}
  BY DEF BoxInv, BoxType, QueueWaitsForGap, QueueKept

\* An update of the log that was not counted may be given to the box.
LEMMA LogGiven ==
    ASSUME EnvInv, NEW u \in log, u \notin counted, NEW kept, u \in kept
    PROVE  Given(u, kept) /\ u \in [pts : Nat, count : Nat] /\ u.count > 0
<1>1. u \in Update /\ u.pts \in Nat /\ u.count \in Nat
  BY DEF EnvInv, Update
<1>2. u.count > 0 /\ u.pts <= serverPts /\ InitialPts <= Before(u)
  BY DEF EnvInv, LogIsIntervals
<1>3. \A v \in log : v.pts \in Nat /\ v.count \in Nat
  BY DEF EnvInv, Update
<1>4. Boundary(u.pts)
  <2>1. ASSUME NEW v \in log PROVE v.pts <= u.pts \/ u.pts <= Before(v)
    <3>1. u = v \/ u.pts <= Before(v) \/ v.pts <= Before(u)
      BY DEF EnvInv, LogIsIntervals
    <3> QED BY <1>1, <1>3, <3>1 DEF Before
  <2> QED BY <2>1 DEF Boundary
<1>5. u.pts > 0
  BY <1>1, <1>2, BoundsAssumption DEF Before
<1> QED BY <1>1, <1>2, <1>4, <1>5 DEF Given, Update

\* A pushed update.
LEMMA ReceivePushKeeps ==
    ASSUME IInv, NEW u, NEW deadline \in Deadlines, ReceivePush(u, deadline)
    PROVE  IInv' /\ Log!Learn
<1>1. EnvInv /\ BoxInv /\ RequestInv /\ TravelOnce
  BY IInvParts
<1>2. /\ u \in net /\ net' = net \ {u} /\ log' = log /\ serverPts' = serverPts
      /\ results' = results /\ tooLong' = tooLong /\ active' = active
      /\ losses' = losses /\ fails' = fails /\ views' = views
  BY DEF ReceivePush, boundVars
<1>3. u \in log /\ u \notin counted /\ u \notin results
  BY <1>1, <1>2 DEF EnvInv, TravelOnce
<1>4. EnvInv'
  BY <1>1, <1>2, NetworkKeeps DEF EnvInv
<1>5. CASE box.requesting
  <2>1. UNCHANGED <<box, requestVars, known, historyVars>>
    BY <1>5 DEF ReceivePush
  <2>2. SameNumbers(box, box')
    BY <1>1, <2>1 DEF SameNumbers, BoxInv
  <2>3. BoxInv' /\ RequestInv'
    BY <1>1, <1>2, <2>1, <2>2, FlagsKeep
  <2>4. TravelOnce'
    BY <1>1, <1>2, <2>1 DEF TravelOnce, historyVars
  <2>5. IInv'
    BY <1>4, <2>3, <2>4, IInvPartsNext
  <2> QED BY <1>1, <1>2, <2>1, <2>5, Learns DEF BoxInv, BoxType
<1>6. CASE ~box.requesting
  <2> DEFINE r == UpdateAndApply(box, u, deadline)
  <2>1. box' = r.box /\ SendIfRequesting(r.box) /\ Account(u, r.applied)
    BY <1>6 DEF ReceivePush
  <2>2. u \in [pts : Nat, count : Nat] /\ u.count > 0 /\ Given(u, {u} \union {})
    BY <1>1, <1>3, LogGiven
  <2>3. /\ box \in BoxType(Nat, log) /\ box.queue \subseteq log
        /\ ~box.requesting /\ box.queue # {} => box.waitSkipped
        /\ ~box.requesting /\ ~Inited(box) => box.queue = {}
    BY <1>1, QueueReady
  <2>4. /\ r.box \in BoxType(Nat, log) /\ r.applied \subseteq box.queue \union {u}
        /\ Outcome(box, u, r, {u})
    BY <1>3, <2>2, <2>3, UpdateAndApplyOutcome
  <2> HIDE DEF r
  <2>5. r.applied \subseteq log /\ r.applied \union {} = r.applied
    BY <1>3, <2>3, <2>4
  <2>6. GiveToBox(u, r, {})
    BY <1>2, <2>1, <2>5 DEF GiveToBox
  <2>7. /\ BoxInv' /\ RequestInv' /\ counted' \subseteq counted \union {u}
        /\ box'.good >= box.good /\ known \subseteq known'
    BY <1>1, <2>2, <2>4, <2>5, <2>6, GiveKeepsBox
  <2>8. TravelOnce'
    BY <1>1, <1>2, <1>3, <2>7 DEF TravelOnce
  <2>9. IInv'
    BY <1>4, <2>7, <2>8, IInvPartsNext
  <2> QED BY <1>2, <2>7, <2>9, Learns
<1> QED BY <1>5, <1>6

\* A result of the client's own request.
LEMMA ReceiveResultKeeps ==
    ASSUME IInv, NEW u, NEW deadline \in Deadlines, ReceiveResult(u, deadline)
    PROVE  IInv' /\ Log!Learn
<1> DEFINE r == UpdateAndApplyCount(box, u, deadline)
<1>1. EnvInv /\ BoxInv /\ RequestInv /\ TravelOnce
  BY IInvParts
<1>2. /\ u \in results /\ results' = results \ {u} /\ log' = log /\ serverPts' = serverPts
      /\ net' = net /\ tooLong' = tooLong /\ active' = active
      /\ losses' = losses /\ fails' = fails /\ views' = views
      /\ box' = r.box /\ SendIfRequesting(r.box) /\ Account(u, r.applied \union {u})
  BY DEF ReceiveResult, boundVars
<1>3. u \in log /\ u \notin counted /\ u \notin net
  BY <1>1, <1>2 DEF EnvInv, TravelOnce
<1>4. EnvInv'
  BY <1>1, <1>2, NetworkKeeps DEF EnvInv
<1>5. u \in [pts : Nat, count : Nat] /\ u.count > 0 /\ Given(u, {} \union {u})
  BY <1>1, <1>3, LogGiven
<1>6. /\ box \in BoxType(Nat, log) /\ box.queue \subseteq log
      /\ ~box.requesting /\ box.queue # {} => box.waitSkipped
      /\ ~box.requesting /\ ~Inited(box) => box.queue = {}
  BY <1>1, QueueReady
<1>7. /\ r.box \in BoxType(Nat, log) /\ r.applied \subseteq box.queue
      /\ Outcome(box, u, r, {})
  BY <1>5, <1>6, UpdateAndApplyCountOutcome
<1> HIDE DEF r
<1>8. r.applied \subseteq log /\ {u} \subseteq log
  BY <1>3, <1>6, <1>7
<1>9. GiveToBox(u, r, {u})
  BY <1>2 DEF GiveToBox
<1>10. /\ BoxInv' /\ RequestInv' /\ counted' \subseteq counted \union {u}
       /\ box'.good >= box.good /\ known \subseteq known'
  BY <1>1, <1>5, <1>7, <1>8, <1>9, GiveKeepsBox
<1>11. TravelOnce'
  BY <1>1, <1>2, <1>3, <1>10 DEF TravelOnce
<1>12. IInv'
  BY <1>4, <1>10, <1>11, IInvPartsNext
<1> QED BY <1>2, <1>10, <1>12, Learns

\* A response that carries the pts at which the server made it.
LEMMA ReceiveHistoryKeeps ==
    ASSUME IInv, NEW pts, NEW deadline \in Deadlines, ReceiveHistory(pts, deadline)
    PROVE  IInv' /\ Log!Learn
<1> DEFINE u == [pts |-> pts, count |-> 0]
           r == UpdateAndApplyCount(box, u, deadline)
<1>1. EnvInv /\ BoxInv /\ RequestInv /\ TravelOnce
  BY IInvParts
<1>2. /\ log' = log /\ serverPts' = serverPts /\ net' = net /\ results' = results
      /\ tooLong' = tooLong /\ active' = active
      /\ losses' = losses /\ fails' = fails /\ views' = views
      /\ box' = r.box /\ SendIfRequesting(r.box) /\ Account(u, r.applied)
  BY DEF ReceiveHistory, serverVars, boundVars
<1>3. pts \in {v.pts : v \in log} \union {InitialPts} /\ pts > 0
  BY DEF ReceiveHistory
<1>4. \A v \in log : v.pts \in Nat /\ v.count \in Nat /\ v.count > 0 /\ v.pts <= serverPts
  BY <1>1 DEF EnvInv, LogIsIntervals, Update
<1>5. /\ InitialPts \in Nat /\ serverPts \in Nat /\ InitialPts <= serverPts
      /\ \A v \in log : InitialPts <= Before(v)
  BY <1>1, BoundsAssumption DEF EnvInv, LogIsIntervals
<1>6. pts \in Nat /\ pts <= serverPts /\ Boundary(pts)
  <2>1. CASE pts = InitialPts
    BY <1>5, <2>1 DEF Boundary
  <2>2. CASE pts # InitialPts
    <3>1. PICK v \in log : pts = v.pts
      BY <1>3, <2>2
    <3>2. \A w \in log : v = w \/ v.pts <= Before(w) \/ w.pts <= Before(v)
      BY <1>1 DEF EnvInv, LogIsIntervals
    <3> QED BY <1>4, <3>1, <3>2 DEF Boundary, Before
  <2> QED BY <2>1, <2>2
<1>7. u \notin log /\ u \in [pts : Nat, count : Nat] /\ u.pts = pts /\ u.count = 0
  BY <1>4, <1>6
<1>8. /\ box \in BoxType(Nat, log) /\ box.queue \subseteq log
      /\ ~box.requesting /\ box.queue # {} => box.waitSkipped
      /\ ~box.requesting /\ ~Inited(box) => box.queue = {}
  BY <1>1, QueueReady
<1>9. /\ r.box \in BoxType(Nat, log) /\ r.applied \subseteq box.queue
      /\ Outcome(box, u, r, {})
  BY <1>7, <1>8, UpdateAndApplyCountOutcome
<1> HIDE DEF u, r
<1>10. Given(u, {} \union {})
  BY <1>3, <1>6, <1>7 DEF Given, Update
<1>11. r.applied \subseteq log /\ r.applied \union {} = r.applied
  BY <1>8, <1>9
<1>12. GiveToBox(u, r, {})
  BY <1>2, <1>11 DEF GiveToBox
<1>13. /\ BoxInv' /\ RequestInv' /\ counted' \subseteq counted \union {u}
       /\ box'.good >= box.good /\ known \subseteq known'
  BY <1>1, <1>9, <1>10, <1>11, <1>12, GiveKeepsBox
<1>14. EnvInv'
  BY <1>1, <1>2, NetworkKeeps DEF EnvInv
<1>15. TravelOnce'
  <2>1. counted' \subseteq log'
    BY <1>13 DEF BoxInv
  <2>2. counted' \subseteq counted
    BY <1>2, <1>7, <1>13, <2>1
  <2> QED BY <1>1, <1>2, <2>2 DEF TravelOnce
<1>16. IInv'
  BY <1>13, <1>14, <1>15, IInvPartsNext
<1> QED BY <1>2, <1>13, <1>16, Learns

\* A step that only asks for the difference, or changes nothing of the box.
LEMMA AsksKeep ==
    ASSUME IInv, EnvInv', NEW b, NEW byTimer \in BOOLEAN,
           \/ SameNumbers(box, b)
           \/ box.requesting /\ b = SetRequesting(box, FALSE),
           GetChannelDifference(b, byTimer),
           UNCHANGED <<log, serverPts, net, results, known, historyVars>>
    PROVE  IInv' /\ Log!Learn
<1>1. EnvInv /\ BoxInv /\ RequestInv /\ TravelOnce
  BY IInvParts
<1>2. BoxInv' /\ RequestInv' /\ box'.good = box.good
  BY <1>1, AskingKeeps
<1>3. TravelOnce'
  BY <1>1 DEF TravelOnce, historyVars
<1>4. IInv'
  BY <1>2, <1>3, IInvPartsNext
<1>5. box'.good >= box.good
  BY <1>1, <1>2 DEF BoxInv, BoxType
<1> QED BY <1>4, <1>5, Learns

\* A step that changes flags and the timer of the box at most.
LEMMA FlagStepKeeps ==
    ASSUME IInv, EnvInv', SameNumbers(box, box'),
           UNCHANGED <<log, serverPts, requestVars, known, historyVars>>,
           net' \subseteq net, results' \subseteq results
    PROVE  IInv' /\ Log!Learn
<1>1. EnvInv /\ BoxInv /\ RequestInv /\ TravelOnce
  BY IInvParts
<1>2. BoxInv' /\ RequestInv'
  BY <1>1, FlagsKeep
<1>3. TravelOnce'
  BY <1>1 DEF TravelOnce, historyVars
<1>4. IInv'
  BY <1>2, <1>3, IInvPartsNext
<1>5. box'.good >= box.good
  BY <1>1 DEF SameNumbers, BoxInv, BoxType
<1> QED BY <1>4, <1>5, Learns

\* What the waits for a short poll change.
LEMMA ShortPollFields ==
    ASSUME NEW b \in BoxType(Nat, log)
    PROVE  SameNumbers(b, StartWaitingForShortPoll(b)) /\ SameNumbers(b, StopWaitingForShortPoll(b))
<1>1. SameNumbers(b, StartWaitingForShortPoll(b))
  BY DEF SameNumbers, StartWaitingForShortPoll, BoxType
<1>2. SameNumbers(b, StopWaitingForShortPoll(b))
  BY DEF SameNumbers, StopWaitingForShortPoll, CheckForWaiting, BoxType
<1> QED BY <1>1, <1>2

\* The server's answer, for any answer it may give.
LEMMA ServerAnswersKeeps ==
    ASSUME IInv, NEW a, ServerAnswers(a)
    PROVE  IInv' /\ Log!Learn
<1>1. EnvInv /\ BoxInv /\ RequestInv /\ TravelOnce
  BY IInvParts
<1>2. /\ request = "sent" /\ request' = "answered" /\ answer' = a /\ a \in Answer
      /\ a.pts \in {v.pts : v \in log} \union {serverPts} /\ reqPts <= a.pts
      /\ log' = log /\ serverPts' = serverPts /\ net' = net /\ results' = results
      /\ tooLong' = tooLong /\ active' = active /\ box' = box /\ reqPts' = reqPts
      /\ known' = known /\ counted' = counted /\ base' = base
      /\ losses' = losses /\ fails' = fails /\ views' = views
  BY DEF ServerAnswers, serverVars, historyVars, boundVars, RequestInv, Answer
<1>3. \A v \in log : /\ v.pts \in Nat /\ v.count \in Nat /\ v.pts <= serverPts
                      /\ \A w \in log : v = w \/ v.pts <= Before(w) \/ w.pts <= Before(v)
  BY <1>1 DEF EnvInv, LogIsIntervals, Update
<1>4. a.pts <= serverPts /\ Boundary(a.pts)
  <2>1. CASE a.pts = serverPts
    BY <1>1, <1>3, <2>1 DEF Boundary, EnvInv
  <2>2. CASE a.pts # serverPts
    <3>1. PICK v \in log : a.pts = v.pts
      BY <1>2, <2>2
    <3> QED BY <1>3, <3>1 DEF Boundary, Before
  <2> QED BY <2>1, <2>2
<1>5. EnvInv'
  BY <1>1, <1>2 DEF EnvInv, LogIsIntervals, Before
<1>6. BoxInv'
  BY <1>1, <1>2 DEF BoxInv, CountsMatch, QueueKept, QueueWaitsForGap, NoLostUpdate, Boundary,
       Covered, Before
<1>7. RequestInv'
  BY <1>1, <1>2, <1>4 DEF RequestInv, AnswerAhead, RequestMatchesBox, Boundary, Before
<1>8. TravelOnce'
  BY <1>1, <1>2 DEF TravelOnce
<1>9. IInv'
  BY <1>5, <1>6, <1>7, <1>8, IInvPartsNext
<1> QED BY <1>1, <1>2, <1>9, Learns DEF BoxInv, BoxType

\* The answer is applied: the box starts anew from its pts, and the next
\* slice is asked for at once if there is one.
LEMMA DifferenceDoneKeeps ==
    ASSUME IInv, DifferenceDone
    PROVE  IInv' /\ Log!Learn
<1> DEFINE b == SetRequesting(InitPts(box, answer.pts), FALSE)
<1>1. EnvInv /\ BoxInv /\ RequestInv /\ TravelOnce
  BY IInvParts
<1>2. /\ request = "answered" /\ log' = log /\ serverPts' = serverPts /\ net' = net
      /\ results' = results /\ tooLong' = tooLong /\ active' = active
      /\ losses' = losses /\ fails' = fails /\ views' = views
      /\ known' = known \union UpTo(answer.pts) /\ counted' = {} /\ base' = answer.pts
  BY DEF DifferenceDone, serverVars, boundVars
<1>3. /\ box.requesting /\ reqPts = box.good /\ reqPts <= answer.pts /\ answer.pts <= serverPts
      /\ Boundary(answer.pts) /\ answer.pts \in Nat /\ Inited(box)
      /\ box \in BoxType(Nat, log) /\ box.good \in Nat /\ serverPts \in Nat
  BY <1>1, <1>2 DEF RequestInv, AnswerAhead, RequestMatchesBox, BoxInv, BoxType, Answer, EnvInv
<1>4. /\ b \in BoxType(Nat, log) /\ b.good = answer.pts /\ b.last = answer.pts
      /\ b.count = answer.pts /\ b.queue = {} /\ ~b.requesting
  BY <1>3 DEF SetRequesting, InitPts, BoxType
<1>5. Inited(b)
  <2>1. box.good > 0
    BY <1>3 DEF Inited
  <2>2. answer.pts > 0
    BY <1>3, <2>1
  <2> HIDE DEF b
  <2> QED BY <1>4, <2>2 DEF Inited
<1>6. /\ box' \in BoxType(Nat, log) /\ box'.good = answer.pts /\ box'.last = answer.pts
      /\ box'.queue = {}
      /\ ~box'.requesting => box'.count = answer.pts
      /\ RequestInv'
  <2>1. CASE ~answer.final
    <3>1. GetChannelDifference(b, FALSE)
      BY <2>1 DEF DifferenceDone
    <3> HIDE DEF b
    <3> DEFINE free == [b EXCEPT !.timer = FALSE]
    <3>2. /\ free \in BoxType(Nat, log) /\ free.good = b.good /\ free.last = b.last
      BY <1>4 DEF BoxType
    <3>3. /\ box' = SetRequesting(free, TRUE)
          /\ request' = "sent" /\ reqPts' = b.good /\ answer' = NoAnswer
      BY <1>4, <1>5, <3>1 DEF GetChannelDifference, MayRequest
    <3> HIDE DEF free
    <3>4. /\ box' \in BoxType(Nat, log) /\ box'.good = b.good /\ box'.last = b.last
          /\ box'.queue = {} /\ box'.requesting
      BY <3>2, <3>3 DEF SetRequesting, BoxType
    <3>5. Inited(box')
      BY <1>5, <3>4 DEF Inited
    <3>6. RequestInv'
      BY <1>3, <1>4, <3>3, <3>4, <3>5 DEF RequestInv, AnswerAhead, RequestMatchesBox, NoAnswer, Answer
    <3> QED BY <1>4, <3>4, <3>6
  <2>2. CASE answer.final
    <3>1. /\ box' = StartWaitingForShortPoll(b) \/ box' = StopWaitingForShortPoll(b)
          /\ request' = "none" /\ reqPts' = 0 /\ answer' = NoAnswer
      BY <2>2 DEF DifferenceDone
    <3> HIDE DEF b
    <3>2. SameNumbers(b, box')
      BY <1>4, <3>1, ShortPollFields
    <3>3. ~box'.requesting
      BY <1>4, <3>2 DEF SameNumbers
    <3>4. RequestInv'
      BY <3>1, <3>3 DEF RequestInv, AnswerAhead, RequestMatchesBox, NoAnswer, Answer
    <3> QED BY <1>4, <3>2, <3>4 DEF SameNumbers
  <2> QED BY <2>1, <2>2
<1> HIDE DEF b
<1>7. EnvInv'
  BY <1>1, <1>2 DEF EnvInv, LogIsIntervals, Before
<1>8. CountsMatch'
  <2>1. Covered({}) = {}
    BY DEF Covered
  <2>2. Cardinality(Covered({})) = 0
    BY <2>1, FS_EmptySet
  <2>3. answer.pts = answer.pts + 0 /\ answer.pts <= answer.pts
    BY <1>3
  <2>4. ~box'.requesting => /\ base' <= box'.good /\ box'.good <= box'.last
                           /\ box'.count = base' + Cardinality(Covered({}))
    BY <1>2, <1>6, <2>2, <2>3
  <2>5. Inited(box')
    BY <1>4, <1>5, <1>6 DEF Inited
  <2> QED BY <1>2, <2>4, <2>5 DEF CountsMatch
<1>9. BoxInv'
  <2>1. known' \subseteq log' /\ UpTo(answer.pts) \subseteq known'
    BY <1>1, <1>2 DEF BoxInv, UpTo
  <2>2. QueueKept'
    BY <1>2, <1>6 DEF QueueKept
  <2>3. QueueWaitsForGap'
    BY <1>6 DEF QueueWaitsForGap
  <2>4. NoLostUpdate'
    BY <1>2, <1>6, <2>1 DEF NoLostUpdate, UpTo
  <2>5. Boundary(base)' /\ base' \in Nat /\ base' <= serverPts'
    BY <1>2, <1>3 DEF Boundary, Before
  <2> QED BY <1>2, <1>3, <1>6, <1>8, <2>1, <2>2, <2>3, <2>4, <2>5 DEF BoxInv
<1>10. TravelOnce'
  BY <1>1, <1>2 DEF TravelOnce
<1>11. IInv'
  BY <1>6, <1>7, <1>9, <1>10, IInvPartsNext
<1>12. box'.good >= box.good
  BY <1>3, <1>6
<1> QED BY <1>2, <1>11, <1>12, Learns

\* Every step keeps IInv and is a step of UpdateLog, or changes nothing.
LEMMA NextKeeps ==
    ASSUME IInv, [Next]_vars
    PROVE  IInv' /\ (LogStep \/ UNCHANGED Log!logVars)
<1>1. EnvInv /\ BoxInv /\ RequestInv /\ TravelOnce
  BY IInvParts
<1>2. box \in BoxType(Nat, log)
  BY <1>1 DEF BoxInv
<1>3. ASSUME NEW c \in Counts, ServerPush(c) \/ ServerResult(c)
      PROVE  IInv' /\ Log!Make
  BY <1>3, MakesKeeps DEF ServerPush, ServerResult
<1>4. CASE PushesLost
  <2>1. serverPts \in Nat /\ losses + 1 \in Nat
    BY <1>1 DEF EnvInv
  <2>2. EnvInv'
    BY <1>1, <1>4, <2>1 DEF PushesLost, EnvInv, LogIsIntervals, Before
  <2>3. SameNumbers(box, box')
    BY <1>2, <1>4 DEF PushesLost, SameNumbers
  <2> QED BY <1>4, <2>2, <2>3, FlagStepKeeps DEF PushesLost, LogStep
<1>5. CASE \E u \in net : PushNotLoaded(u)
  <2>1. PICK u \in net : PushNotLoaded(u)
    BY <1>5
  <2>2. serverPts \in Nat /\ losses + 1 \in Nat
    BY <1>1 DEF EnvInv
  <2>3. EnvInv'
    BY <1>1, <2>1, <2>2 DEF PushNotLoaded, EnvInv, LogIsIntervals, Before
  <2>4. SameNumbers(box, box')
    BY <1>2, <2>1 DEF PushNotLoaded, SameNumbers
  <2> QED BY <2>1, <2>3, <2>4, FlagStepKeeps DEF PushNotLoaded, LogStep
<1>6. CASE ReceiveTooLong
  <2>1. EnvInv'
    BY <1>1, <1>6 DEF ReceiveTooLong, EnvInv, LogIsIntervals, Before, boundVars
  <2>2. SameNumbers(box, box)
    BY <1>2 DEF SameNumbers
  <2>3. CASE box.good < tooLong
    BY <1>6, <2>1, <2>2, <2>3, AsksKeep DEF ReceiveTooLong, LogStep
  <2>4. CASE ~(box.good < tooLong)
    BY <1>6, <2>1, <2>2, <2>4, FlagStepKeeps DEF ReceiveTooLong, LogStep
  <2> QED BY <2>3, <2>4
<1>7. CASE PtsTimer
  <2>1. EnvInv'
    BY <1>1, <1>7 DEF PtsTimer, EnvInv, LogIsIntervals, Before, serverVars, boundVars
  <2>2. SameNumbers(box, [box EXCEPT !.timer = FALSE])
    BY <1>2 DEF SameNumbers, BoxType
  <2> QED BY <1>7, <2>1, <2>2, AsksKeep DEF PtsTimer, LogStep, serverVars
<1>8. CASE DifferenceFail
  <2>1. EnvInv' /\ fails + 1 \in Nat
    BY <1>1, <1>8 DEF DifferenceFail, EnvInv, LogIsIntervals, Before, serverVars
  <2>2. /\ box' = box /\ known' = known /\ counted' = counted /\ base' = base
        /\ log' = log /\ serverPts' = serverPts /\ net' = net /\ results' = results
        /\ request = "sent" /\ request' = "failed" /\ reqPts' = reqPts /\ answer' = answer
    BY <1>8 DEF DifferenceFail, serverVars, historyVars
  <2>3. BoxInv'
    BY <1>1, <2>2 DEF BoxInv, CountsMatch, QueueKept, QueueWaitsForGap, NoLostUpdate, Boundary,
         Covered, Before
  <2>4. RequestInv' /\ TravelOnce'
    BY <1>1, <2>2 DEF RequestInv, AnswerAhead, RequestMatchesBox, TravelOnce
  <2>5. IInv'
    BY <2>1, <2>3, <2>4, IInvPartsNext
  <2> QED BY <2>2, <2>5 DEF Log!logVars
<1>9. CASE AfterFailTimer
  <2>1. EnvInv'
    BY <1>1, <1>9 DEF AfterFailTimer, EnvInv, LogIsIntervals, Before, serverVars, boundVars
  <2>2. box.requesting
    BY <1>1, <1>9 DEF AfterFailTimer, RequestInv, RequestMatchesBox
  <2> QED BY <1>9, <2>1, <2>2, AsksKeep DEF AfterFailTimer, LogStep, serverVars
<1>10. CASE ShowChannel \/ HideChannel \/ WindowGoes
  <2>1. active' \in BOOLEAN
    BY <1>10 DEF ShowChannel, HideChannel, WindowGoes
  <2>2. views' \in Nat
    <3>1. views \in Nat /\ views + 1 \in Nat
      BY <1>1 DEF EnvInv
    <3> QED BY <1>10, <3>1 DEF ShowChannel, HideChannel, WindowGoes, boundVars
  <2>3. EnvInv'
    BY <1>1, <1>10, <2>1, <2>2 DEF ShowChannel, HideChannel, WindowGoes, EnvInv,
         LogIsIntervals, Before, serverVars, boundVars
  <2>4. SameNumbers(box, box')
    BY <1>2, <1>10, ShortPollFields DEF ShowChannel, HideChannel, WindowGoes, SameNumbers
  <2> QED BY <1>10, <2>3, <2>4, FlagStepKeeps
       DEF ShowChannel, HideChannel, WindowGoes, LogStep, serverVars
<1>11. CASE UNCHANGED vars
  <2>1. /\ UNCHANGED <<log, serverPts, net, results, tooLong, box, request, reqPts, answer>>
        /\ UNCHANGED <<active, known, counted, base, losses, fails, views>>
    BY <1>11 DEF vars, serverVars, requestVars, historyVars, boundVars
  <2>2. EnvInv' /\ TravelOnce'
    BY <1>1, <2>1 DEF EnvInv, LogIsIntervals, Before, TravelOnce
  <2>3. BoxInv'
    BY <1>1, <2>1 DEF BoxInv, CountsMatch, QueueKept, QueueWaitsForGap, NoLostUpdate, Boundary,
         Covered, Before
  <2>4. RequestInv'
    BY <1>1, <2>1 DEF RequestInv, AnswerAhead, RequestMatchesBox, Boundary, Before
  <2> QED BY <2>1, <2>2, <2>3, <2>4, IInvPartsNext DEF Log!logVars
<1>12. CASE Environment
  BY <1>3, <1>4, <1>12, ServerAnswersKeeps DEF Environment, LogStep
<1>13. CASE Client
  <2>1. CASE \E u \in net, deadline \in Deadlines : ReceivePush(u, deadline)
    BY <2>1, ReceivePushKeeps DEF LogStep
  <2>2. CASE \E u \in results, deadline \in Deadlines : ReceiveResult(u, deadline)
    BY <2>2, ReceiveResultKeeps DEF LogStep
  <2>3. CASE \E pts \in 0..serverPts, deadline \in Deadlines : ReceiveHistory(pts, deadline)
    BY <2>3, ReceiveHistoryKeeps DEF LogStep
  <2>4. CASE DifferenceDone
    BY <2>4, DifferenceDoneKeeps DEF LogStep
  <2> QED BY <1>5, <1>6, <1>7, <1>8, <1>9, <1>10, <1>13, <2>1, <2>2, <2>3, <2>4 DEF Client
<1> QED BY <1>11, <1>12, <1>13 DEF Next

-----------------------------------------------------------------------------
(* The theorems. *)

\* IInv is an invariant of the channel, for all values of the constants.
THEOREM Invariance == Spec => []IInv
<1>1. Init => IInv
  BY InitHolds
<1>2. IInv /\ [Next]_vars => IInv'
  BY NextKeeps
<1> QED BY <1>1, <1>2, PTL DEF Spec

\* Types, and that the box refers to nothing the server did not make.
THEOREM TypeCorrect == Spec => []TypeOK
<1>1. IInv => TypeOK
  BY DEF IInv
<1> QED BY <1>1, Invariance, PTL

\* The channel's pts never passes an update that was not applied.
THEOREM NothingLost == Spec => []NoLostUpdate
<1>1. IInv => NoLostUpdate
  BY DEF IInv
<1> QED BY <1>1, Invariance, PTL

\* The count never passes the largest pts: the branch of check() for that
\* case is dead as long as every update is delivered once.
THEOREM NoOvercount == Spec => []NeverOvercounted
<1>1. IInv => NeverOvercounted
  <2>1. SUFFICES ASSUME IInv, ~box.requesting PROVE box.count <= box.last
    BY DEF NeverOvercounted
  <2>2. /\ EnvInv /\ BoxInv
    BY <2>1, IInvParts
  <2>3. /\ box.last \in Nat /\ box.count \in Nat /\ base \in Nat /\ box.good \in Nat
        /\ \A v \in counted : v.pts \in Nat /\ v.count \in Nat
    BY <2>2 DEF BoxInv, BoxType, EnvInv, Update
  <2>4. CASE Inited(box)
    <3>1. /\ base <= box.good /\ box.good <= box.last
          /\ box.count = base + Cardinality(Covered(counted))
          /\ \A u \in counted : base <= Before(u) /\ u.pts <= box.last
      BY <2>1, <2>2, <2>4 DEF BoxInv, CountsMatch
    <3>2. base <= box.last
      BY <2>3, <3>1
    <3>3. /\ Cardinality(Covered(counted)) \in Nat
          /\ Cardinality(Covered(counted)) <= box.last - base
      BY <2>3, <3>1, <3>2, CoveredBounds
    <3> QED BY <2>3, <3>1, <3>3
  <2>5. CASE ~Inited(box)
    <3>1. box.count = 0
      BY <2>2, <2>5 DEF BoxInv, CountsMatch
    <3> QED BY <2>3, <3>1
  <2> QED BY <2>4, <2>5
<1> QED BY <1>1, Invariance, PTL

\* The skipped queue is never left behind without a wait.
THEOREM QueueIsWaited == Spec => []QueueWaitsForGap
<1>1. IInv => QueueWaitsForGap
  BY DEF IInv
<1> QED BY <1>1, Invariance, PTL

\* A box is requesting exactly while a request is under way, and its answer
\* meets the state it was asked for.
THEOREM RequestMatches == Spec => []RequestMatchesBox
<1>1. IInv => RequestMatchesBox
  BY DEF IInv
<1> QED BY <1>1, Invariance, PTL

\* The channel implements the abstract log of updates.
THEOREM ImplementsLog == Spec => KeepsLog
<1>1. Init => Log!Init
  BY InitHolds
<1>2. IInv /\ [Next]_vars => [Log!Next]_Log!logVars
  BY NextKeeps DEF LogStep, Log!Next
<1> QED BY <1>1, <1>2, Invariance, PTL DEF Spec, KeepsLog, Log!Spec

-----------------------------------------------------------------------------
(* What is missing is waited for, what is shown is polled, and pushes take  *)
(* effect in order, whatever the step is, but for a response that carries a  *)
(* pts and meets a box in use: it counts as no points and ends the wait.     *)

\* Asking for the difference leaves a box that is asked for, or not in use.
LEMMA AskingWaits ==
    ASSUME NEW b \in BoxType(Nat, log), NEW byTimer \in BOOLEAN, QueueBelow(b),
           GetChannelDifference(b, byTimer)
    PROVE  /\ QueueBelow(box') /\ Waiting(box')
           /\ Inited(b) /\ b.waitShortPoll => Polling(box')
<1> DEFINE free == IF byTimer THEN b ELSE [b EXCEPT !.timer = FALSE]
<1>1. /\ free \in BoxType(Nat, log) /\ free.good = b.good /\ free.last = b.last
      /\ free.queue = b.queue /\ free.requesting = b.requesting
      /\ free.waitShortPoll = b.waitShortPoll
  BY DEF BoxType
<1>2. box' = IF MayRequest(b) THEN SetRequesting(free, TRUE) ELSE free
  BY DEF GetChannelDifference
<1> HIDE DEF free
<1>3. CASE MayRequest(b)
  <2>1. box'.requesting /\ box'.queue = {} /\ box'.waitShortPoll = b.waitShortPoll
    BY <1>1, <1>2, <1>3 DEF SetRequesting, BoxType
  <2> QED BY <2>1 DEF QueueBelow, Waiting, Polling
<1>4. CASE ~MayRequest(b)
  <2>1. ~Inited(free) \/ free.requesting
    BY <1>1, <1>4 DEF MayRequest, Inited
  <2>2. box' = free
    BY <1>2, <1>4
  <2> QED BY <1>1, <2>1, <2>2 DEF QueueBelow, Waiting, Polling, Inited
<1> QED BY <1>3, <1>4

\* The same of any step; `orderly' says that it is not a response with a pts
\* that meets a box in use.
WaitsKept(orderly) ==
    /\ QueueBelow(box')
    /\ orderly /\ Waiting(box) => Waiting(box')
    /\ Inited(box) /\ (active => Polling(box)) => (active' => Polling(box'))
    /\ orderly /\ ~box.requesting =>
          \A v \in (known' \ known) \ results : v.pts <= box'.good

\* Giving an update to the box.
LEMMA GiveWaits ==
    ASSUME IInv, NEW u, u.pts \in Nat, u.count \in Nat, NEW r, NEW kept, NEW extra,
           NEW points, extra \subseteq results, Outcome(box, u, r, kept), r.box \in BoxType(Nat, log),
           WellGiven(box, r, points), GiveToBox(u, r, extra), active' = active
    PROVE  WaitsKept(points)
<1>1. /\ box' = r.box /\ Account(u, r.applied \union extra)
      /\ QueueBelow(box') /\ (Polling(box) => Polling(box'))
      /\ points /\ Waiting(box) => Waiting(box')
  BY DEF GiveToBox, WellGiven
<1>2. ASSUME points, ~box.requesting, NEW v \in (known' \ known) \ results
      PROVE  v.pts <= box'.good
  <2>1. CASE v \in r.applied
    BY <1>1, <1>2, <2>1 DEF WellGiven
  <2>2. CASE v \notin r.applied
    <3>1. ~Old(box, u) /\ ~Inited(box) /\ v \in UpTo(u.pts)
      BY <1>1, <1>2, <2>2 DEF Account
    <3>2. v.pts <= u.pts
      BY <3>1 DEF UpTo
    <3>3. box'.good = u.pts
      BY <1>1, <1>2, <3>1 DEF Outcome
    <3> QED BY <3>2, <3>3
  <2> QED BY <2>1, <2>2
<1> QED BY <1>1, <1>2 DEF WaitsKept

LEMMA ReceivePushWaits ==
    ASSUME IInv, QueueBelow(box), NEW u \in net, NEW deadline \in Deadlines,
           ReceivePush(u, deadline)
    PROVE  WaitsKept(TRUE)
<1>1. EnvInv /\ BoxInv /\ RequestInv /\ TravelOnce
  BY IInvParts
<1>2. active' = active
  BY DEF ReceivePush
<1>3. CASE box.requesting
  <2>1. box' = box
    BY <1>3 DEF ReceivePush
  <2> QED BY <1>2, <1>3, <2>1 DEF WaitsKept
<1>4. CASE ~box.requesting
  <2> DEFINE r == UpdateAndApply(box, u, deadline)
  <2>1. box' = r.box /\ SendIfRequesting(r.box) /\ Account(u, r.applied)
        /\ log' = log /\ serverPts' = serverPts
    BY <1>4 DEF ReceivePush
  <2>2. u \in log /\ u \in [pts : Nat, count : Nat] /\ u.count > 0 /\ log \subseteq Update
    BY <1>1, LogGiven DEF EnvInv, TravelOnce
  <2>3. /\ box \in BoxType(Nat, log)
        /\ box.queue # {} => box.waitSkipped
        /\ ~Inited(box) => box.queue = {}
    BY <1>1, <1>4, QueueReady
  <2>4. r.box \in BoxType(Nat, log) /\ Outcome(box, u, r, {u})
    BY <2>2, <2>3, UpdateAndApplyOutcome
  <2>5. WellGiven(box, r, TRUE)
    BY <1>4, <2>2, <2>3, UpdateAndApplyWaits DEF Update
  <2> HIDE DEF r
  <2>6. r.applied \union {} = r.applied /\ {} \subseteq results
    OBVIOUS
  <2>7. GiveToBox(u, r, {})
    BY <2>1, <2>6 DEF GiveToBox
  <2>8. u.pts \in Nat /\ u.count \in Nat
    BY <2>2
  <2> DEFINE points == TRUE
  <2>9. WellGiven(box, r, points)
    BY <2>5
  <2>10. WaitsKept(points)
    <3> HIDE DEF points
    <3> QED BY <1>2, <2>4, <2>6, <2>7, <2>8, <2>9, GiveWaits
  <2> QED BY <2>10
<1> QED BY <1>3, <1>4

\* A result of the client's own request.
LEMMA ReceiveResultWaits ==
    ASSUME IInv, QueueBelow(box), NEW u \in results, NEW deadline \in Deadlines,
           ReceiveResult(u, deadline)
    PROVE  WaitsKept(TRUE)
<1> DEFINE r == UpdateAndApplyCount(box, u, deadline)
<1>1. EnvInv /\ BoxInv /\ RequestInv /\ TravelOnce
  BY IInvParts
<1>2. /\ GiveToBox(u, r, {u}) /\ active' = active
  BY DEF ReceiveResult, GiveToBox
<1>3. u \in log /\ u \in [pts : Nat, count : Nat] /\ u.count > 0 /\ log \subseteq Update
  BY <1>1, LogGiven DEF EnvInv, TravelOnce
<1>4. /\ box \in BoxType(Nat, log)
      /\ ~box.requesting /\ box.queue # {} => box.waitSkipped
      /\ ~box.requesting /\ ~Inited(box) => box.queue = {}
  BY <1>1, QueueReady
<1>5. r.box \in BoxType(Nat, log) /\ Outcome(box, u, r, {})
  BY <1>3, <1>4, UpdateAndApplyCountOutcome
<1>6. WellGiven(box, r, u.count > 0 \/ ~Inited(box) \/ box.requesting)
  BY <1>3, <1>4, UpdateAndApplyCountWaits DEF Update
<1> HIDE DEF r
<1>7. WellGiven(box, r, TRUE)
  BY <1>3, <1>6 DEF WellGiven
<1> QED BY <1>2, <1>3, <1>5, <1>7, GiveWaits

\* A response that carries a pts.
LEMMA ReceiveHistoryWaits ==
    ASSUME IInv, QueueBelow(box), NEW pts \in 0..serverPts, NEW deadline \in Deadlines,
           ReceiveHistory(pts, deadline)
    PROVE  WaitsKept(~PtsReceivedInUse)
<1> DEFINE u == [pts |-> pts, count |-> 0]
           r == UpdateAndApplyCount(box, u, deadline)
           points == u.count > 0 \/ ~Inited(box) \/ box.requesting
<1>1. EnvInv /\ BoxInv /\ RequestInv /\ TravelOnce
  BY IInvParts
<1>2. /\ box' = r.box /\ SendIfRequesting(r.box) /\ Account(u, r.applied)
      /\ log' = log /\ serverPts' = serverPts /\ active' = active
  BY DEF ReceiveHistory, serverVars
<1>3. u \in [pts : Nat, count : Nat] /\ log \subseteq Update
  BY <1>1 DEF EnvInv
<1>4. /\ box \in BoxType(Nat, log)
      /\ ~box.requesting /\ box.queue # {} => box.waitSkipped
      /\ ~box.requesting /\ ~Inited(box) => box.queue = {}
  BY <1>1, QueueReady
<1>5. r.box \in BoxType(Nat, log) /\ Outcome(box, u, r, {})
  BY <1>3, <1>4, UpdateAndApplyCountOutcome
<1>6. WellGiven(box, r, points)
  BY <1>3, <1>4, UpdateAndApplyCountWaits DEF Update
<1>7. r.applied \union {} = r.applied /\ {} \subseteq results
  OBVIOUS
<1> HIDE DEF r
<1>8. GiveToBox(u, r, {})
  BY <1>2, <1>7 DEF GiveToBox
<1>9. u.pts \in Nat /\ u.count \in Nat
  BY <1>3
<1> HIDE DEF u
<1>10. WaitsKept(points)
  <2> HIDE DEF points
  <2> QED BY <1>2, <1>5, <1>6, <1>7, <1>8, <1>9, GiveWaits
<1>11. ~PtsReceivedInUse => points
  BY DEF PtsReceivedInUse
<1> HIDE DEF points
<1> QED BY <1>10, <1>11 DEF WaitsKept

\* The answer: the box starts anew without a gap, and a shown channel is
\* polled next or asks on.
LEMMA DifferenceDoneWaits ==
    ASSUME IInv, DifferenceDone
    PROVE  WaitsKept(TRUE)
<1> DEFINE b == SetRequesting(InitPts(box, answer.pts), FALSE)
<1>1. BoxInv /\ RequestInv
  BY IInvParts
<1>2. box \in BoxType(Nat, log) /\ box.requesting /\ request = "answered" /\ active' = active
  BY <1>1 DEF DifferenceDone, BoxInv, RequestInv, RequestMatchesBox
<1>3. /\ answer.pts \in Nat /\ reqPts \in Nat /\ Inited(box) /\ box.good = reqPts
      /\ reqPts <= answer.pts
  BY <1>1, <1>2 DEF RequestInv, AnswerAhead, RequestMatchesBox, Answer
<1>4. /\ b \in BoxType(Nat, log) /\ b.good = answer.pts /\ b.last = answer.pts
      /\ b.count = answer.pts /\ b.queue = {} /\ ~b.requesting
      /\ b.waitShortPoll = box.waitShortPoll
  BY <1>2, <1>3 DEF SetRequesting, InitPts, BoxType
<1>5. Inited(b) /\ ~Gap(b) /\ QueueBelow(b)
  <2> HIDE DEF b
  <2> QED BY <1>3, <1>4 DEF Inited, Gap, QueueBelow
<1>6. CASE ~answer.final
  <2>1. GetChannelDifference(b, FALSE)
    BY <1>6 DEF DifferenceDone
  <2> HIDE DEF b
  <2>2. QueueBelow(box') /\ Waiting(box') /\ (b.waitShortPoll => Polling(box'))
    BY <1>4, <1>5, <2>1, AskingWaits
  <2>3. Polling(box) => Polling(box')
    BY <1>4, <2>2 DEF Polling
  <2> QED BY <1>2, <2>2, <2>3 DEF WaitsKept
<1>7. CASE answer.final
  <2>1. box' = IF active THEN StartWaitingForShortPoll(b) ELSE StopWaitingForShortPoll(b)
    BY <1>7 DEF DifferenceDone
  <2> HIDE DEF b
  <2>2. box'.queue = {} /\ box'.last = b.last /\ box'.count = b.count
    BY <1>4, <2>1 DEF StartWaitingForShortPoll, StopWaitingForShortPoll, CheckForWaiting, BoxType
  <2>3. active => Polling(box')
    BY <1>4, <2>1 DEF StartWaitingForShortPoll, Polling, BoxType
  <2>4. QueueBelow(box') /\ ~Gap(box')
    BY <1>5, <2>2 DEF QueueBelow, Gap
  <2> QED BY <1>2, <2>3, <2>4 DEF WaitsKept, Waiting
<1> QED BY <1>6, <1>7

\* A step that asks for the difference of a box in use, or leaves another.
LEMMA AskingStepWaits ==
    ASSUME IInv, QueueBelow(box), NEW b \in BoxType(Nat, log), NEW byTimer \in BOOLEAN,
           b.queue \subseteq box.queue, b.last = box.last, b.good = box.good,
           b.waitShortPoll = box.waitShortPoll,
           GetChannelDifference(b, byTimer), active' = active, known' = known
    PROVE  WaitsKept(TRUE)
<1>1. QueueBelow(b) /\ (Inited(b) <=> Inited(box))
  BY DEF QueueBelow, Inited
<1>2. /\ QueueBelow(box') /\ Waiting(box')
      /\ Inited(b) /\ b.waitShortPoll => Polling(box')
  BY <1>1, AskingWaits
<1>3. Inited(box) /\ Polling(box) => Polling(box')
  BY <1>1, <1>2 DEF Polling
<1> QED BY <1>2, <1>3 DEF WaitsKept

\* Showing and hiding the channel share the timer with the wait for a
\* missing update, which goes on; a window that goes leaves both.
LEMMA ShowHideWaits ==
    ASSUME IInv, QueueBelow(box), ShowChannel \/ HideChannel \/ WindowGoes
    PROVE  WaitsKept(TRUE)
<1>1. box \in BoxType(Nat, log)
  BY IInvParts DEF BoxInv
<1>2. known' = known
  BY DEF ShowChannel, HideChannel, WindowGoes
<1>3. CASE ShowChannel
  <2>1. box' = StartWaitingForShortPoll(box)
    BY <1>3 DEF ShowChannel
  <2>2. /\ box'.queue = box.queue /\ box'.last = box.last /\ box'.good = box.good
        /\ box'.count = box.count /\ box'.requesting = box.requesting
        /\ box'.timer /\ box'.waitShortPoll /\ box'.waitSkipped = box.waitSkipped
    BY <1>1, <2>1 DEF StartWaitingForShortPoll, BoxType
  <2> QED BY <1>2, <2>2 DEF WaitsKept, QueueBelow, Waiting, Polling, Inited, Gap
<1>4. CASE HideChannel
  <2>1. box' = StopWaitingForShortPoll(box) /\ ~active'
    BY <1>4 DEF HideChannel
  <2>2. /\ box'.queue = box.queue /\ box'.last = box.last /\ box'.good = box.good
        /\ box'.count = box.count /\ box'.requesting = box.requesting
        /\ box'.timer = (box.timer /\ box.waitSkipped) /\ box'.waitSkipped = box.waitSkipped
    BY <1>1, <2>1 DEF StopWaitingForShortPoll, CheckForWaiting, BoxType
  <2> QED BY <1>2, <2>1, <2>2 DEF WaitsKept, QueueBelow, Waiting, Inited, Gap
<1>5. CASE WindowGoes
  <2>1. box' = box /\ ~active'
    BY <1>5 DEF WindowGoes
  <2> QED BY <1>2, <2>1 DEF WaitsKept
<1> QED BY <1>3, <1>4, <1>5

\* Every step.
LEMMA NextWaits ==
    ASSUME IInv, QueueBelow(box), [Next]_vars
    PROVE  WaitsKept(~PtsReceivedInUse)
<1>1. BoxInv /\ RequestInv
  BY IInvParts
<1>2. box \in BoxType(Nat, log)
  BY <1>1 DEF BoxInv
<1>3. ASSUME WaitsKept(TRUE)
      PROVE  WaitsKept(~PtsReceivedInUse)
  BY <1>3 DEF WaitsKept
<1>4. ASSUME UNCHANGED <<box, active, known>>
      PROVE  WaitsKept(TRUE)
  BY <1>4 DEF WaitsKept
<1>5. CASE UNCHANGED vars
  BY <1>3, <1>4, <1>5 DEF vars
<1>6. CASE Environment
  <2>1. UNCHANGED <<box, active, known>>
    BY <1>6 DEF Environment, ServerPush, ServerResult, PushesLost, ServerAnswers
  <2> QED BY <1>3, <1>4, <2>1
<1>7. CASE (\E u \in net : PushNotLoaded(u)) \/ DifferenceFail
  <2>1. UNCHANGED <<box, active, known>>
    BY <1>7 DEF PushNotLoaded, DifferenceFail
  <2> QED BY <1>3, <1>4, <2>1
<1>8. CASE ReceiveTooLong
  <2>1. active' = active /\ known' = known
    BY <1>8 DEF ReceiveTooLong
  <2>2. CASE box.good < tooLong
    <3>1. GetChannelDifference(box, FALSE)
      BY <1>8, <2>2 DEF ReceiveTooLong
    <3> QED BY <1>2, <1>3, <2>1, <3>1, AskingStepWaits
  <2>3. CASE ~(box.good < tooLong)
    BY <1>3, <1>4, <1>8, <2>1, <2>3 DEF ReceiveTooLong
  <2> QED BY <2>2, <2>3
<1>9. CASE PtsTimer
  <2> DEFINE b == [box EXCEPT !.timer = FALSE]
  <2>1. active' = active /\ known' = known /\ GetChannelDifference(b, TRUE)
    BY <1>9 DEF PtsTimer
  <2>2. /\ b \in BoxType(Nat, log) /\ b.queue = box.queue /\ b.last = box.last
        /\ b.good = box.good /\ b.waitShortPoll = box.waitShortPoll
    BY <1>2 DEF BoxType
  <2> HIDE DEF b
  <2> QED BY <1>3, <2>1, <2>2, AskingStepWaits
<1>10. CASE AfterFailTimer
  <2> DEFINE b == SetRequesting(box, FALSE)
  <2>1. active' = active /\ known' = known /\ GetChannelDifference(b, FALSE)
    BY <1>10 DEF AfterFailTimer
  <2>2. /\ b \in BoxType(Nat, log) /\ b.queue = box.queue /\ b.last = box.last
        /\ b.good = box.good /\ b.waitShortPoll = box.waitShortPoll
    BY <1>2 DEF SetRequesting, BoxType
  <2> HIDE DEF b
  <2> QED BY <1>3, <2>1, <2>2, AskingStepWaits
<1>11. CASE Client
  BY <1>3, <1>7, <1>8, <1>9, <1>10, <1>11, ReceivePushWaits, ReceiveResultWaits,
     ReceiveHistoryWaits, DifferenceDoneWaits, ShowHideWaits DEF Client
<1> QED BY <1>5, <1>6, <1>11 DEF Next

\* Nothing is queued beyond the largest pts.
LEMMA QueueIsBelow == Spec => []QueueBelow(box)
<1>1. Init => QueueBelow(box)
  BY DEF Init, NewBox, InitPts, QueueBelow
<1>2. IInv /\ QueueBelow(box) /\ [Next]_vars => QueueBelow(box)'
  BY NextWaits DEF WaitsKept, QueueBelow
<1> QED BY <1>1, <1>2, Invariance, PTL DEF Spec

\* Nothing but a response that carries a pts ends the wait for a missing update
\* before it has come or the difference is requested: hiding the channel, late
\* answers, refused requests and deadlines that are over at once do not.
THEOREM GapIsWaited == Spec => GapWaits
<1>1. IInv /\ QueueBelow(box) /\ [Next]_vars
      => [GivenUp(box') => GivenUp(box) \/ PtsReceivedInUse]_vars
  BY NextWaits DEF WaitsKept, Waiting, GivenUp
<1> QED BY <1>1, Invariance, QueueIsBelow, PTL DEF Spec, GapWaits

\* A pushed update takes effect after all before it, whatever arrives late,
\* is lost or comes in an answer, and also once the wait for a missing one was
\* given up; only the response that ends the wait applies what is behind it.
THEOREM PushesInOrder == Spec => PushedInOrder
<1>1. ASSUME IInv, IInv', QueueBelow(box), [Next]_vars, ~box.requesting, ~PtsReceivedInUse,
             NEW u \in (known' \ known) \ results
      PROVE  UpTo(u.pts) \subseteq known'
  <2>1. u.pts <= box'.good
    BY <1>1, NextWaits DEF WaitsKept
  <2>2. log \subseteq log'
    BY <1>1, NextKeeps DEF LogStep, Log!Learn, Log!Make, Log!logVars
  <2>3. u.pts \in Nat /\ box'.good \in Nat /\ \A v \in log : v.pts \in Nat
    BY <1>1 DEF IInv, TypeOK, Update, BoxType
  <2>4. \A v \in log' : v.pts <= box'.good => v \in known'
    BY <1>1 DEF IInv, NoLostUpdate
  <2> QED BY <2>1, <2>2, <2>3, <2>4 DEF UpTo
<1>2. IInv /\ IInv' /\ QueueBelow(box) /\ [Next]_vars
      => [~box.requesting /\ ~PtsReceivedInUse =>
            \A u \in (known' \ known) \ results : UpTo(u.pts) \subseteq known']_vars
  BY <1>1
<1> QED BY <1>2, Invariance, QueueIsBelow, PTL DEF Spec, PushedInOrder

\* The poll of a shown channel whose pts is known goes on: whatever ends a wait
\* leaves it, and a refused request cannot take its place.
THEOREM ShownStaysPolled == Spec => PollGoesOn
<1>1. IInv /\ QueueBelow(box) /\ [Next]_vars
      => [active' /\ ~Polled(box') => (active /\ ~Polled(box)) \/ ~Inited(box)]_vars
  BY NextWaits DEF WaitsKept, Polling, Polled
<1> QED BY <1>1, Invariance, QueueIsBelow, PTL DEF Spec, PollGoesOn

\* So a channel whose pts is known from the start is polled whenever it is shown.
THEOREM ShownIsAlwaysPolled == InitialPts > 0 => (Spec => []ShownIsPolled)
<1> DEFINE Shown == (active => Polling(box)) /\ Inited(box)
<1> SUFFICES ASSUME InitialPts > 0 PROVE Spec => []ShownIsPolled
  OBVIOUS
<1>1. Init => Shown
  <2>1. InitialPts # 0 /\ InitialPts \in Nat
    BY BoundsAssumption
  <2> QED BY <2>1 DEF Init, NewBox, InitPts, Inited
<1>2. IInv /\ QueueBelow(box) /\ Shown /\ [Next]_vars => Shown'
  <2> SUFFICES ASSUME IInv, QueueBelow(box), Shown, [Next]_vars PROVE Shown'
    OBVIOUS
  <2>1. active' => Polling(box')
    BY NextWaits DEF WaitsKept
  <2>2. box'.good >= box.good /\ box.good \in Nat /\ box'.good \in Nat
    <3>1. IInv' /\ (LogStep \/ UNCHANGED Log!logVars)
      BY NextKeeps
    <3>2. box.good \in Nat /\ box'.good \in Nat
      BY <3>1 DEF IInv, TypeOK, BoxType
    <3> QED BY <3>1, <3>2 DEF LogStep, Log!Learn, Log!Make, Log!logVars
  <2>3. Inited(box')
    BY <2>2 DEF Inited
  <2> QED BY <2>1, <2>3 DEF Polling, Inited
<1>3. Shown => ShownIsPolled
  BY DEF ShownIsPolled, Polling, Polled
<1> QED BY <1>1, <1>2, <1>3, Invariance, QueueIsBelow, PTL DEF Spec
=============================================================================
