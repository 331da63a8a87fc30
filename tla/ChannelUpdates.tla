--------------------------- MODULE ChannelUpdates ---------------------------
(***************************************************************************)
(* One channel's update state: the channel's PtsWaiter, the requests of    *)
(* Api::Updates for its difference (updates.getChannelDifference), the     *)
(* timers that send them, and everything that can reach the box: pushed    *)
(* updates, results of this client's own requests, history responses that  *)
(* carry a pts, `channel too long' notices and the short poll of a shown   *)
(* channel.                                                                *)
(*                                                                         *)
(* The server and the network are the environment.  The server's history   *)
(* of the channel is the set `log' of updates, consecutive intervals of    *)
(* its counter.  Every update travels at most once, as a push (`net') or   *)
(* inside a result (`results').  A push can be lost to the channel: while  *)
(* the account's own difference is requested Api::Updates ignores pushes,  *)
(* and a new session of the server drops them.  The account's difference   *)
(* then names the channel in a `too long' notice, `tooLong'.               *)
(***************************************************************************)
EXTENDS Integers, FiniteSets, PtsWaiter

CONSTANTS
    InitialPts,   \* the channel's pts when the model starts; 0: unknown
    MaxPts,       \* bound: where the server stops producing updates
    Counts,       \* the pts_count values of updates
    MaxLosses,    \* bound: how often the pushes in flight are lost
    SilentLosses, \* whether they can be lost without any notice
    MaxFails,     \* bound: how many difference requests fail
    MaxViews,     \* bound: how often the user opens the channel
    Ordered       \* whether the server's messages arrive in sending order

ASSUME BoundsAssumption ==
    /\ InitialPts \in Nat /\ MaxPts \in Nat
    /\ Counts \subseteq Nat \ {0}
    /\ MaxLosses \in Nat /\ MaxFails \in Nat /\ MaxViews \in Nat
    /\ SilentLosses \in BOOLEAN /\ Ordered \in BOOLEAN

VARIABLES
    log,        \* updates the server has made since the start
    serverPts,  \* the server's pts of the channel
    net,        \* pushed updates on their way
    results,    \* updates inside results of this client's requests, on their way
    tooLong,    \* a `channel too long' notice on its way: its pts, or 0
    box,        \* the channel's PtsWaiter
    request,    \* getChannelDifference: "none", "sent", "answered" or "failed"
    reqPts,     \* the pts that request was sent with
    answer,     \* what the server answered to it
    active,     \* the channel is in _activeChats
    known,      \* history variable: updates whose effect the client has
    counted,    \* history variable: updates counted since the last init()
    base,       \* history variable: the pts of the last init()
    losses, fails, views \* how much of the bounds is used

serverVars == <<log, serverPts, net, results, tooLong>>
requestVars == <<request, reqPts, answer>>
historyVars == <<counted, base>>
boundVars == <<losses, fails, views>>
vars == <<serverVars, box, requestVars, active, known, historyVars, boundVars>>

Update == [pts : Nat, count : Nat]
Answer == [pts : Nat, final : BOOLEAN, reload : BOOLEAN]
NoAnswer == [pts |-> 0, final |-> TRUE, reload |-> FALSE]

Init ==
    /\ log = {} /\ serverPts = InitialPts
    /\ net = {} /\ results = {} /\ tooLong = 0
    /\ box = IF InitialPts = 0 THEN NewBox ELSE InitPts(NewBox, InitialPts)
    /\ request = "none" /\ reqPts = 0 /\ answer = NoAnswer
    /\ active = FALSE
    /\ known = {} /\ counted = {} /\ base = InitialPts
    /\ losses = 0 /\ fails = 0 /\ views = 0

-----------------------------------------------------------------------------
(* The client: pieces of the handlers. *)

UpTo(pts) == {u \in log : u.pts <= pts}

\* getChannelDifference() of a box that is free to ask; otherwise it returns.
MayRequest(b) == Inited(b) /\ ~b.requesting

\* The request that goes with a box turning from free to requesting, if it
\* did, sent with the pts the box had reached.
SendIfRequesting(b) ==
    IF b.requesting /\ ~box.requesting
    THEN request' = "sent" /\ reqPts' = b.good /\ answer' = NoAnswer
    ELSE UNCHANGED requestVars

GetChannelDifference(b, byTimer) ==
    LET free == IF byTimer THEN b ELSE [b EXCEPT !.timer = FALSE] IN
    IF MayRequest(b)
    THEN /\ box' = SetRequesting(free, TRUE)
         /\ request' = "sent" /\ reqPts' = b.good /\ answer' = NoAnswer
    ELSE box' = free /\ UNCHANGED requestVars

\* The history variables after the box was given u: an update is counted
\* unless the box is requesting or past it; the first one ever inits the box,
\* which has no earlier state to have missed anything of.
Account(u, applied) ==
    IF box.requesting \/ Old(box, u)
    THEN known' = known \union applied /\ UNCHANGED historyVars
    ELSE IF Inited(box)
    THEN known' = known \union applied /\ counted' = counted \union ({u} \intersect log) /\ base' = base
    ELSE known' = known \union applied \union UpTo(u.pts) /\ counted' = {} /\ base' = u.pts

-----------------------------------------------------------------------------
(* The server and the network. *)

Made(c) == [pts |-> serverPts + c, count |-> c]

ServerMakes(c) ==
    /\ c \in Counts /\ serverPts + c <= MaxPts
    /\ log' = log \union {Made(c)} /\ serverPts' = serverPts + c

\* The server changes the channel and pushes the update.
ServerPush(c) ==
    /\ ServerMakes(c)
    /\ net' = net \union {Made(c)}
    /\ UNCHANGED <<results, tooLong, box, requestVars, active, known, historyVars, boundVars>>

\* A request of this client changed the channel: the result has the update.
ServerResult(c) ==
    /\ ServerMakes(c)
    /\ results' = results \union {Made(c)}
    /\ UNCHANGED <<net, tooLong, box, requestVars, active, known, historyVars, boundVars>>

\* The pushes in flight are ignored or dropped; the account's difference
\* reports the channel instead, if it was the client that lost them.
PushesLost ==
    /\ net # {} /\ losses < MaxLosses
    /\ net' = {}
    /\ \/ tooLong' = serverPts
       \/ SilentLosses /\ UNCHANGED tooLong
    /\ losses' = losses + 1
    /\ UNCHANGED <<log, serverPts, results, box, requestVars, active, known, historyVars, fails, views>>

\* The server answers: nothing new, the updates up to some pts, or a reload
\* of the channel, which is always up to date.
ServerAnswers(a) ==
    /\ request = "sent"
    /\ a \in Answer
    /\ a.pts \in {u.pts : u \in log} \union {serverPts}
    /\ a.pts >= reqPts
    /\ a.pts = reqPts => a.pts = serverPts
    /\ a.final = (a.pts = serverPts)
    /\ a.reload => a.final
    /\ request' = "answered" /\ answer' = a
    /\ UNCHANGED <<serverVars, box, reqPts, active, known, historyVars, boundVars>>

-----------------------------------------------------------------------------
(* The client. *)

\* In an ordered network everything sent before this message has arrived.
ArrivesInOrder(pts) ==
    Ordered => /\ \A u \in net : u.pts >= pts
               /\ request = "answered" => answer.pts >= pts
               /\ tooLong # 0 => tooLong >= pts

\* A pushed update: feedUpdate() skips it while the difference is requested.
ReceivePush(u, deadline) ==
    /\ u \in net /\ ArrivesInOrder(u.pts)
    /\ net' = net \ {u}
    /\ IF box.requesting
       THEN UNCHANGED <<box, requestVars, known, historyVars>>
       ELSE LET r == UpdateAndApply(box, u, deadline)
            IN  /\ box' = r.box
                /\ SendIfRequesting(r.box)
                /\ Account(u, r.applied)
    /\ UNCHANGED <<log, serverPts, results, tooLong, active, boundVars>>

\* feedUpdate() does not know the author of a pushed message: the update is
\* left to the account's difference, asked for after a second, which reports
\* the channel.
PushNotLoaded(u) ==
    /\ u \in net /\ ArrivesInOrder(u.pts) /\ losses < MaxLosses
    /\ net' = net \ {u} /\ tooLong' = serverPts
    /\ losses' = losses + 1
    /\ UNCHANGED <<log, serverPts, results, box, requestVars, active, known, historyVars, fails, views>>

\* applyAffectedHistory() and applyAffectedMessages(): the caller has made
\* the change itself and hands the box only pts and count.
ReceiveResult(u, deadline) ==
    /\ u \in results
    /\ results' = results \ {u}
    /\ LET r == UpdateAndApplyCount(box, u, deadline)
       IN  /\ box' = r.box
           /\ SendIfRequesting(r.box)
           /\ Account(u, r.applied \union {u})
    /\ UNCHANGED <<log, serverPts, net, tooLong, active, boundVars>>

\* ptsReceived(): a response with messages of the channel carries the pts
\* at which the server made it, and counts as an update of zero points.  The
\* first of them makes the pts known; a later one that meets a gap ends the
\* wait for the missing update.
ReceiveHistory(pts, deadline) ==
    /\ pts \in {v.pts : v \in log} \union {InitialPts} /\ pts > 0
    /\ LET u == [pts |-> pts, count |-> 0]
           r == UpdateAndApplyCount(box, u, deadline)
       IN  /\ box' = r.box
           /\ SendIfRequesting(r.box)
           /\ Account(u, r.applied)
    /\ UNCHANGED <<serverVars, active, boundVars>>

\* updateChannelTooLong.
ReceiveTooLong ==
    /\ tooLong # 0 /\ ArrivesInOrder(tooLong)
    /\ tooLong' = 0
    /\ IF box.good < tooLong
       THEN GetChannelDifference(box, FALSE)
       ELSE UNCHANGED <<box, requestVars>>
    /\ UNCHANGED <<log, serverPts, net, results, active, known, historyVars, boundVars>>

\* getDifferenceByPts() when the channel's deadline has passed.
PtsTimer ==
    /\ box.timer
    /\ GetChannelDifference([box EXCEPT !.timer = FALSE], TRUE)
    /\ UNCHANGED <<serverVars, active, known, historyVars, boundVars>>

\* Faulty variant: the last answer does not start the next short poll.
DifferenceDoneNoPoll ==
    /\ request = "answered"
    /\ Ordered => \A u \in net : u.pts > answer.pts
    /\ LET b == SetRequesting(InitPts(box, answer.pts), FALSE)
       IN  IF ~answer.final
           THEN GetChannelDifference(b, FALSE)
           ELSE /\ box' = StopWaitingForShortPoll(b)
                /\ request' = "none" /\ reqPts' = 0 /\ answer' = NoAnswer
    /\ known' = known \union UpTo(answer.pts)
    /\ counted' = {} /\ base' = answer.pts
    /\ UNCHANGED <<serverVars, active, boundVars>>

\* channelDifferenceDone(): apply, init, and either ask on or wait for the
\* next short poll.
DifferenceDone ==
    /\ request = "answered"
    /\ Ordered => \A u \in net : u.pts > answer.pts
    /\ LET b == SetRequesting(InitPts(box, answer.pts), FALSE)
       IN  IF ~answer.final
           THEN GetChannelDifference(b, FALSE)
           ELSE /\ box' = IF active THEN StartWaitingForShortPoll(b)
                                    ELSE StopWaitingForShortPoll(b)
                /\ request' = "none" /\ reqPts' = 0 /\ answer' = NoAnswer
    /\ known' = known \union UpTo(answer.pts)
    /\ counted' = {} /\ base' = answer.pts
    /\ UNCHANGED <<serverVars, active, boundVars>>

\* channelDifferenceFail(): a timer with a growing delay is started.
DifferenceFail ==
    /\ request = "sent" /\ fails < MaxFails
    /\ request' = "failed" /\ fails' = fails + 1
    /\ UNCHANGED <<serverVars, box, reqPts, answer, active, known, historyVars, losses, views>>

\* Faulty variant: the box is released and nothing is asked again.
AfterFailTimerGivesUp ==
    /\ request = "failed"
    /\ box' = SetRequesting(box, FALSE)
    /\ request' = "none" /\ UNCHANGED <<reqPts, answer>>
    /\ UNCHANGED <<serverVars, active, known, historyVars, boundVars>>

\* Faulty variant: the box is not released, so that the request is refused.
AfterFailTimerRequesting ==
    /\ request = "failed"
    /\ GetChannelDifference(box, FALSE)
    /\ UNCHANGED <<serverVars, active, known, historyVars, boundVars>>

\* getDifferenceAfterFail(): the box is released only to ask again.
AfterFailTimer ==
    /\ request = "failed"
    /\ GetChannelDifference(SetRequesting(box, FALSE), FALSE)
    /\ UNCHANGED <<serverVars, active, known, historyVars, boundVars>>

\* addActiveChat(): the channel becomes the shown one, or stops being it.
ShowChannel ==
    /\ ~active /\ views < MaxViews
    /\ active' = TRUE /\ views' = views + 1
    /\ box' = StartWaitingForShortPoll(box)
    /\ UNCHANGED <<serverVars, requestVars, known, historyVars, losses, fails>>

HideChannel ==
    /\ active
    /\ active' = FALSE
    /\ box' = StopWaitingForShortPoll(box)
    /\ UNCHANGED <<serverVars, requestVars, known, historyVars, boundVars>>

\* The window that shows the channel goes away: its entry is erased, and the
\* short poll that is ahead is left to run once more.
WindowGoes ==
    /\ active
    /\ active' = FALSE
    /\ UNCHANGED <<serverVars, box, requestVars, known, historyVars, boundVars>>

-----------------------------------------------------------------------------

Environment ==
    \/ \E c \in Counts : ServerPush(c) \/ ServerResult(c)
    \/ PushesLost
    \/ \E a \in [pts : 0..serverPts, final : BOOLEAN, reload : BOOLEAN] : ServerAnswers(a)

Client ==
    \/ \E u \in net, deadline \in Deadlines : ReceivePush(u, deadline)
    \/ \E u \in net : PushNotLoaded(u)
    \/ \E u \in results, deadline \in Deadlines : ReceiveResult(u, deadline)
    \/ \E pts \in 0..serverPts, deadline \in Deadlines : ReceiveHistory(pts, deadline)
    \/ ReceiveTooLong \/ PtsTimer
    \/ DifferenceDone \/ DifferenceFail \/ AfterFailTimer
    \/ ShowChannel \/ HideChannel \/ WindowGoes

Next == Environment \/ Client

Spec == Init /\ [][Next]_vars

\* The server answers, messages arrive and timers expire; nothing says that
\* the user acts, that the server makes updates or that requests fail.
Fairness ==
    /\ WF_vars(\E a \in [pts : 0..serverPts, final : BOOLEAN, reload : BOOLEAN] : ServerAnswers(a))
    /\ WF_vars(\E u \in net : ReceivePush(u, "ahead"))
    /\ WF_vars(\E u \in results : ReceiveResult(u, "ahead"))
    /\ WF_vars(ReceiveTooLong)
    /\ WF_vars(PtsTimer)
    /\ WF_vars(DifferenceDone)
    /\ WF_vars(AfterFailTimer)

FairSpec == Spec /\ Fairness

-----------------------------------------------------------------------------
(* Properties. *)

\* Every variable has its type; the box refers to updates the server made.
TypeOK ==
    /\ log \subseteq Update /\ serverPts \in Nat
    /\ net \subseteq log /\ results \subseteq log /\ tooLong \in Nat
    /\ box \in BoxType(Nat, log) /\ box.good <= serverPts /\ box.last <= serverPts
    /\ request \in {"none", "sent", "answered", "failed"}
    /\ reqPts \in Nat /\ answer \in Answer
    /\ active \in BOOLEAN
    /\ known \subseteq log /\ counted \subseteq log /\ base \in Nat
    /\ losses \in Nat /\ fails \in Nat /\ views \in Nat

\* The pts the client claims to have reached, and asks the next difference
\* from, never passes an update it has not applied: such an update would not
\* be sent to it again.  It can go wrong in every method of PtsWaiter, and in
\* what init() does to the queue when an answer meets pushed updates.
NoLostUpdate == \A u \in log : u.pts <= box.good => u \in known

\* While nothing is requested the sum of the counts never passes the largest
\* pts: check()'s branch for that (a wait of 1 ms) is dead as long as every
\* update is delivered at most once.
NeverOvercounted == ~box.requesting => box.count <= box.last

\* A difference is awaited exactly while the box is marked as requesting,
\* and its answer meets the state it was asked for.
RequestMatchesBox ==
    /\ box.requesting <=> request # "none"
    /\ box.requesting => reqPts = box.good

\* An update waits in the skipped queue only while one before it is missing
\* and the box is waiting for it.
QueueWaitsForGap ==
    box.queue # {} /\ ~box.requesting => Gap(box) /\ box.waitSkipped

\* A response with a pts reaches a box that is in use.
PtsReceivedInUse ==
    /\ Inited(box) /\ ~box.requesting
    /\ \E pts \in 0..serverPts, deadline \in Deadlines : ReceiveHistory(pts, deadline)

\* An update is missing, and neither is the box waiting for it, with the timer
\* that asks for the difference, nor is the difference requested.
GivenUp(b) == Inited(b) /\ Gap(b) /\ ~b.requesting /\ ~(b.timer /\ b.waitSkipped)

\* data_pts_waiter.h: "1s wait for skipped seq or pts in updates."  The wait for
\* a missing update ends only when the update has come or the difference is
\* requested, or, which the comment does not say, with a response that carries a
\* pts: it applies the queue behind the gap, and nobody asks for the difference.
\* No push, result, notice, refused or failed request, and neither showing nor
\* hiding the channel, which share the timer, makes the client give it up.
GapWaits == [][GivenUp(box') => GivenUp(box) \/ PtsReceivedInUse]_vars

\* An update pushed to the client takes effect after all updates before it, also
\* after a wait that was given up; only the response that ends the wait applies
\* what is queued behind the gap.  (One that comes in a result of the client's own
\* request is applied at once, and while the difference is requested order is
\* given up.)
PushedInOrder ==
    [][~box.requesting /\ ~PtsReceivedInUse =>
          \A u \in (known' \ known) \ results : UpTo(u.pts) \subseteq known']_vars

\* api_updates.cpp: "1s wait after show channel history before sending
\* getChannelDifference."  The shown channel has its next poll ahead of it or the
\* difference requested.
Polled(b) == b.waitShortPoll /\ (b.timer \/ b.requesting)
ShownIsPolled == active /\ Inited(box) => Polled(box)

\* Nothing that happens to a channel whose pts is known takes its poll away while
\* it is shown.  (One that was shown before has it refused once and for all by
\* the timer or a `too long' notice.)
PollGoesOn == [][active' /\ ~Polled(box') => (active /\ ~Polled(box)) \/ ~Inited(box)]_vars

\* data_pts_waiter.h: "1s wait for skipped seq or pts in updates."  A missing
\* update that is waited for does not stay missing, even if the server never
\* sends it again: it arrives late, or the wait ends and the difference brings
\* it, unless a response makes the client give it up.
GapCloses == (Inited(box) /\ Gap(box)) ~> (~Gap(box) \/ GivenUp(box))

\* Every update the server makes reaches the client in the end, through
\* losses, failed requests and answers in slices.
CatchesUp == []<>(log \subseteq known)

\* The channel keeps the promise of UpdateLog: the server's log only grows,
\* what the client knows comes from it and is never forgotten, and the pts
\* claimed rises over known updates only.
Log == INSTANCE UpdateLog WITH claimed <- box.good
KeepsLog == Log!Spec

-----------------------------------------------------------------------------
(* The inductive invariant behind NoLostUpdate.  Updates stand for disjoint *)
(* intervals of the server's counter, so the count of a box without request *)
(* is the number of points covered since the last init(); when it equals    *)
(* the largest pts, every point up to there is covered, and every covered   *)
(* update is known or in the queue that is applied at that moment.          *)

LogIsIntervals ==
    /\ InitialPts <= serverPts
    /\ \A u \in log : u.count > 0 /\ InitialPts <= Before(u) /\ u.pts <= serverPts
    /\ \A u, v \in log : u = v \/ u.pts <= Before(v) \/ v.pts <= Before(u)

\* No update of the log straddles pts.
Boundary(pts) == \A u \in log : u.pts <= pts \/ pts <= Before(u)

TravelOnce ==
    /\ net \intersect results = {}
    /\ counted \intersect (net \union results) = {}

CountsMatch ==
    /\ ~Inited(box) => box.count = 0
    /\ ~box.requesting /\ Inited(box) =>
          /\ base <= box.good /\ box.good <= box.last
          /\ box.count = base + Cardinality(Covered(counted))
          /\ \A u \in counted : base <= Before(u) /\ u.pts <= box.last

QueueKept ==
    ~box.requesting =>
       /\ counted \subseteq known \union box.queue
       /\ ~Inited(box) => box.queue = {}

AnswerAhead ==
    /\ box.requesting => Inited(box)
    /\ request = "answered" =>
          reqPts <= answer.pts /\ answer.pts <= serverPts /\ Boundary(answer.pts)

IInv ==
    /\ TypeOK /\ LogIsIntervals /\ TravelOnce /\ Boundary(base) /\ base <= serverPts
    /\ CountsMatch /\ QueueKept /\ QueueWaitsForGap /\ AnswerAhead /\ RequestMatchesBox /\ NoLostUpdate
=============================================================================
