------------------------------ MODULE Updates ------------------------------
(***************************************************************************)
(* Api::Updates: the account's own stream of updates.  Two orders are kept *)
(* at once.  Updates with a pts go through the account's PtsWaiter;        *)
(* containers of updates carry a seq number, and one that comes before its *)
(* turn waits in _bySeqUpdates.  Whatever goes wrong is repaired by asking *)
(* for the difference (updates.getDifference), which the two waiters, the  *)
(* timer of a skipped channel message, a new session of the server,        *)
(* updatesTooLong, a message of an unknown author and a failed request all *)
(* do.  While it is requested pushed containers are ignored.               *)
(*                                                                         *)
(* The client's state is the record `client', and a handler an operator    *)
(* from such a record to the next: handlers call one another.  The server  *)
(* stamps what it makes with a date, here the number of its events.  A     *)
(* container is [date, short, first, last, pushed, skips]: whether it is a *)
(* short message; its seq numbers first..last, or 0 if it has none; the    *)
(* updates with a pts in it; whether it holds a channel message whose      *)
(* channel or author the client does not know.  The account's PtsWaiter is *)
(* that of module PtsWaiter, channels have theirs in module                *)
(* ChannelUpdates.                                                         *)
(***************************************************************************)
EXTENDS Integers, FiniteSets, FiniteSetsExt, Folds, PtsWaiter

CONSTANTS
    InitialPts,   \* the account's pts when the client asks for the state
    MaxEvents,    \* bound: how many containers and results the server makes
    Counts,       \* the pts_count values of updates
    SeqKinds,     \* kinds of containers with a seq: see Kinds below
    PlainKinds,   \* kinds of containers without one
    Results,      \* bound: how many of them are results of own requests
    MaxLosses,    \* bound: how often pushes are lost
    SilentLosses, \* whether a push can be lost without any notice
    MaxFails,     \* bound: how many difference requests fail
    Ordered       \* whether the server's messages arrive in sending order

\* A container with an update with a pts, one with an effect without a pts, one
\* with a channel message of an unknown author; among those with a seq number a
\* combined one of two numbers, among the others a short message with a pts.
Kinds == {"update", "effect", "skips", "combined", "short"}

ASSUME BoundsAssumption ==
    /\ InitialPts \in Nat \ {0} /\ MaxEvents \in Nat /\ Results \in Nat
    /\ Counts \subseteq Nat \ {0}
    /\ SeqKinds \subseteq Kinds \ {"short"} /\ PlainKinds \subseteq Kinds \ {"combined"}
    /\ MaxLosses \in Nat /\ MaxFails \in Nat
    /\ SilentLosses \in BOOLEAN /\ Ordered \in BOOLEAN

VARIABLES
    log,       \* updates with a pts the server has made
    sent,      \* containers with a seq number of the server's session
    serverPts, \* the server's pts of the account
    serverSeq, \* the last seq number of the server's session
    clock,     \* the date of the server's last event
    net,       \* pushed containers on their way
    results,   \* updates inside results of this client's requests
    notice,    \* "new session" or "too long" on its way, with its date
    answer,    \* the server's answer to the request for state or difference
    client,    \* the state of Api::Updates
    losses, fails, made \* how much of the bounds is used

serverVars == <<log, sent, serverPts, serverSeq, clock>>
wireVars == <<net, results, notice, answer>>
boundVars == <<losses, fails, made>>
vars == <<serverVars, wireVars, client, boundVars>>

NoNotice == [what |-> "none", date |-> 0]
NoAnswer == [pts |-> 0, seq |-> 0, date |-> 0, final |-> TRUE]
NoRequest == [state |-> "none", pts |-> 0, date |-> 0]

\* The constructor: the box is requesting from the start, until the state
\* has been received.
NewClient ==
    [box       |-> SetRequesting(NewBox, TRUE),
     seq       |-> 0,       \* _updatesSeq
     date      |-> 0,       \* _updatesDate
     queue     |-> {},      \* _bySeqUpdates
     seqTimer  |-> FALSE,   \* _bySeqTimer
     minTimer  |-> FALSE,   \* _byMinChannelTimer
     request   |-> [NoRequest EXCEPT !.state = "sent"],
     known     |-> {},      \* history: updates with a pts the client has
     seen      |-> {},      \* history: containers with a seq it has
     skipped   |-> {}]      \* history: dates of skipped channel messages

Init ==
    /\ log = {} /\ sent = {}
    /\ serverPts = InitialPts /\ serverSeq = 0 /\ clock = 0
    /\ net = {} /\ results = {} /\ notice = NoNotice /\ answer = NoAnswer
    /\ client = NewClient
    /\ losses = 0 /\ fails = 0 /\ made = 0

-----------------------------------------------------------------------------
(* The client's handlers. *)

\* What getDifference() does once it finds the box free.
Request(s) ==
    [s EXCEPT !.box = SetRequesting([@ EXCEPT !.timer = FALSE], TRUE),
              !.queue = {}, !.seqTimer = FALSE,
              !.request = [state |-> "sent", pts |-> s.box.good, date |-> s.date]]

GetDifference(s) ==
    IF s.box.requesting THEN [s EXCEPT !.box.timer = FALSE] ELSE Request(s)

\* After the box was given an update; a deadline that was over at once has
\* made it ask for the difference.
Given(s, r) ==
    LET t == [s EXCEPT !.box = r.box, !.known = @ \union r.applied]
    IN  IF r.box.requesting /\ ~s.box.requesting
        THEN [t EXCEPT !.queue = {}, !.seqTimer = FALSE,
                       !.request = [state |-> "sent", pts |-> r.box.good, date |-> s.date]]
        ELSE t

\* feedUpdate() of an update with a pts.
FeedUpdate(s, u, loaded, deadline) ==
    IF ~s.box.requesting /\ ~loaded THEN GetDifference(s)
    ELSE Given(s, UpdateAndApply(s.box, u, deadline))

\* feedUpdate() of the channel message: left to the difference.
FeedSkipped(s, date) ==
    IF s.box.requesting THEN s
    ELSE [s EXCEPT !.minTimer = TRUE, !.skipped = @ \union {date}]

\* feedUpdateVector().
FeedVector(s, c, loaded, deadline) ==
    LET Feed(u, t) == FeedUpdate(t, u, loaded, deadline)
        t == FoldSet(Feed, s, c.pushed)
    IN  IF c.skips THEN FeedSkipped(t, c.date) ELSE t

\* Faulty variant: the date moves past a skipped message.
SetDateAlways(s, date) == IF s.date < date THEN [s EXCEPT !.date = date] ELSE s

\* setState(), its date: held back while a skipped message is not asked for.
SetDate(s, date) ==
    IF s.date < date /\ ~s.minTimer THEN [s EXCEPT !.date = date] ELSE s

\* applyUpdates() of a container, up to the seq number: also the whole of it for
\* one without.
ApplyVector(s, c, bad, deadline) ==
    SetDate(FeedVector(s, c, c \notin bad, deadline), c.date)

\* applyUpdates() of a container whose turn it is.
ApplyInTurn(s, c, bad, deadline) ==
    LET t == ApplyVector(s, c, bad, deadline)
    IN  [t EXCEPT !.seq = c.last, !.seen = @ \union {c}]

\* setState(), its seq number, after it has changed: the containers that
\* waited for it are applied as far as they follow on each other, those of
\* the smaller numbers first.
Last(S) == CHOOSE c \in S : \A d \in S : d.first <= c.first

\* Faulty variant: all that wait are applied, also after a hole.
TakeAlways(c, t, bad, deadline) ==
    IF c \notin t.queue THEN t
    ELSE ApplyInTurn([t EXCEPT !.queue = @ \ {c}], c, bad, deadline)

Take(c, t, bad, deadline) ==
    IF c \notin t.queue THEN t
    ELSE IF c.first <= t.seq THEN [t EXCEPT !.queue = @ \ {c}]
    ELSE IF c.first = t.seq + 1
         THEN ApplyInTurn([t EXCEPT !.queue = @ \ {c}, !.seqTimer = FALSE], c, bad, deadline)
    ELSE [t EXCEPT !.seqTimer = TRUE]

Drain(s, bad, deadline) ==
    LET TakeNext(c, t) == Take(c, t, bad, deadline)
    IN  MapThenFoldSet(TakeNext, [s EXCEPT !.seqTimer = FALSE],
                       LAMBDA c : c, Last, s.queue)

SetSeq(s, seq, bad, deadline) ==
    IF seq = 0 \/ seq = s.seq THEN s
    ELSE Drain([s EXCEPT !.seq = seq], bad, deadline)

\* Faulty variant: a hole before the container is not noticed.
ApplyNumberedAnyway(s, c, bad, deadline) ==
    IF c.first <= s.seq THEN s
    ELSE Drain(ApplyInTurn(s, c, bad, deadline), bad, deadline)

\* applyUpdates() of a container with seq numbers.
ApplyNumbered(s, c, bad, deadline) ==
    IF c.first <= s.seq THEN s
    ELSE IF c.first > s.seq + 1
         THEN [s EXCEPT !.queue = @ \union {c}, !.seqTimer = TRUE]
    ELSE Drain(ApplyInTurn(s, c, bad, deadline), bad, deadline)

\* applyUpdates() of a short message: its date counts if it was applied.
ApplyShort(s, c, loaded, deadline) ==
    LET u == CHOOSE v \in c.pushed : TRUE IN
    IF ~loaded THEN GetDifference(s)
    ELSE IF UpdatedPasses(s.box, u)
         THEN SetDate(Given(s, UpdateAndApply(s.box, u, deadline)), c.date)
    ELSE Given(s, UpdateAndApply(s.box, u, deadline))

ApplyUpdates(s, c, bad, deadline) ==
    IF c.short THEN ApplyShort(s, c, c \notin bad, deadline)
    ELSE IF c.last = 0 THEN ApplyVector(s, c, bad, deadline)
    ELSE ApplyNumbered(s, c, bad, deadline)

-----------------------------------------------------------------------------
(* The server and the network. *)

Update == [pts : Nat, count : Nat, date : Nat]
Container == [date : Nat, short : BOOLEAN, first : Nat, last : Nat,
              pushed : SUBSET Update, skips : BOOLEAN]

Made(c) == [pts |-> serverPts + c, count |-> c, date |-> clock + 1]

Makes(u) ==
    /\ clock < MaxEvents /\ clock' = clock + 1
    /\ log' = log \union u
    /\ serverPts' = IF u = {} THEN serverPts ELSE serverPts + (CHOOSE v \in u : TRUE).count

\* A container without a seq number.
PushPlain(kind, count) ==
    LET u == IF kind \in {"update", "short"} THEN {Made(count)} ELSE {}
        c == [date |-> clock + 1, short |-> kind = "short", first |-> 0, last |-> 0,
              pushed |-> u, skips |-> kind = "skips"]
    IN  /\ kind \in PlainKinds /\ count \in Counts
        /\ Makes(u)
        /\ net' = net \union {c}
        /\ UNCHANGED <<sent, serverSeq, results, notice, answer, client, boundVars>>

\* A container with seq numbers.
PushNumbered(kind) ==
    LET u == IF kind = "update" THEN {Made(1)} ELSE {}
        c == [date |-> clock + 1, short |-> FALSE, first |-> serverSeq + 1,
              last |-> serverSeq + (IF kind = "combined" THEN 2 ELSE 1),
              pushed |-> u, skips |-> kind = "skips"]
    IN  /\ kind \in SeqKinds
        /\ Makes(u)
        /\ serverSeq' = c.last /\ sent' = sent \union {c} /\ net' = net \union {c}
        /\ UNCHANGED <<results, notice, answer, client, boundVars>>

\* A request of this client changed the account.
ServerResult(c) ==
    /\ c \in Counts /\ made < Results /\ Makes({Made(c)})
    /\ results' = results \union {Made(c)} /\ made' = made + 1
    /\ UNCHANGED <<sent, serverSeq, net, notice, answer, client, losses, fails>>

\* The pushes on their way are lost.  Either the server starts a new session,
\* and seq numbers with it, or it sends updatesTooLong; or nobody notices.
\* An answer on its way is received first, or asked for again.
PushesLost ==
    /\ losses < MaxLosses /\ losses' = losses + 1
    /\ notice = NoNotice /\ clock < MaxEvents
    /\ net' = {} /\ clock' = clock + 1
    /\ \/ /\ notice' = [what |-> "new session", date |-> clock + 1]
          /\ serverSeq' = 0 /\ sent' = {}
       \/ /\ notice' = [what |-> "too long", date |-> clock + 1]
          /\ UNCHANGED <<serverSeq, sent>>
       \/ /\ SilentLosses
          /\ UNCHANGED <<notice, serverSeq, sent>>
    /\ UNCHANGED <<log, serverPts, results, answer, client, fails, made>>

\* The answer to the request for the state or the difference: everything, or
\* a slice up to some update.
ServerAnswers(pts) ==
    /\ client.request.state = "sent"
    /\ pts \in {u.pts : u \in log} \union {serverPts}
    /\ pts # serverPts => client.request.pts > 0 /\ pts > client.request.pts
    /\ answer' = [pts |-> pts, seq |-> serverSeq, final |-> pts = serverPts,
                  date |-> IF pts = serverPts THEN clock
                           ELSE (CHOOSE u \in log : u.pts = pts).date]
    /\ client' = [client EXCEPT !.request.state = "answered"]
    /\ UNCHANGED <<serverVars, net, results, notice, boundVars>>

-----------------------------------------------------------------------------
(* The client's steps. *)

\* When a message with this date was sent everything before it had been.
ArrivesInOrder(date) ==
    Ordered => /\ \A c \in net \union results : c.date >= date
               /\ client.request.state = "answered" => answer.date >= date

\* A new session is announced before anything else in it.
AfterNotice(date) == notice = NoNotice \/ notice.date > date

\* mtpUpdateReceived(), `bad' being the containers whose messages have authors
\* the client does not know: ignored while the difference is requested.
ReceivePush(c, bad, deadline) ==
    /\ c \in net /\ AfterNotice(c.date) /\ ArrivesInOrder(c.date)
    /\ net' = net \ {c}
    /\ client' = IF client.box.requesting THEN client
                 ELSE ApplyUpdates(client, c, bad, deadline)
    /\ UNCHANGED <<serverVars, results, notice, answer, boundVars>>

\* A result with updates in it, a short message or a container without a seq
\* number, is applied in any case.
ReceiveResult(u, short, deadline) ==
    /\ u \in results /\ ArrivesInOrder(u.date) /\ results' = results \ {u}
    /\ client' = LET c == [date |-> u.date, short |-> short, first |-> 0, last |-> 0,
                            pushed |-> {u}, skips |-> FALSE]
                 IN  ApplyUpdates(client, c, {}, deadline)
    /\ UNCHANGED <<serverVars, net, notice, answer, boundVars>>

\* applyAffectedHistory() and applyAffectedMessages(): the effect is there,
\* pts and count are accounted for.
ReceiveAffected(u, deadline) ==
    /\ u \in results /\ ArrivesInOrder(u.date) /\ results' = results \ {u}
    /\ client' = LET r == UpdateAndApplyCount(client.box, u, deadline)
                 IN  Given(client, [r EXCEPT !.applied = @ \union {u}])
    /\ UNCHANGED <<serverVars, net, notice, answer, boundVars>>

\* mtpNewSessionCreated() and updatesTooLong.
ReceiveNotice ==
    /\ notice # NoNotice /\ notice' = NoNotice
    /\ client.request.state = "answered" => answer.date >= notice.date
    /\ client' = IF notice.what = "new session" THEN GetDifference([client EXCEPT !.seq = 0])
                 ELSE IF client.box.requesting THEN client
                 ELSE GetDifference(client)
    /\ UNCHANGED <<serverVars, net, results, answer, boundVars>>

\* Faulty variant: the wait for a seq number is thought to ask as well.
PtsTimerLeavesToSeq ==
    /\ client.box.timer
    /\ client' = IF client.seqTimer THEN [client EXCEPT !.box.timer = FALSE]
                 ELSE GetDifference(client)
    /\ UNCHANGED <<serverVars, wireVars, boundVars>>

\* Faulty variant: nothing is asked after a skipped message.
MinChannelTimerOnlyStops ==
    /\ client.minTimer
    /\ client' = [client EXCEPT !.minTimer = FALSE]
    /\ UNCHANGED <<serverVars, wireVars, boundVars>>

\* getDifferenceByPts(), _bySeqTimer and _byMinChannelTimer.
PtsTimer ==
    /\ client.box.timer
    /\ client' = GetDifference(client)
    /\ UNCHANGED <<serverVars, wireVars, boundVars>>

SeqTimer ==
    /\ client.seqTimer
    /\ client' = GetDifference([client EXCEPT !.seqTimer = FALSE])
    /\ UNCHANGED <<serverVars, wireVars, boundVars>>

MinChannelTimer ==
    /\ client.minTimer
    /\ client' = GetDifference([client EXCEPT !.minTimer = FALSE])
    /\ UNCHANGED <<serverVars, wireVars, boundVars>>

\* stateDone() and differenceDone(): the answer is applied, the state set,
\* the box released; after a slice the rest is asked for.
Answered(s, a) ==
    LET learnt == [s EXCEPT !.box = InitPts(@, a.pts),
                            !.known = @ \union {u \in log : u.pts <= a.pts},
                            !.seen = @ \union {c \in sent : a.final /\ c.last <= a.seq},
                            !.skipped = {d \in @ : ~(s.request.date < d /\ d <= a.date)}]
        set == SetSeq(SetDate(learnt, a.date), a.seq, {}, "ahead")
        free == [set EXCEPT !.box = SetRequesting(@, FALSE), !.request = NoRequest]
    IN  IF a.final THEN free ELSE GetDifference(free)

DifferenceDone ==
    /\ client.request.state = "answered"
    /\ Ordered => \A c \in net \union results : c.date > answer.date
    /\ notice # NoNotice => notice.date > answer.date
    /\ client' = Answered(client, answer) /\ answer' = NoAnswer
    /\ UNCHANGED <<serverVars, net, results, notice, boundVars>>

\* differenceFail(): a timer with a growing delay is started.
DifferenceFail ==
    /\ client.request.state = "sent" /\ client.request.pts > 0
    /\ fails < MaxFails /\ fails' = fails + 1
    /\ client' = [client EXCEPT !.request.state = "failed"]
    /\ UNCHANGED <<serverVars, wireVars, losses, made>>

\* getDifferenceAfterFail(): the box is released only to ask again.
AfterFailTimer ==
    /\ client.request.state = "failed"
    /\ client' = GetDifference([client EXCEPT !.box = SetRequesting(@, FALSE)])
    /\ UNCHANGED <<serverVars, wireVars, boundVars>>

-----------------------------------------------------------------------------

Environment ==
    \/ \E kind \in Kinds, c \in Counts : PushPlain(kind, c)
    \/ \E kind \in Kinds : PushNumbered(kind)
    \/ \E c \in Counts : ServerResult(c)
    \/ PushesLost
    \/ \E pts \in 0..serverPts : ServerAnswers(pts)

Client ==
    \/ \E c \in net, deadline \in Deadlines :
          \E bad \in SUBSET {d \in {c} \union client.queue : d.pushed # {}} :
             ReceivePush(c, bad, deadline)
    \/ \E u \in results, deadline \in Deadlines :
          \/ \E short \in BOOLEAN : ReceiveResult(u, short, deadline)
          \/ ReceiveAffected(u, deadline)
    \/ ReceiveNotice
    \/ PtsTimer \/ SeqTimer \/ MinChannelTimer
    \/ DifferenceDone \/ DifferenceFail \/ AfterFailTimer

Next == Environment \/ Client

Spec == Init /\ [][Next]_vars

\* The server answers, messages arrive and timers expire.
Fairness ==
    /\ WF_vars(\E pts \in 0..serverPts : ServerAnswers(pts))
    /\ WF_vars(\E c \in net : ReceivePush(c, {}, "ahead"))
    /\ WF_vars(\E u \in results : ReceiveAffected(u, "ahead"))
    /\ WF_vars(ReceiveNotice)
    /\ WF_vars(PtsTimer) /\ WF_vars(SeqTimer) /\ WF_vars(MinChannelTimer)
    /\ WF_vars(DifferenceDone) /\ WF_vars(AfterFailTimer)

FairSpec == Spec /\ Fairness

-----------------------------------------------------------------------------
(* Properties. *)

\* The seq number reached never passes a container of the server's session
\* the client does not have, once the session is known and no difference is
\* on its way that would bring it.
NoLostContainer ==
    ~client.box.requesting /\ notice.what # "new session" =>
       \A c \in sent : c.last <= client.seq => c \in client.seen

\* No gap is waited for in vain.  While an update with a pts is missing, the timer
\* that ends the wait for it runs, or the difference is requested.  Containers wait
\* for their turn only while one before them is missing, and then the other timer
\* runs; the two stop, start and ask for the difference independently.
GapWaits ==
    /\ Gap(client.box) /\ Inited(client.box) => client.box.timer \/ client.box.requesting
    /\ client.queue # {} =>
          /\ client.seqTimer /\ ~client.box.requesting
          /\ \A c \in client.queue : c.first > client.seq + 1

\* A numbered container takes effect only after all numbered ones before it.
ContainersInOrder ==
    [][\A c \in client'.seen \ client.seen :
          ~client.box.requesting /\ c \in net \union client.queue =>
             \A d \in sent : d.last < c.first => d \in client'.seen]_vars

\* A result of an own request comes while the difference is requested.
ResultWhileRequesting ==
    /\ client.box.requesting
    /\ \E u \in results, short \in BOOLEAN, deadline \in Deadlines :
          ReceiveResult(u, short, deadline)

\* api_updates.cpp: "getDifference after timeout", of a channel message that
\* was skipped.  The client's date, which tells the server what to report in a
\* difference, passes a skipped message only when a difference asked for by an
\* earlier date has come, through the container it came in (if no others waited,
\* that take effect with it), later ones, lost ones, failed requests and slices;
\* but for one thing: a result of an own request that comes while the difference
\* is requested moves the date, and if that request fails the next one does not
\* ask for the message.
SkippedStaysAhead ==
    [][\A d \in client'.skipped : d \in client.skipped \/ client.queue = {} =>
          (client.date < d /\ d <= client'.date => ResultWhileRequesting)]_vars

\* Everything the server makes reaches the client in the end.
CatchesUp ==
    []<>(log \subseteq client.known /\ sent \subseteq client.seen /\ client.skipped = {})

\* The account keeps the promise of UpdateLog.
Log == INSTANCE UpdateLog WITH known <- client.known, claimed <- client.box.good
KeepsLog == Log!Spec
=============================================================================
