----------------------------- MODULE Downloads -----------------------------
(* Storage::DownloadManagerMtproto of one data centre and its tasks: files,   *)
(* which load all their parts in order (mtpFileLoader), and streams, which    *)
(* load the parts a reader asks for (Media::Streaming::LoaderMtproto).        *)
(* The manager keeps a queue of tasks and balances parts over sessions; a     *)
(* task's part may be moved to another session, to a CDN and back, held back  *)
(* until its hash is known, and asked for again with a new file reference.    *)
(* Everything runs on the main thread; what interleaves are the answers.      *)
(*                                                                            *)
(* The manager and its tasks are a record, and a handler is an operator from  *)
(* such a record to the next.  The size of a file is known, and a part is one *)
(* unit of what a session waits for.  An owner destroys the task of a file    *)
(* inside the event that says that it ended.                                  *)
EXTENDS Integers, FiniteSets, SequencesExt, FiniteSetsExt

CONSTANTS Files, Streams,     \* the tasks
          Size,               \* parts of each
          Asked,              \* the parts a reader may ask for
          StartWaited, MaxWaited,     \* kStartWaitedInSession, kMaxWaitedInSession
          MaxSessions,        \* kMaxSessionsCount, kStartSessionsCount being 1
          RemoveAfter,        \* kRemoveSessionAfterTimeouts
          Successes,          \* kRetryAddSessionSuccesses
          MaxRemoves,         \* kMaxTrackedSessionRemoves
          Levels,             \* the priorities a reader gives its stream
          MaxCalls,           \* bound: calls a reader makes
          MaxFaults           \* bound: errors, timeouts and slow answers

Tasks == Files \union Streams
Parts == 0 .. Size - 1

ASSUME DownloadsAssumption ==
    /\ IsFiniteSet(Tasks) /\ Files \intersect Streams = {}
    /\ {Size, StartWaited, MaxWaited, MaxSessions, RemoveAfter, Successes, MaxRemoves}
           \subseteq Nat \ {0}
    /\ StartWaited <= MaxWaited /\ Asked \subseteq Parts
    /\ Levels \subseteq Nat /\ {MaxCalls, MaxFaults} \subseteq Nat

VARIABLES
    manager, \* DownloadManagerMtproto and its tasks, see Init
    calls,   \* how many calls the readers have made
    faults,  \* how much has gone wrong
    spoiled  \* history: the tasks whose token was refused while parts were held back

vars == <<manager, calls, faults, spoiled>>

NewSession == [requested |-> 0, successes |-> 0, max |-> StartWaited]

NewBalance == [timeouts |-> 0, index |-> 0, times |-> 0, removed |-> FALSE, total |-> 0]

NewTask ==
    [status    |-> "new",   \* then "loading", and "done", "failed" or "closed"
     sent      |-> <<>>,    \* _sentRequests, with _requestByOffset
     unchecked |-> <<>>,    \* _cdnUncheckedParts: offset -> session
     hashes    |-> {},      \* _cdnFileHashes
     cdn       |-> FALSE,   \* _cdnDcId # 0
     renewed   |-> FALSE,   \* the file reference is not the one it began with
     renewing  |-> FALSE,   \* _fileReferenceHandlers has one of the task
     next      |-> 0,       \* mtpFileLoader::_nextRequestOffset
     written   |-> {},      \* the parts fed to the file
     requested |-> {},      \* LoaderMtproto::_requested
     level     |-> 0,       \* _requested._priority
     priority  |-> 0,       \* LoaderMtproto::_priority
     wanted    |-> {}]      \* the parts the reader waits for

Init ==
    /\ manager = [sessions  |-> <<NewSession>>,
                  balance   |-> NewBalance,
                  queue     |-> <<>>,   \* Queue::_tasks
                  killing   |-> FALSE,  \* _killSessionsWhen has the data centre
                  resetting |-> FALSE,  \* _resetGenerationTimer is active
                  posted    |-> <<>>,   \* calls posted to the main thread
                  task      |-> [t \in Tasks |->
                      [NewTask EXCEPT !.status = IF t \in Files THEN "new" ELSE "loading"]],
                  broken    |-> FALSE]
    /\ calls = 0 /\ faults = 0 /\ spoiled = {}

Expects(m, condition) == [m EXCEPT !.broken = @ \/ ~condition]

----------------------------------------------------------------------------
(* The balance over sessions *)

FirstLeast(s, Value(_)) ==
    CHOOSE i \in DOMAIN s : \A j \in DOMAIN s :
        Value(s[i]) < Value(s[j]) \/ (Value(s[i]) = Value(s[j]) /\ i <= j)

ChangeRequestedAmount(m, i, delta) ==
    LET changed == [m EXCEPT !.sessions[i].requested = @ + delta,
                             !.balance.total = @ + delta]
    IN  IF delta > 0 THEN [changed EXCEPT !.killing = FALSE]
        ELSE [changed EXCEPT !.killing =
                 @ \/ \A j \in DOMAIN changed.sessions : changed.sessions[j].requested <= 0]

ChooseSessionIndex(m) ==
    LET Requested(s) == s.requested IN FirstLeast(m.sessions, Requested)

WithoutSuccesses(m) ==
    [m EXCEPT !.sessions = [i \in DOMAIN @ |-> [@[i] EXCEPT !.successes = 0]]]

Raised(s, amount) ==
    [s EXCEPT !.max = IF amount = @ /\ @ < MaxWaited THEN @ + 1 ELSE @,
              !.successes = Min({@ + 1, Successes * MaxRemoves})]

\* pace: the answer took long, or came too early to add a session, or neither
RequestSucceeded(m, r, pace) ==
    LET raised == [m EXCEPT !.sessions[r.session] = Raised(@, r.amount)]
        enough == \A i \in DOMAIN raised.sessions :
                     raised.sessions[i].successes >= (m.balance.times + 1) * Successes
        cleared == WithoutSuccesses(raised)
    IN  CASE r.late \/ r.amount > m.sessions[r.session].max -> m
          [] pace = "slow" ->
                [m EXCEPT !.posted = Append(@, [call |-> "timedOut", session |-> r.session])]
          [] ~enough -> raised
          [] m.balance.timeouts > 0 -> [cleared EXCEPT !.balance.timeouts = @ - 1]
          [] Len(m.sessions) = MaxSessions \/ (m.balance.removed /\ pace = "early") -> cleared
          [] OTHER -> [cleared EXCEPT !.sessions = Append(@, NewSession)]

KillSessions(m) ==
    [Expects(m, m.balance.total = 0 /\ \A i \in DOMAIN m.sessions : m.sessions[i].requested = 0)
        EXCEPT !.sessions = [i \in DOMAIN @ |-> NewSession],
               !.balance = NewBalance, !.killing = FALSE]

----------------------------------------------------------------------------
(* The requests of a task *)

HaveSentRequests(task) == task.sent # <<>> \/ DOMAIN task.unchecked # {}

Offsets(task) == {r.offset : r \in ToSet(task.sent)}

HaveSentRequestForOffset(task, offset) ==
    offset \in Offsets(task) \union DOMAIN task.unchecked

AsksHashes(task) == \E r \in ToSet(task.sent) : r.kind = "hashes"

PlaceSentRequest(m, t, kind, offset, session) ==
    LET changed == ChangeRequestedAmount(m, session, 1)
        request == [kind   |-> kind, offset |-> offset, session |-> session,
                    amount |-> changed.sessions[session].requested,
                    late   |-> FALSE,  \* sent before lastSessionRemove
                    renewed |-> m.task[t].renewed,
                    awaits |-> "server"]
    IN  Expects([changed EXCEPT !.task[t].sent = Append(@, request)],
                offset \notin Offsets(m.task[t]))

MakeRequest(m, t, offset, session) ==
    PlaceSentRequest(m, t, IF m.task[t].cdn THEN "cdn" ELSE "part", offset, session)

\* Faulty variant: what the session waits for is not reduced.
FinishSentRequestKeepingAmount(m, t, r) == [m EXCEPT !.task[t].sent = RemoveFirst(@, r)]
FinishSentRequest(m, t, r) ==
    [ChangeRequestedAmount(m, r.session, -1) EXCEPT !.task[t].sent = RemoveFirst(@, r)]

RequestMoreHashes(m, t) ==
    LET unchecked == m.task[t].unchecked
        offset == Min(DOMAIN unchecked)
    IN  IF AsksHashes(m.task[t]) \/ DOMAIN unchecked = {} THEN m
        ELSE PlaceSentRequest(m, t, "hashes", offset, unchecked[offset])

HashesCall(t) == [call |-> "hashes", task |-> t]

CancelRequest(m, t, r) ==
    LET finished == FinishSentRequest(m, t, r)
    IN  IF r.kind = "hashes" /\ DOMAIN m.task[t].unchecked # {}
        THEN [finished EXCEPT !.posted = Append(@, HashesCall(t))]
        ELSE finished

CancelAllRequests(m, t) ==
    LET Cancel(n, r) == CancelRequest(n, t, r)
    IN  [FoldLeft(Cancel, m, m.task[t].sent) EXCEPT !.task[t].unchecked = <<>>]

CancelRequestForOffset(m, t, offset) ==
    LET Cancel(n, r) == IF r.offset = offset THEN CancelRequest(n, t, r) ELSE n
        cancelled == FoldLeft(Cancel, m, m.task[t].sent)
    IN  [cancelled EXCEPT !.task[t].unchecked =
            [o \in DOMAIN @ \ {offset} |-> @[o]]]

----------------------------------------------------------------------------
(* The queue *)

\* A task is in the queue once at most
WithoutTask(queue, t) == RemoveFirstMatch(queue, LAMBDA e : e.task = t)

\* Before the tasks of the same priority: the newest goes first
QueueEnqueue(queue, t, priority) ==
    LET others == WithoutTask(queue, t)
        above == Cardinality({i \in DOMAIN others : others[i].priority > priority})
    IN  InsertAt(others, above + 1, [task |-> t, priority |-> priority])

\* Queue::resetGeneration: what was of the newest generation no longer is
ResetGeneration(m) ==
    LET Older(e) == [e EXCEPT !.priority = IF @ = 0 THEN -1 ELSE @]
    IN  [Expects(m, \A i, j \in DOMAIN m.queue : i < j => m.queue[i].priority >= m.queue[j].priority)
            EXCEPT !.queue = [i \in DOMAIN @ |-> Older(@[i])], !.resetting = FALSE]

ReadyToRequest(m, t) ==
    LET task == m.task[t]
    IN  IF t \in Files THEN task.status = "loading" /\ task.next < Size
                       ELSE task.requested # {}

NextTasks(m, onlyHighestPriority) ==
    LET highest == m.queue[1].priority
    IN  {i \in DOMAIN m.queue :
            /\ onlyHighestPriority /\ highest > 0 => m.queue[i].priority = highest
            /\ ReadyToRequest(m, m.queue[i].task)}

\* PriorityQueue::front
FrontRequested(requested) ==
    CHOOSE e \in requested : \A f \in requested :
        e.priority > f.priority \/ (e.priority = f.priority /\ e.offset <= f.offset)

LoadPart(m, t, session) ==
    LET front == FrontRequested(m.task[t].requested)
    IN  IF t \in Files
        THEN MakeRequest([m EXCEPT !.task[t].next = @ + 1], t, m.task[t].next, session)
        ELSE MakeRequest([m EXCEPT !.task[t].requested = @ \ {front}], t, front.offset, session)

TrySendNextPart(m) ==
    LET Busy(s) == IF s.requested < s.max THEN s.requested ELSE MaxWaited
        best == FirstLeast(m.sessions, Busy)
        next == IF m.queue = <<>> THEN {} ELSE NextTasks(m, m.balance.total > 0)
    IN  IF m.sessions[best].requested + 1 > m.sessions[best].max \/ next = {} THEN m
        ELSE LoadPart(m, m.queue[Min(next)].task, best)

\* Until nothing is sent, which is so when every session is full
CheckSendNext(m) ==
    LET Try(n, i) == IF n.balance.total < m.balance.total + i - 1 THEN n ELSE TrySendNextPart(n)
    IN  FoldLeft(Try, m, [i \in 1 .. MaxSessions * MaxWaited |-> i])

Enqueue(m, t, priority) ==
    CheckSendNext([m EXCEPT !.queue = QueueEnqueue(@, t, priority), !.resetting = TRUE])

\* Faulty variant: those that waited behind the task are not looked at.
RemoveFromQueueAlone(m, t) == [m EXCEPT !.queue = WithoutTask(@, t)]

RemoveFromQueue(m, t) == CheckSendNext([m EXCEPT !.queue = WithoutTask(@, t)])

----------------------------------------------------------------------------
(* Taking a session away *)

\* DownloadMtprotoTask::removeSession
RemoveSessionFrom(m, t, session) ==
    LET held == {o \in DOMAIN m.task[t].unchecked : m.task[t].unchecked[o] = session}
        moved == [Expects(m, held # {} => ChooseSessionIndex(m) < session)
                     EXCEPT !.task[t].unchecked =
                     [o \in DOMAIN @ |-> IF o \in held THEN ChooseSessionIndex(m) ELSE @[o]]]
        Redirect(n, r) ==
            LET cancelled == CancelRequest(n, t, r)
                index == ChooseSessionIndex(cancelled)
            IN  IF r.session # session THEN n
                ELSE IF r.kind = "hashes" THEN cancelled
                ELSE MakeRequest(Expects(cancelled, index < session), t, r.offset, index)
    IN  FoldLeft(Redirect, moved, m.task[t].sent)

Late(m) ==
    LET Marked(sent) == [i \in DOMAIN sent |-> [sent[i] EXCEPT !.late = TRUE]]
    IN  [m EXCEPT !.task = [t \in Tasks |-> [m.task[t] EXCEPT !.sent = Marked(@)]]]

\* Faulty variant: the session that goes can be chosen for what is redirected.
RemoveSessionOpen(m) ==
    LET last == Len(m.sessions)
        times == IF m.balance.index = last THEN Min({m.balance.times + 1, MaxRemoves}) ELSE 1
        noted == [m EXCEPT !.balance.index = last, !.balance.times = times,
                           !.balance.removed = TRUE, !.balance.timeouts = 0]
        moved == FoldLeft(LAMBDA n, e : RemoveSessionFrom(n, e.task, last), noted, m.queue)
    IN  Late([Expects(moved, moved.sessions[last].requested = 0)
                 EXCEPT !.sessions = [i \in 1 .. last - 1 |-> @[i]]])

RemoveSession(m) ==
    LET last == Len(m.sessions)
        huge == MaxWaited * MaxSessions
        times == IF m.balance.index = last THEN Min({m.balance.times + 1, MaxRemoves}) ELSE 1
        full == [m EXCEPT !.balance.index = last, !.balance.times = times,
                          !.balance.removed = TRUE, !.balance.timeouts = 0,
                          !.sessions[last].requested = @ + huge]
        moved == FoldLeft(LAMBDA n, e : RemoveSessionFrom(n, e.task, last), full, m.queue)
    IN  Late([Expects(moved, moved.sessions[last].requested = huge)
                 EXCEPT !.sessions = [i \in 1 .. last - 1 |-> @[i]]])

SessionTimedOut(m, i) ==
    LET cleared == WithoutSuccesses(m)
    IN  CASE i > Len(m.sessions) -> m
          [] i <= Len(m.sessions) /\ Len(m.sessions) = 1 -> cleared
          [] i <= Len(m.sessions) /\ Len(m.sessions) > 1 ->
                IF m.balance.timeouts + 1 < RemoveAfter
                THEN [cleared EXCEPT !.balance.timeouts = @ + 1]
                ELSE RemoveSession(cleared)

----------------------------------------------------------------------------
(* How a task goes on *)

\* ~DownloadMtprotoTask; what was posted for the task finds nothing to do
Destroy(m, t, status) ==
    LET cancelled == CancelAllRequests(m, t)
    IN  RemoveFromQueue(
            [cancelled EXCEPT !.task[t] = [NewTask EXCEPT !.status = status,
                                                          !.written = m.task[t].written]], t)

\* A file is cancelled, and its owner destroys it; a reader is told, gives up and
\* loads nothing more, but what its stream has sent goes on
CancelOnFail(m, t) ==
    IF t \in Files THEN Destroy(m, t, "failed")
    ELSE [m EXCEPT !.task[t].status = "failed", !.task[t].wanted = {}]

FeedPart(m, t, offset) ==
    LET fed == [Expects(m, m.task[t].status = "loading")
                   EXCEPT !.task[t].written = @ \union {offset}]
        task == fed.task[t]
    IN  CASE t \in Streams -> [m EXCEPT !.task[t].wanted = @ \ {offset}]
          [] t \in Files /\ ~HaveSentRequests(task) /\ task.next >= Size -> Destroy(fed, t, "done")
          [] OTHER -> fed

\* cancel and send again what is sent, when the CDN changes
ResendAll(m, t) ==
    LET sent == m.task[t].sent
        Finish(n, r) == FinishSentRequest(n, t, r)
        Make(n, r) == MakeRequest(n, t, r.offset, r.session)
    IN  FoldLeft(Make, FoldLeft(Finish, m, sent), sent)

ChangeCDNParams(m, t, r, cdn, hashes) ==
    LET changed == [m EXCEPT !.task[t].cdn = cdn, !.task[t].hashes = @ \union hashes]
        resent == IF cdn # m.task[t].cdn THEN ResendAll(changed, t) ELSE changed
    IN  MakeRequest(resent, t, r.offset, r.session)

\* cdnPartLoaded, of a part that came
CdnPart(m, t, r, good) ==
    LET held == [m EXCEPT !.task[t].unchecked =
                    [o \in DOMAIN @ \union {r.offset} |-> IF o \in DOMAIN @ THEN @[o] ELSE r.session]]
    IN  CASE r.offset \notin m.task[t].hashes -> RequestMoreHashes(held, t)
          [] r.offset \in m.task[t].hashes /\ good -> FeedPart(m, t, r.offset)
          [] OTHER -> CancelOnFail(m, t)

\* The parts held back that are good, in their order
FeedChecked(m, t, good) ==
    LET Feed(n, offset) ==
            IF offset \notin good THEN n
            ELSE FeedPart([n EXCEPT !.task[t].unchecked =
                              [o \in DOMAIN @ \ {offset} |-> @[o]]], t, offset)
    IN  FoldLeft(Feed, m, [i \in 1 .. Size |-> i - 1])

\* Faulty variant: hashes are not asked for again for the parts that still wait.
CheckUncheckedOnce(m, t, wrong) ==
    LET known == DOMAIN m.task[t].unchecked \intersect m.task[t].hashes
        good == {o \in known : \A w \in wrong \intersect known : o < w}
        fed == FeedChecked(m, t, good)
    IN  IF good # known \/ known = {} THEN CancelOnFail(fed, t) ELSE fed

\* The parts held back are checked in their order, up to one whose hash is wrong
CheckUnchecked(m, t, wrong) ==
    LET known == DOMAIN m.task[t].unchecked \intersect m.task[t].hashes
        good == {o \in known : \A w \in wrong \intersect known : o < w}
        fed == FeedChecked(m, t, good)
    IN  CASE good # known \/ known = {} -> CancelOnFail(fed, t)
          [] fed.task[t].status = "done" -> fed
          [] OTHER -> RequestMoreHashes(fed, t)

AddHashes(m, t, hashes) == [m EXCEPT !.task[t].hashes = @ \union hashes]

Await(m, t, r, what) ==
    [m EXCEPT !.task[t].sent = [i \in DOMAIN @ |->
        IF @[i] = r THEN [r EXCEPT !.awaits = what] ELSE @[i]]]

----------------------------------------------------------------------------
(* Answers *)

Waiting(t) == {r \in ToSet(manager.task[t].sent) : r.awaits = "server"}

Fault(n) == faults + n <= MaxFaults /\ faults' = faults + n

Succeeded(pace, good) ==
    /\ pace = "early" => manager.balance.removed
    /\ Fault((IF pace = "slow" THEN 1 ELSE 0) + (IF good THEN 0 ELSE 1))

Become(m) == manager' = m /\ UNCHANGED <<calls, spoiled>>

AfterSuccess(t, r, pace) == RequestSucceeded(FinishSentRequest(manager, t, r), r, pace)

\* normalPartLoaded, of the file
PartLoaded(t, r, pace) ==
    /\ r.kind = "part"
    /\ Succeeded(pace, TRUE)
    /\ Become(CheckSendNext(FeedPart(AfterSuccess(t, r, pace), t, r.offset)))

\* normalPartLoaded, of a redirect, which may bring hashes
Redirected(t, r, pace, hashes) ==
    /\ r.kind = "part"
    /\ Succeeded(pace, TRUE)
    /\ Become(CheckSendNext(ChangeCDNParams(AfterSuccess(t, r, pace), t, r, TRUE, hashes)))

CdnPartLoaded(t, r, pace, good) ==
    /\ r.kind = "cdn" /\ (good \/ r.offset \in manager.task[t].hashes)
    /\ Succeeded(pace, good)
    /\ Become(CheckSendNext(CdnPart(AfterSuccess(t, r, pace), t, r, good)))

ReuploadNeeded(t, r) ==
    /\ r.kind = "cdn" /\ Fault(1)
    /\ Become(PlaceSentRequest(FinishSentRequest(manager, t, r), t, "reupload", r.offset, r.session))

ReuploadDone(t, r) ==
    /\ r.kind = "reupload" /\ Fault(0)
    /\ Become(MakeRequest(AddHashes(FinishSentRequest(manager, t, r), t, {r.offset}),
                          t, r.offset, r.session))

\* The server leaves out the hash that was asked for, or sends a wrong one, only
\* when something is wrong.
GetCdnFileHashesDone(t, r, hashes, wrong) ==
    /\ r.kind = "hashes"
    /\ Fault(IF wrong = {} /\ r.offset \in hashes THEN 0 ELSE 1)
    /\ Become(CheckUnchecked(AddHashes(FinishSentRequest(manager, t, r), t, hashes), t, wrong))

\* FILE_TOKEN_INVALID or REQUEST_TOKEN_INVALID, of a part or of the hashes: what is
\* held back stays held back.
TokenRefused(t, r) ==
    /\ r.kind # "part" /\ Fault(1)
    /\ manager' = ChangeCDNParams(FinishSentRequest(manager, t, r), t, r, FALSE, {})
    /\ spoiled' = spoiled \union {u \in {t} : DOMAIN manager.task[u].unchecked # {}}
    /\ UNCHANGED calls

\* The request of a stream stays in _sentRequests
PartFailed(t, r) ==
    /\ Fault(1)
    /\ Become(CancelOnFail(Await(manager, t, r, "nothing"), t))

\* FILE_REFERENCE_*: refreshFileReference; once it has expired it has for all
ReferenceExpired(t, r) ==
    /\ r.kind = "part" /\ ~r.renewed
    /\ Fault(IF manager.task[t].renewing \/ manager.task[t].renewed THEN 0 ELSE 1)
    /\ Become([Await(manager, t, r, "reference") EXCEPT !.task[t].renewing = TRUE])

\* refreshFileReferenceFrom, for each request that waits
ReferenceCame(t, renewed) ==
    LET came == [manager EXCEPT !.task[t].renewing = FALSE, !.task[t].renewed = @ \/ renewed]
        Again(n, r) == IF r.awaits # "reference" THEN n
                       ELSE MakeRequest(FinishSentRequest(n, t, r), t, r.offset, r.session)
    IN  /\ manager.task[t].renewing
        /\ Fault(IF renewed THEN 0 ELSE 1)
        /\ Become(IF came.task[t].renewed THEN FoldLeft(Again, came, came.task[t].sent)
                                          ELSE CancelOnFail(came, t))

Answered(t, r) ==
    \/ \E pace \in {"due", "early", "slow"} :
          \/ PartLoaded(t, r, pace)
          \/ \E hashes \in {{}, Parts} : Redirected(t, r, pace, hashes)
          \/ \E good \in BOOLEAN : CdnPartLoaded(t, r, pace, good)
    \/ ReuploadDone(t, r)
    \/ \E hashes \in {{}, {r.offset}, Parts} :
          \E wrong \in {{}} \union {{o} : o \in DOMAIN manager.task[t].unchecked} :
              GetCdnFileHashesDone(t, r, hashes, wrong)
    \/ ReuploadNeeded(t, r) \/ TokenRefused(t, r)
    \/ PartFailed(t, r) \/ ReferenceExpired(t, r)

----------------------------------------------------------------------------
(* Owners and timers *)

Set(m) == manager' = m /\ UNCHANGED <<calls, faults, spoiled>>
Call(m) ==
    calls < MaxCalls /\ calls' = calls + 1 /\ manager' = m /\ UNCHANGED <<faults, spoiled>>

Live(t) == manager.task[t].status = "loading"
Open(t) == t \in Streams /\ manager.task[t].status \in {"loading", "failed"}

\* startLoading and startLoadingWithPartial, with the first parts from the cache
Start(t, partial) ==
    /\ t \in Files /\ manager.task[t].status = "new"
    /\ Set(Enqueue([manager EXCEPT !.task[t].status = "loading", !.task[t].next = partial,
                                   !.task[t].written = 0 .. partial - 1], t, 0))

Cancel(t) == t \in Files /\ Live(t) /\ Call(Destroy(manager, t, "closed"))

AddToQueue(m, t) == Enqueue(m, t, m.task[t].priority)

CancelForOffset(m, t, offset) ==
    LET requested == m.task[t].requested
        cancelled == CancelRequestForOffset(m, t, offset)
    IN  IF ~HaveSentRequestForOffset(m.task[t], offset)
        THEN [m EXCEPT !.task[t].requested = {e \in @ : e.offset # offset}]
        ELSE IF requested = {} THEN cancelled ELSE AddToQueue(cancelled, t)

Wants(m, t, offset) == [m EXCEPT !.task[t].wanted = @ \union {offset}]
Forgets(m, t, offset) == [m EXCEPT !.task[t].wanted = @ \ {offset}]

Load(t, offset) ==
    LET task == manager.task[t]
        entry == [offset |-> offset, priority |-> task.level]
        added == [Wants(manager, t, offset) EXCEPT !.task[t].requested =
                     {e \in @ : e.offset # offset} \union {entry}]
    IN  /\ Live(t)
        /\ IF HaveSentRequestForOffset(task, offset) \/ entry \in task.requested
           THEN Call(Wants(manager, t, offset))
           ELSE Call(AddToQueue(added, t))

\* cancel; load does the same when the attached downloader has the part
CancelLoad(t, offset) ==
    Live(t) /\ Call(CancelForOffset(Forgets(manager, t, offset), t, offset))

TryRemoveFromQueue(t) ==
    /\ Open(t)
    /\ manager.task[t].requested = {} /\ ~HaveSentRequests(manager.task[t])
    /\ Set(RemoveFromQueue(manager, t))

SetPriority(t, priority) ==
    LET set == [manager EXCEPT !.task[t].priority = priority]
    IN  /\ Open(t) /\ priority # manager.task[t].priority
        /\ Call(IF HaveSentRequests(manager.task[t]) THEN AddToQueue(set, t) ELSE set)

ResetPriorities(t) == Open(t) /\ Call([manager EXCEPT !.task[t].level = @ + 1])

\* The reader is destroyed, and the loader with it
Close(t) == Open(t) /\ Set(Destroy(manager, t, "closed"))

\* Instance::restartsByTimeout
RestartsByTimeout(i) ==
    /\ Fault(1)
    /\ Become(SessionTimedOut(manager, i))

RunPosted ==
    LET first == Head(manager.posted)
        rest == [manager EXCEPT !.posted = Tail(@)]
    IN  /\ manager.posted # <<>>
        /\ Set(IF first.call = "hashes" THEN RequestMoreHashes(rest, first.task)
                                         ELSE SessionTimedOut(rest, first.session))

KillTimer == manager.killing /\ Set(KillSessions(manager))

GenerationTimer == manager.resetting /\ Set(ResetGeneration(manager))

----------------------------------------------------------------------------
Reader(t) ==
    \/ \E offset \in Asked : Load(t, offset) \/ CancelLoad(t, offset)
    \/ \E priority \in Levels : SetPriority(t, priority)
    \/ TryRemoveFromQueue(t) \/ ResetPriorities(t) \/ Close(t)

Step ==
    \/ \E t \in Tasks : \E r \in Waiting(t) : Answered(t, r)
    \/ \E t \in Tasks, renewed \in BOOLEAN : ReferenceCame(t, renewed)
    \/ \E t \in Files : Cancel(t) \/ \E partial \in Parts : Start(t, partial)
    \/ \E t \in Streams : Reader(t)
    \/ \E i \in 1 .. MaxSessions : RestartsByTimeout(i)
    \/ RunPosted \/ KillTimer \/ GenerationTimer

\* The program ends when an assertion fails.
Next == ~manager.broken /\ Step

Spec == Init /\ [][Next]_vars

----------------------------------------------------------------------------
(* Properties *)

\* No Expects, Ensures or Assert of the manager and its tasks fails: whatever
\* was sent in a session that is taken away is sent in another, nothing is on
\* its way when idle sessions are stopped, one request is made for an offset at
\* a time, and a file gets no part after it has ended.  The one that can fail is
\* Ensures(ok1 && ok2) of placeSentRequest: cdnPartFailed asks for a part again
\* although it is held back, and hashes are asked for at the same offset later.
TwoForAnOffset(t) == Cardinality(Offsets(manager.task[t])) < Len(manager.task[t].sent)
Asserted == manager.broken => \E t \in spoiled : TwoForAnOffset(t)

\* What was sent and not answered: a task and an offset
Sent(m) == {p \in Tasks \X Parts : p[2] \in Offsets(m.task[p[1]])}
SentIn(m, i) == {p \in Tasks \X Parts :
                    \E r \in ToSet(m.task[p[1]].sent) : r.offset = p[2] /\ r.session = i}

\* What each session, and the data centre, is taken to wait for is what was sent
\* and not answered there, through redirects, resends, cancelling and sessions
\* that come and go: a difference would hold back parts for ever.
AmountsAdd ==
    ~manager.broken =>
        /\ \A i \in DOMAIN manager.sessions :
              manager.sessions[i].requested = Cardinality(SentIn(manager, i))
        /\ manager.balance.total = Cardinality(Sent(manager))

Coming(t) ==
    LET task == manager.task[t]
        asked == AsksHashes(task) \/ HashesCall(t) \in ToSet(manager.posted)
    IN  {e.offset : e \in task.requested} \union Offsets(task)
            \union (IF asked THEN DOMAIN task.unchecked ELSE {})

\* No part is lost or loaded twice: of a file, every part that was taken is in
\* the file or on its way and never both, where a part held back for its hash
\* is on its way if hashes are; of a stream, what the reader waits for is.  It is
\* so until a token is refused while parts of the task are held back: they are
\* loaded once more, and nobody asks for their hashes.
PartIsComing ==
    /\ \A t \in Files \ spoiled : Live(t) =>
          LET task == manager.task[t] IN
          /\ 0 .. task.next - 1 = Coming(t) \union task.written
          /\ Coming(t) \intersect task.written = {}
    /\ \A t \in Streams \ spoiled : manager.task[t].wanted \subseteq Coming(t)

\* Once nothing is awaited or posted and the readers are gone, every file that was
\* started has ended: no download waits for an event that does not come.  And one
\* that is done has all its parts.  Two kinds of files are left waiting in the
\* code: one that held parts back when its token was refused, whose parts stay in
\* _cdnUncheckedParts; and, GetCdnFileHashesDone not sending what it makes room
\* for, as many files as a session waits for, each waiting for hashes alone.
Idle ==
    /\ \A t \in Tasks : Waiting(t) = {} /\ ~manager.task[t].renewing /\ ~Open(t)
    /\ manager.posted = <<>> /\ ~manager.broken
NoneStuck ==
    \A t \in Files :
        /\ Idle /\ Live(t) => t \in spoiled \/ Cardinality(Files) >= StartWaited
        /\ manager.task[t].status = "done" => manager.task[t].written = Parts
=============================================================================
