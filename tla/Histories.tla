----------------------------- MODULE Histories -----------------------------
(***************************************************************************)
(* Data::Histories: the requests made about each chat, and how far it is   *)
(* read.  Three rules keep their effects in order.  While messages are     *)
(* being deleted, slices of the history are not loaded: those requests are *)
(* cancelled and sent again afterwards.  While anything but a slice is     *)
(* being done in a chat, its dialog entry is not taken from the server:    *)
(* the answer could be from before it.  And the read mark is sent once     *)
(* after a delay, whatever is read in the meantime, and the unread count   *)
(* is asked for again when it could not be computed.                       *)
(*                                                                         *)
(* The client is a record, a handler an operator from such a record to the *)
(* next.  Messages of a chat are 1..top, in Out are the outgoing ones.     *)
(* Every chat is one the account is in.  The folder of a chat is known     *)
(* when its unread count is.  The server's answers and updates about one   *)
(* chat come in the order in which it made them; the answers of requests   *)
(* may overtake each other unless the scene is an ordered one.            *)
(***************************************************************************)
EXTENDS Integers, FiniteSets, FiniteSetsExt, Functions

CONSTANTS
    Scenes,      \* what may be going on, and how far: records as in Scene
    Out,         \* the messages that are outgoing
    UserTypes,   \* the types of request the user makes
    MaxRequests  \* bound: requests made when the user makes the last one

Types == {"History", "Send", "Delete"}
Unknown == -1

AllChats == UNION {s.chats : s \in Scenes}

Scene == [chats    : SUBSET AllChats,
          channels : SUBSET AllChats, \* the chats that are channels: reads them another request
          known    : SUBSET AllChats, \* the ones whose dialog entry the client has at the start
          top      : Nat,     \* bound: the last message of a chat
          calls    : Nat,     \* bound: how often the user asks to read a whole chat
          entries  : Nat,     \* bound: requests for entries before others are needed
          failing  : BOOLEAN, \* whether the server refuses requests
          ghosting : BOOLEAN, \* whether ghost mode is turned on
          ordered  : BOOLEAN] \* whether the server's answers arrive in the order it made them

ASSUME BoundsAssumption ==
    /\ Scenes \subseteq Scene
    /\ \A s \in Scenes : s.channels \union s.known \subseteq s.chats /\ IsFiniteSet(s.chats)
    /\ UserTypes \subseteq Types /\ MaxRequests \in Nat /\ Out \subseteq Nat

VARIABLES
    scene,  \* the one of Scenes that goes on
    client, \* Data::Histories, what it uses of History, and its requests
    server  \* per chat the last message and the last read one

vars == <<scene, client, server>>

Chat == scene.chats
Channel == scene.channels

Incoming(a, b) == (a..b) \ Out

NoChat == [last |-> Unknown, before |-> 0, unread |-> Unknown, loaded |-> FALSE]
KnownChat == [last |-> 0, before |-> 1, unread |-> 0, loaded |-> FALSE]

\* Histories::State.  willReadWhen is no time, a later one, or one that has
\* passed.
NewState ==
    [postponed |-> {}, sent |-> {}, will |-> 0, sentTill |-> 0,
     when |-> "none", done |-> FALSE, entry |-> FALSE]

NewClient ==
    [states    |-> <<>>,  \* _states
     byRequest |-> <<>>,  \* _historyByRequest
     next      |-> 0,     \* _requestAutoincrement
     timer     |-> FALSE, \* _readRequestsTimer
     dialog    |-> <<>>,  \* _dialogRequests, with their callbacks
     pending   |-> <<>>,  \* _dialogRequestsPending
     queued    |-> FALSE, \* sendDialogRequests() is posted to the main loop
     chat      |-> [h \in Chat |-> IF h \in scene.known THEN KnownChat ELSE NoChat],
     ghost     |-> FALSE, \* GhostController::shouldSuppressReadHistory
     net       |-> {},    \* requests that have not ended: see also ChannelDeletion
     calls     |-> 0,     \* history: callbacks given to requestDialogEntry
     called    |-> {},    \* history: the ones that were called
     dropped   |-> {},    \* history: reads that ghost mode dropped
     dangling  |-> FALSE, \* a State was written to after it was erased
     alive     |-> TRUE]

Init ==
    /\ scene \in Scenes
    /\ \E ghost \in {FALSE, scene.ghosting} : client = [NewClient EXCEPT !.ghost = ghost]
    /\ server = [h \in Chat |-> [top |-> 0, read |-> 0]]

-----------------------------------------------------------------------------
(* History: the read mark and the unread count. *)

SetInboxReadTill(t, upTo) == [t EXCEPT !.before = Max({@, upTo + 1})]

ReadBefore(t) == Max({t.before, 1})

LastOutgoing(t) == t.last \in Out /\ t.loaded

\* Faulty variant: the last message counts as read while it is unread.
SetUnreadCountTillLast(t, count) ==
    LET u == [t EXCEPT !.unread = count]
    IN  IF t.unread # count /\ t.last > 0 /\ count < 2
        THEN SetInboxReadTill(u, t.last)
        ELSE u

SetUnreadCount(t, count) ==
    LET u == [t EXCEPT !.unread = count]
        till == IF count = 0 THEN t.last ELSE t.last - 1
    IN  IF /\ t.unread # count /\ t.last > 0
           /\ count = 0 \/ (count = 1 /\ ~LastOutgoing(t))
        THEN SetInboxReadTill(u, till)
        ELSE u

\* How much stays unread if the chat is read, told from the messages that
\* are loaded: all of them or none.
CountStillUnread(t, till) ==
    IF t.loaded /\ t.last > 0 /\ t.unread # Unknown
    THEN Max({t.unread - Cardinality(Incoming(ReadBefore(t), till)), 0})
    ELSE Unknown

UnreadCountRefreshNeeded(t, till) ==
    t.unread = Unknown \/ till + 1 > t.before

ApplyDialogFields(t, entry) ==
    IF entry.read + 1 >= ReadBefore(t)
    THEN SetInboxReadTill(SetUnreadCount(t, entry.unread), entry.read)
    ELSE t

-----------------------------------------------------------------------------
(* Requests about a chat. *)

HasState(c, h) == h \in DOMAIN c.states
StateOf(c, h) == IF HasState(c, h) THEN c.states[h] ELSE NewState
Put(f, h, x) == [g \in DOMAIN f \union {h} |-> IF g = h THEN x ELSE f[g]]
Remove(f, h) == Restrict(f, DOMAIN f \ {h})
SetState(c, h, s) == [c EXCEPT !.states = Put(@, h, s)]

OfType(s, types) == {r \in s.sent : r.type \in types}
PostponeHistoryRequest(s) == OfType(s, {"Delete"}) # {}
PostponeEntryRequest(s) == OfType(s, {"Send", "Delete", "ReadInbox"}) # {}

\* Faulty variant: requests that are on their way do not count.
CheckEmptyStateWhileSent(c, h) ==
    IF /\ HasState(c, h)
       /\ LET s == c.states[h]
          IN  s.postponed = {} /\ ~s.entry /\ s.will = 0 /\ s.sentTill = 0
    THEN [c EXCEPT !.states = Remove(@, h)]
    ELSE c

CheckEmptyState(c, h) ==
    IF /\ HasState(c, h)
       /\ LET s == c.states[h]
          IN  /\ s.postponed = {} /\ s.sent = {} /\ ~s.entry
              /\ s.will = 0 /\ s.sentTill = 0
    THEN [c EXCEPT !.states = Remove(@, h)]
    ELSE c

OnNet(h, id, type, till) ==
    [chat |-> h, id |-> id, type |-> type, till |-> till,
     answer |-> "none", turn |-> 0]
NetOf(c, h, ids) ==
    {r \in c.net : r.type # "Entry" /\ r.chat = h /\ r.id \in ids}

\* Faulty variant: the first chat does not count.
PostponeForSeveral(c) ==
    IF Cardinality(DOMAIN c.pending) # 2 THEN c ELSE [c EXCEPT !.queued = TRUE]

PostponeRequestDialogEntries(c) ==
    IF Cardinality(DOMAIN c.pending) > 1 THEN c ELSE [c EXCEPT !.queued = TRUE]

RequestDialogEntry(c, h, callbacks) ==
    IF h \in DOMAIN c.dialog THEN [c EXCEPT !.dialog[h] = @ \union callbacks]
    ELSE IF h \in DOMAIN c.pending THEN [c EXCEPT !.pending[h] = @ \union callbacks]
    ELSE PostponeRequestDialogEntries([c EXCEPT !.pending = Put(@, h, callbacks)])

\* Faulty variant: what was postponed is sent again by the next request.
ResumeNever(c, h) == c

\* The slices wait for the last deletion.
Resume(c, h) ==
    LET s == c.states[h]
    IN  IF PostponeHistoryRequest(s) THEN c
        ELSE [SetState(c, h, [s EXCEPT !.postponed = {},
                !.sent = @ \union {[id |-> i, type |-> "History"] : i \in s.postponed}])
              EXCEPT !.net = @ \union {OnNet(h, i, "History", 0) : i \in s.postponed}]

\* Faulty variant: the entry stays postponed.
ResumeEntryNever(c, h) == c

ResumeEntry(c, h) ==
    LET s == c.states[h]
    IN  IF ~s.entry \/ PostponeEntryRequest(s) THEN c
        ELSE PostponeRequestDialogEntries(
               [SetState(c, h, [s EXCEPT !.entry = FALSE])
                EXCEPT !.pending = Put(@, h, c.dialog[h]),
                       !.dialog = Remove(@, h)])

\* checkPostponed() and finishSentRequest().
FinishSentRequest(c, h, id) ==
    IF ~HasState(c, h) THEN c
    ELSE LET s == c.states[h]
             d == [SetState(c, h, [s EXCEPT !.sent = {r \in @ : r.id # id}])
                   EXCEPT !.byRequest = Remove(@, id),
                          !.net = @ \ NetOf(c, h, {id})]
         IN  CheckEmptyState(ResumeEntry(Resume(d, h), h), h)

-----------------------------------------------------------------------------
(* Reading. *)

\* Faulty variant: the read counts as done once the server has answered.
ReadDoneAtOnce(c, h, till) ==
    IF c.states[h].sentTill # till THEN c
    ELSE [c EXCEPT !.states[h].sentTill = 0]

\* The first half of `finished' in sendReadRequest().
ReadDone(c, h, till) ==
    LET s == c.states[h]
    IN  IF s.sentTill # till THEN c
        ELSE IF UnreadCountRefreshNeeded(c.chat[h], till)
        THEN RequestDialogEntry([c EXCEPT !.states[h].done = TRUE], h, {})
        ELSE [c EXCEPT !.states[h].done = TRUE, !.states[h].sentTill = 0]

\* Faulty variant: slices that are on their way stay so.
NoteSentAlone(c, h, id, type) ==
    [c EXCEPT !.states[h].sent = @ \union {[id |-> id, type |-> type]},
              !.states[h].entry = @ \/ h \in DOMAIN c.dialog]

\* Faulty variant: slices are postponed, and not cancelled.
NoteSentUncancelled(c, h, id, type) ==
    LET s == [c.states[h] EXCEPT !.sent = @ \union {[id |-> id, type |-> type]}]
        slices == OfType(s, {"History"})
    IN  IF ~PostponeHistoryRequest(s) THEN SetState(c, h, s)
        ELSE SetState(c, h, [s EXCEPT !.sent = @ \ slices,
                                      !.postponed = @ \union {r.id : r \in slices}])

\* The second half of sendRequest(): the request is in the table, and what
\* it excludes is postponed.
NoteSent(c, h, id, type) ==
    LET s == [c.states[h] EXCEPT !.sent = @ \union {[id |-> id, type |-> type]}]
        t == [s EXCEPT !.entry = @ \/ (PostponeEntryRequest(s) /\ h \in DOMAIN c.dialog)]
        slices == {r.id : r \in OfType(t, {"History"})}
    IN  IF ~PostponeHistoryRequest(t) THEN SetState(c, h, t)
        ELSE [SetState(c, h, [t EXCEPT !.postponed = @ \union slices,
                                       !.sent = @ \ OfType(t, {"History"})])
              EXCEPT !.net = @ \ NetOf(c, h, slices)]

\* Ghost mode: the read is finished before sendRequest() has put it into
\* the table.  If that empties the state it is erased, while sendRequest()
\* still holds it.  The reads of other chats that `finished' would send are
\* sent by the loop this is called from.
Suppress(c, h, id, till) ==
    LET d == [FinishSentRequest(ReadDone(c, h, till), h, id)
              EXCEPT !.dropped = @ \union {id}]
    IN  IF HasState(d, h) THEN NoteSent(d, h, id, "ReadInbox")
        ELSE [d EXCEPT !.dangling = TRUE]

SendRequest(c, h, type, till) ==
    LET id == c.next + 1
        s == StateOf(c, h)
        d == [SetState(c, h, s) EXCEPT !.next = id, !.byRequest = Put(@, id, h)]
    IN  IF type = "History" /\ PostponeHistoryRequest(s)
        THEN SetState(d, h, [s EXCEPT !.postponed = @ \union {id}])
        ELSE IF type = "ReadInbox" /\ c.ghost /\ h \notin Channel
        THEN Suppress(d, h, id, till)
        ELSE NoteSent([d EXCEPT !.net = @ \union {OnNet(h, id, type, till)}],
                      h, id, type)

SendReadRequest(c, h) ==
    LET till == c.states[h].will
        s == [c.states[h] EXCEPT !.sentTill = till, !.will = 0,
                                 !.when = "none", !.done = FALSE]
    IN  SendRequest(SetState(c, h, s), h, "ReadInbox", till)

WillRead(c) == {h \in DOMAIN c.states : c.states[h].will # 0}
DueReads(c) == {h \in WillRead(c) : c.states[h].when # "later"}

SendReadRequests(c) ==
    IF c.states = <<>> THEN c
    ELSE FoldSet(LAMBDA h, d : SendReadRequest(d, h),
                 [c EXCEPT !.timer = WillRead(c) # DueReads(c)], DueReads(c))

SendPendingReadInbox(c, h) ==
    IF HasState(c, h) /\ c.states[h].will # 0 /\ c.states[h].when # "none"
    THEN SendReadRequests([c EXCEPT !.states[h].when = "none"])
    ELSE c

\* The syncGuard: a chat read till its last message has nothing unread.
SyncGuard(c, h, till) ==
    IF c.chat[h].unread > 0 /\ c.chat[h].last = till /\ till # 0
    THEN [c EXCEPT !.chat[h] = SetUnreadCount(@, 0)]
    ELSE c

NeedsRequest(c, h, till) == till # 0 /\ ReadBefore(c.chat[h]) <= till

\* Nothing is left to do: the server knows, or will.
ReadAlready(c, h, till, force) ==
    LET s == StateOf(c, h)
    IN  \/ ~NeedsRequest(c, h, till) /\ (~force \/ s.will = 0)
        \/ s.sentTill >= till
        \/ s.will >= till /\ ~force

ReadLater(c, h) ==
    [c EXCEPT !.states[h].when = IF @ = "none" THEN "later" ELSE @,
              !.timer = @ \/ c.states[h].when = "none"]

ReadTillNow(c, h, till, force) ==
    LET still == CountStillUnread(c.chat[h], till)
        d == SetState(c, h, [StateOf(c, h) EXCEPT !.will = till])
        e == IF force \/ still \in {Unknown, 0}
             THEN SendReadRequests([d EXCEPT !.states[h].when = "none"])
             ELSE ReadLater(d, h)
    IN  IF ~force /\ still # Unknown /\ still = c.chat[h].unread
        THEN [c EXCEPT !.chat[h] = SetInboxReadTill(@, till)]
        ELSE IF still = Unknown THEN e
        ELSE [e EXCEPT !.chat[h] = SetUnreadCount(SetInboxReadTill(@, till), still)]

ReadInboxTill(c, h, till, force) ==
    IF c.ghost THEN c
    ELSE SyncGuard(
           IF ReadAlready(c, h, till, force) THEN c
           ELSE IF StateOf(c, h).will >= till THEN SendPendingReadInbox(c, h)
           ELSE ReadTillNow(c, h, till, force), h, till)

\* History::inboxRead for a mark set on another device.
InboxRead(c, h, upTo, still) ==
    LET t == c.chat[h]
    IN  IF t.unread = Unknown
        THEN [RequestDialogEntry(c, h, {})
              EXCEPT !.chat[h] = SetInboxReadTill(t, upTo)]
        ELSE [c EXCEPT !.chat[h] = SetInboxReadTill(SetUnreadCount(t, still), upTo)]

-----------------------------------------------------------------------------
(* Dialog entries. *)

CallbacksOf(f, h) == IF h \in DOMAIN f THEN f[h] ELSE {}

\* What reads a whole chat waits for its entry; the callback reads till the
\* last message.
RunCallbacks(c, h, callbacks) ==
    IF callbacks = {} THEN c
    ELSE ReadInboxTill([c EXCEPT !.called = @ \union callbacks], h, c.chat[h].last, FALSE)

\* The read mark that waited for the count.
ReadCounted(c, h) ==
    IF HasState(c, h) /\ c.states[h].sentTill # 0 /\ c.states[h].done
    THEN CheckEmptyState(
           [c EXCEPT !.chat[h] = SetInboxReadTill(@, c.states[h].sentTill),
                     !.states[h].sentTill = 0], h)
    ELSE c

DialogEntryTaken(c, h) ==
    LET d == [c EXCEPT !.pending = Remove(@, h), !.dialog = Remove(@, h),
                       !.chat[h].last = Max({@, 0})]
        e == RunCallbacks(d, h, CallbacksOf(c.pending, h) \union CallbacksOf(c.dialog, h))
    IN  IF HasState(c, h) THEN ReadCounted(e, h) ELSE e

\* Faulty variant: an answer from before the last request is taken.
DialogEntryAppliedAnyway(c, h) == DialogEntryTaken(c, h)

DialogEntryApplied(c, h) ==
    IF StateOf(c, h).entry THEN c ELSE DialogEntryTaken(c, h)

ApplyDialog(c, h, entry) ==
    DialogEntryApplied(
      [c EXCEPT !.chat[h] = [ApplyDialogFields(@, entry) EXCEPT !.last = entry.top]], h)

Entries(c) == {r \in c.net : r.type = "Entry"}

FreshEntry(c) ==
    CHOOSE n \in 0..Cardinality(Entries(c)) : \A r \in Entries(c) : r.id # n

SendDialogRequests(c) ==
    LET asked == {h \in DOMAIN c.pending : ~PostponeEntryRequest(StateOf(c, h))}
        request == [chats |-> asked, id |-> FreshEntry(c), type |-> "Entry",
                    answer |-> "none", turn |-> 0, entries |-> <<>>]
    IN  IF c.pending = <<>> THEN c
        ELSE [c EXCEPT
               !.states = [h \in DOMAIN @ |->
                   IF h \in DOMAIN c.pending \ asked
                   THEN [@[h] EXCEPT !.entry = TRUE] ELSE @[h]],
               !.dialog = [h \in DOMAIN @ \union DOMAIN c.pending |->
                   IF h \in DOMAIN @ THEN @[h] ELSE c.pending[h]],
               !.pending = <<>>,
               !.net = @ \union {request}]

\* The answer, or its failure, is applied to the chats that were asked for,
\* and each of them counts as having its entry.
EntryAnswer(c, request) ==
    LET d == IF request.answer = "failed" THEN c
             ELSE FoldSet(LAMBDA h, x : ApplyDialog(x, h, request.entries[h]),
                          c, request.chats)
    IN  FoldSet(LAMBDA h, x : DialogEntryApplied(x, h), d, request.chats)

\* `finished' in sendReadRequest().
ReadAnswer(c, r) ==
    FinishSentRequest(SendReadRequests(ReadDone(c, r.chat, r.till)), r.chat, r.id)

\* A slice brings the last messages of the chat.
SliceAnswer(c, r, answer) ==
    FinishSentRequest(
      IF answer = "failed" THEN c
      ELSE [c EXCEPT !.chat[r.chat].loaded = TRUE,
                     !.chat[r.chat].last = server[r.chat].top],
      r.chat, r.id)

-----------------------------------------------------------------------------
(* The user. *)

Do(c) == client' = c /\ UNCHANGED <<scene, server>>

\* A slice is loaded, messages are sent or deleted.
UserRequests(h, type) ==
    /\ client.next < MaxRequests
    /\ Do(SendRequest(client, h, type, 0))

\* Only requests for slices are cancelled.
SliceIds(c, h) == StateOf(c, h).postponed
                    \union {r.id : r \in OfType(StateOf(c, h), {"History"})}

CancelRequest(h, id) ==
    /\ id \in SliceIds(client, h)
    /\ LET d == [client EXCEPT !.byRequest = Remove(@, id),
                               !.states[h].postponed = @ \ {id}]
       IN  Do(FinishSentRequest(d, h, id))

\* A message that is in view, or a new one of a chat that is in view.
ViewMessage(h, till) ==
    /\ client.chat[h].loaded /\ till <= client.chat[h].last
    /\ Do(ReadInboxTill(client, h, till, FALSE))

ViewNewMessage(h) ==
    /\ client.chat[h].last > 0 /\ client.chat[h].last \notin Out
    /\ Do(ReadInboxTill(client, h, client.chat[h].last, TRUE))

\* The whole chat is read: the user sends to it, or marks it as read.
ReadInbox(h) ==
    IF client.chat[h].last # Unknown
    THEN Do(ReadInboxTill(client, h, client.chat[h].last, FALSE))
    ELSE /\ client.calls < scene.calls
         /\ Do(RequestDialogEntry([client EXCEPT !.calls = @ + 1],
                                  h, {client.calls + 1}))

CloseChat(h) == Do(SendPendingReadInbox(client, h))

\* Other parts of the client ask for the entry as well.
EntryIsNeeded(h) ==
    /\ Cardinality(Entries(client)) < scene.entries
    /\ Do(RequestDialogEntry(client, h, {}))

SetGhost == scene.ghosting /\ Do([client EXCEPT !.ghost = ~@])

-----------------------------------------------------------------------------
(* The main loop. *)

RunPostponedCall ==
    /\ client.queued
    /\ Do(SendDialogRequests([client EXCEPT !.queued = FALSE]))

DeadlinePasses(h) ==
    /\ HasState(client, h) /\ client.states[h].when = "later"
    /\ Do([client EXCEPT !.states[h].when = "passed"])

ReadTimer ==
    /\ client.timer /\ \E h \in WillRead(client) : client.states[h].when = "passed"
    /\ Do(SendReadRequests([client EXCEPT !.timer = FALSE]))

\* What follows the use of an erased State is undefined: the program goes on,
\* or it ends.
Crash ==
    /\ client.dangling
    /\ Do([client EXCEPT !.alive = FALSE])

-----------------------------------------------------------------------------
(* The server. *)

Entry(h) ==
    [top |-> server[h].top, read |-> server[h].read,
     unread |-> Cardinality(Incoming(server[h].read + 1, server[h].top))]

\* No answer made earlier about the chat is still to come.
InOrder(h) == \A r \in Entries(client) : r.answer = "none" \/ h \notin r.chats

\* The turn of the next answer, and whether it is this one's.
NextTurn ==
    IF scene.ordered THEN Cardinality({r \in client.net : r.turn # 0}) + 1 ELSE 0
ItsTurn(r) == r.turn < 2
Received(r) ==
    [client EXCEPT !.net = {[q EXCEPT !.turn = IF @ = 0 THEN 0 ELSE @ - 1] : q \in @ \ {r}}]

Answers == {"done"} \union IF scene.failing THEN {"failed"} ELSE {}

ServeRead(r, answer) ==
    /\ r.type = "ReadInbox" /\ r.answer = "none"
    /\ client' = [client EXCEPT !.net = (@ \ {r}) \union 
                 {[r EXCEPT !.answer = answer, !.turn = NextTurn]}]
    /\ server' = IF answer = "failed" THEN server
                 ELSE [server EXCEPT ![r.chat].read = Max({@, r.till})]
    /\ UNCHANGED scene

ServeEntry(r, answer) ==
    /\ r.type = "Entry" /\ r.answer = "none"
    /\ Do([client EXCEPT !.net = (@ \ {r}) \union
             {[r EXCEPT !.answer = answer, !.turn = NextTurn,
                        !.entries = [h \in r.chats |-> Entry(h)]]}])

ReadAnswered(r) ==
    /\ r.type = "ReadInbox" /\ r.answer # "none" /\ ItsTurn(r)
    /\ Do(ReadAnswer(Received(r), r))

EntryAnswered(r) ==
    /\ r.type = "Entry" /\ r.answer # "none" /\ ItsTurn(r)
    /\ Do(EntryAnswer(Received(r), r))

SliceAnswered(r, answer) ==
    /\ r.type = "History"
    /\ Do(SliceAnswer(client, r, answer))

RequestAnswered(r) ==
    /\ r.type \in {"Send", "Delete"} /\ r.answer = "none"
    /\ Do(FinishSentRequest(client, r.chat, r.id))

\* channels.deleteChannel, whether it is done or refused: nobody calls `finish', and
\* the request stays where it is.
ChannelDeletion(r) ==
    /\ r.type = "Delete" /\ r.answer = "none" /\ r.chat \in Channel
    /\ Do([client EXCEPT !.net = (@ \ {r}) \union {[r EXCEPT !.answer = "ignored"]}])

\* An incoming message is counted, or the count asked for.
NewMessage(h) ==
    /\ server[h].top < scene.top /\ InOrder(h)
    /\ UNCHANGED scene
    /\ server' = [server EXCEPT ![h].top = @ + 1]
    /\ LET c == [client EXCEPT !.chat[h].last = server[h].top + 1]
           unread == client.chat[h].unread
       IN  client' = IF unread = Unknown THEN RequestDialogEntry(c, h, {})
                     ELSE IF server[h].top + 1 \in Out THEN c
                     ELSE [c EXCEPT !.chat[h] = SetUnreadCount(@, unread + 1)]

\* The chat is read on another device (applyInboxReadUpdate).
ReadElsewhere(h, upTo) ==
    /\ upTo > server[h].read /\ upTo <= server[h].top /\ InOrder(h)
    /\ UNCHANGED scene
    /\ server' = [server EXCEPT ![h].read = upTo]
    /\ client' = IF ReadBefore(client.chat[h]) > upTo THEN client
                 ELSE InboxRead(client, h, upTo,
                                Cardinality(Incoming(upTo + 1, server[h].top)))

\* The chat is in a slice of the list of dialogs.
DialogsLoaded(h) ==
    /\ InOrder(h)
    /\ Do(ApplyDialog(client, h, Entry(h)))

-----------------------------------------------------------------------------
Next ==
    /\ client.alive
    /\ \/ \E h \in Chat :
            \/ \E type \in UserTypes : UserRequests(h, type)
            \/ \E id \in DOMAIN client.byRequest : CancelRequest(h, id)
            \/ \E till \in 1..scene.top : ViewMessage(h, till) \/ ReadElsewhere(h, till)
            \/ ViewNewMessage(h) \/ ReadInbox(h) \/ CloseChat(h)
            \/ EntryIsNeeded(h) \/ DeadlinePasses(h)
            \/ NewMessage(h) \/ DialogsLoaded(h)
       \/ SetGhost \/ RunPostponedCall \/ ReadTimer \/ Crash
       \/ \E r \in client.net :
            \/ \E answer \in Answers :
                 ServeRead(r, answer) \/ ServeEntry(r, answer) \/ SliceAnswered(r, answer)
            \/ ReadAnswered(r) \/ EntryAnswered(r) \/ RequestAnswered(r) \/ ChannelDeletion(r)

Spec == Init /\ [][Next]_vars

\* The main loop runs what is posted and its timers, and every request is
\* answered: MTProto repeats it until it is.
Answered(type) ==
    \E r \in client.net :
        /\ r.type = type
        /\ \/ \E answer \in Answers :
                ServeRead(r, answer) \/ ServeEntry(r, answer) \/ SliceAnswered(r, answer)
           \/ ReadAnswered(r) \/ EntryAnswered(r) \/ RequestAnswered(r) \/ ChannelDeletion(r)

Fairness ==
    /\ WF_vars(RunPostponedCall) /\ WF_vars(ReadTimer)
    /\ \A h \in AllChats : WF_vars(DeadlinePasses(h))
    /\ \A type \in Types \union {"ReadInbox", "Entry"} : WF_vars(Answered(type))

FairSpec == Spec /\ Fairness

-----------------------------------------------------------------------------
(* Properties. *)

NetRequests(h) == {r \in client.net : r.type # "Entry" /\ r.chat = h}
Waiting(h) == h \in DOMAIN client.dialog \union DOMAIN client.pending
Busy(h) == PostponeEntryRequest(StateOf(client, h))

\* The deletions of the channel that the server has answered and that never end.
Unfinished(h) == {r \in NetRequests(h) : r.answer = "ignored"}

\* The assertions of sendReadRequest() hold whenever they are reached, in
\* whichever order the server answers: the chat of a read that is answered
\* has its state, no older read is mistaken for the last one, and what is
\* to be read is further than what was sent.  And the one timer for all chats
\* runs while any read is put off, whichever reads it is stopped for.
ReadsInOrder ==
    /\ WillRead(client) # {} => client.timer
    /\ \A h \in DOMAIN client.states : LET s == client.states[h] IN
         s.will # 0 => s.will > s.sentTill
    /\ \A r \in client.net : r.type = "ReadInbox" =>
         /\ HasState(client, r.chat)
         /\ LET s == client.states[r.chat]
            IN  s.sentTill = 0 \/ s.sentTill >= r.till

\* The assertions of finishSentRequest() hold: an entry that is postponed
\* has its callbacks in _dialogRequests, and never in both maps.  Whoever
\* waits for an entry has it on its way: the call is posted, the request
\* is sent, or something is in the table that has to end first; and no
\* callback that was given with such a request is lost, or called twice.
Callbacks == UNION ({client.dialog[h] : h \in DOMAIN client.dialog}
                      \union {client.pending[h] : h \in DOMAIN client.pending})
EntryIsComing ==
    /\ DOMAIN client.dialog \intersect DOMAIN client.pending = {}
    /\ client.pending # <<>> => client.queued
    /\ \A h \in DOMAIN client.dialog :
         \/ StateOf(client, h).entry /\ Busy(h)
         \/ \E r \in Entries(client) : h \in r.chats
    /\ \A h \in DOMAIN client.states :
         client.states[h].entry => h \in DOMAIN client.dialog
    /\ client.called \union Callbacks = 1..client.calls
    /\ client.called \intersect Callbacks = {}

\* No slice is on its way while messages are being deleted, and slices that
\* were postponed are only so as long as some are.
DeletionsExcludeSlices ==
    \A h \in DOMAIN client.states : LET s == client.states[h] IN
        /\ PostponeHistoryRequest(s) => OfType(s, {"History"}) = {}
        /\ s.postponed # {} => PostponeHistoryRequest(s)

\* The table of requests is the list of those the server has to answer, or
\* that are postponed: none is forgotten, and none is waited for in vain but the
\* deletions of channels, whose answers nobody takes.  Reads that ghost mode
\* dropped are left to DroppedReadIsGone.
TableIsTheNet ==
    \A h \in Chat : LET s == StateOf(client, h)
                       table == {r \in s.sent : r.id \notin client.dropped}
                       awaited == NetRequests(h) \ Unfinished(h) IN
        /\ table = {[id |-> r.id, type |-> r.type] : r \in awaited \union Unfinished(h)}
        /\ {id \in DOMAIN client.byRequest : client.byRequest[id] = h} \ client.dropped
             = s.postponed \union {r.id : r \in table}

\* GhostController: a hook that returns true has the request dropped.  So no
\* dropped read is in the table: it would never be answered.
DroppedReadIsGone ==
    \A h \in DOMAIN client.states : \A r \in client.states[h].sent : r.id \notin client.dropped

InOrderScene == scene.ordered /\ ~scene.failing /\ ~scene.ghosting

\* What the client shows as read the server knows, or is being told: as long
\* as no request fails, answers come in order, ghost mode is off, and messages
\* are incoming.
ShownReadIsTold ==
    InOrderScene => \A h \in Chat : LET t == client.chat[h] IN
        t.before > 1 => t.before - 1 <=
            Max({server[h].read, StateOf(client, h).will}
                  \union {r.till : r \in {q \in NetRequests(h) : q.type = "ReadInbox"}})

\* Once nothing is going on in a chat, its unread count is the server's, if answers come
\* in order and none is a failure.
Quiet(h) == ~HasState(client, h) /\ ~Waiting(h) /\ \A r \in Entries(client) : h \notin r.chats
CountSettles ==
    InOrderScene => \A h \in Chat : Quiet(h) /\ client.chat[h].unread # Unknown
                      => client.chat[h].unread = Entry(h).unread

\* An answer for an entry never ends the wait for it while anything but a
\* slice is being done in the chat.
EntryWaitsForRequests ==
    [][\A h \in Chat : Waiting(h) /\ ~Waiting(h)' => ~(h \in DOMAIN client.dialog /\ Busy(h))]_vars

\* Whoever waits for an entry gets it, unless the chat is a channel that was to be
\* deleted: the deletion stays in the table, and postpones the entry for ever.
EntryArrives == \A h \in AllChats : Waiting(h) ~> ~Waiting(h) \/ Unfinished(h) # {}

\* A slice that was asked for is loaded, failed or cancelled, and what is sent or
\* deleted ends, unless it is about such a channel.
ChatsOf(id) == {h \in Chat : id \in DOMAIN client.byRequest /\ client.byRequest[id] = h}
SliceEnds == \A id \in 1..MaxRequests :
                ChatsOf(id) # {} ~> \A h \in ChatsOf(id) : Unfinished(h) # {}
=============================================================================
