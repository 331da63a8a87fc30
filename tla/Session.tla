------------------------------ MODULE Session ------------------------------
(***************************************************************************)
(* One MTProto session: MTP::details::Session and what MTP::Instance keeps *)
(* of its requests, on the main thread, SessionPrivate on its own thread,  *)
(* and the server at the other end of a connection that breaks.  The two   *)
(* threads share the maps of SessionData, each under a lock; a handler of  *)
(* SessionPrivate that moves a request between two maps under two locks is *)
(* two actions here, and so is Instance::cancel().                         *)
(*                                                                         *)
(* Message ids are numbers, given in the order of their creation.  Only    *)
(* requests have one: a container is named by the ids in it, a request for *)
(* states by the ids it asks about.  Keys exist and are bound, the clock   *)
(* of the client is right, and a message arrives whole or not at all.      *)
(***************************************************************************)
EXTENDS ReceivedIds, Sequences, Functions

CONSTANTS
    Requests,   \* bound: requests are 1..Requests
    WithHandler,\* those that have a done or a fail handler
    Kinds,      \* what may go wrong
    MaxFaults,  \* bound: how often something goes wrong
    MaxUpdates, \* bound: updates the server sends
    Cutting     \* whether requests may be too large for one container

Request == 1..Requests
FaultKinds == {"disconnect", "forget", "stop", "refuse", "reset", "fatal",
               "error", "cancel", "timeout"}

ASSUME BoundsAssumption ==
    /\ Requests \in Nat /\ WithHandler \subseteq Request
    /\ Kinds \subseteq FaultKinds /\ MaxFaults \in Nat /\ MaxUpdates \in Nat
    /\ Cutting \in BOOLEAN

VARIABLES
    main,     \* MTP::Instance: the requests it knows
    client,   \* SessionData and SessionPrivate
    ids,      \* SessionPrivate::_receivedMessageIds
    net,      \* packets and messages of the connection
    server,   \* the server's end of the session
    accepted, \* history: ids of messages handled in this session
    repeated, \* history: whether one was handled again
    runs,     \* history: per request, how often this server session ran it
    fails,    \* history: per request, how often it said it had failed
    faults    \* how much went wrong

vars == <<main, client, ids, net, server, accepted, repeated, runs, fails, faults>>

None == 0
Nothing == <<>>
Without(f, S) == Restrict(f, DOMAIN f \ S)

\* f, and g where f is not defined
f ++ g == [x \in DOMAIN f \union DOMAIN g |-> IF x \in DOMAIN f THEN f[x] ELSE g[x]]

\* A new SessionPrivate, in a new session.
NewPrivate ==
    [state      |-> "off",   \* no connection, connecting or connected
     salt       |-> FALSE,   \* whether _sessionSalt is known
     started    |-> FALSE,   \* _sessionMarkedAsStarted
     reset      |-> FALSE,   \* _needSessionReset
     ping       |-> FALSE,   \* _pingIdToSend
     resending  |-> Nothing, \* _resendingIds
     acked      |-> Nothing, \* _ackedIds
     containers |-> {},      \* _sentContainers
     ackData    |-> {},      \* _ackRequestData
     stateData  |-> {},      \* _stateRequestData
     stateReqs  |-> {},      \* _stateAndResendRequests
     timer      |-> FALSE,   \* _checkSentRequestsTimer
     moving     |-> Nothing, \* taken from haveSent, not yet in toSend
     sending    |-> Nothing] \* taken from toSend, not yet in haveSent

Init ==
    /\ main = [asked |-> 0, known |-> {}, handlers |-> {}, delayed |-> {},
               cancelling |-> Nothing]
    /\ client = NewPrivate ++
         [session  |-> 1,
          toSend   |-> {}, haveSent |-> Nothing, received |-> Nothing,
          msgId    |-> [r \in Request |-> None], \* in the serialized request
          forced   |-> {},                       \* forceSendInContainer
          lastId   |-> 0,
          since    |-> 0]                        \* history: lastId at the session's start
    /\ ids = {} /\ accepted = {} /\ repeated = FALSE
    /\ net = [up |-> Nothing, down |-> Nothing]
    /\ server = [session |-> 0, online |-> FALSE, got |-> {}, todo |-> Nothing,
                 out |-> {}, sent |-> {}, lastId |-> 0, updates |-> 0]
    /\ runs = [r \in Request |-> 0] /\ fails = [r \in Request |-> 0]
    /\ faults = 0

Fault(kind) == kind \in Kinds /\ faults < MaxFaults /\ faults' = faults + 1

-----------------------------------------------------------------------------
\* The maps of sent requests.

HasHandler(r) == r \in main.handlers

WasSent(c, m) ==
    IF m \in DOMAIN c.resending THEN c.resending[m]
    ELSE IF m \in DOMAIN c.acked THEN c.acked[m]
    ELSE IF m \in DOMAIN c.haveSent THEN c.haveSent[m]
    ELSE None

\* _ackedIds keeps the largest ids.
Trimmed(f) == Restrict(f, Shrunk(DOMAIN f))

\* Faulty variant: an acknowledgement stands for the response.
DoneAnyway(f, ms, byResponse) == ms \intersect DOMAIN f

\* A request that waits for its response is not done with by an
\* acknowledgement.
Done(f, ms, byResponse) ==
    {m \in ms \intersect DOMAIN f : byResponse \/ ~HasHandler(f[m])}

\* Request ids in requestsAcked()
RequestsAcked(c, ms, byResponse) ==
    LET done(f) == Done(f, ms, byResponse)
        sent    == done(c.haveSent)
        resent  == done(c.resending) \ DOMAIN c.haveSent
        found   == {m \in resent : c.resending[m] \in c.toSend}
    IN  [c EXCEPT !.haveSent  = Without(@, sent),
                  !.resending = Without(@, resent),
                  !.toSend    = @ \ {c.resending[m] : m \in found},
                  !.acked     = Trimmed(@ ++ Restrict(c.haveSent, sent)
                                          ++ Restrict(c.resending, found))]

ContainerAcked(c, ms) ==
    IF ms \in c.containers
    THEN RequestsAcked([c EXCEPT !.containers = @ \ {ms}], ms, FALSE)
    ELSE c

\* resend() and resendAll() take requests out of haveSent, under its lock,
\* and put them into toSend afterwards, under the other.
Resend(c, ms) ==
    LET found == ms \intersect DOMAIN c.haveSent
    IN  [c EXCEPT !.moving = Restrict(c.haveSent, found) ++ @,
                  !.haveSent = Without(@, found)]

\* Faulty variant: a new connection does not send again what was sent before.
ResendNothing(c) == c

ResendAll(c) == Resend(c, DOMAIN c.haveSent)
ResendContainer(c, ms) == Resend([c EXCEPT !.containers = @ \ {ms}], ms)

PutMoving(c) ==
    [c EXCEPT !.moving    = Nothing,
              !.resending = @ ++ c.moving,
              !.toSend    = @ \union Range(c.moving),
              !.forced    = @ \union Range(c.moving)]

Push(c, r, ok) == [c EXCEPT !.received = Append(@, [request |-> r, ok |-> ok])]

ChangeSessionId(c) ==
    [c EXCEPT !.session = @ + 1, !.since = c.lastId, !.started = FALSE,
              !.ackData = {}, !.stateData = {}]

\* restart(): the connection is dropped, the session may be a new one.
Restart(c) ==
    LET d == [c EXCEPT !.state = "off"]
    IN  IF c.reset THEN [ChangeSessionId(d) EXCEPT !.reset = FALSE] ELSE d

\* SessionPrivate handles one event at a time.
Idle == client.moving = Nothing /\ client.sending = Nothing
MainIdle == main.cancelling = Nothing

-----------------------------------------------------------------------------
\* The main thread.

\* Faulty variant: the request is sent again under the id that failed.
SendPreparedAsBefore(c, r) == [c EXCEPT !.toSend = @ \union {r}]

\* sendPrepared(): the request gets a new message id.
SendPrepared(c, r) == [c EXCEPT !.toSend = @ \union {r}, !.msgId[r] = None]

SendRequest ==
    /\ MainIdle /\ main.asked < Requests
    /\ LET r == main.asked + 1 IN
         /\ main' = [main EXCEPT !.asked = r, !.known = @ \union {r},
                       !.handlers = @ \union ({r} \intersect WithHandler)]
         /\ client' = SendPrepared(client, r)
    /\ UNCHANGED <<ids, net, server, accepted, repeated, runs, fails, faults>>

\* processCallback() of a response.  An error that the instance handles by
\* itself puts the request off and keeps its handler.
ProcessReply ==
    /\ MainIdle /\ client.received # Nothing
    /\ LET reply == Head(client.received)
           r == reply.request
       IN  main' = IF HasHandler(r) /\ ~reply.ok
                   THEN [main EXCEPT !.delayed = @ \union {r}]
                   ELSE [main EXCEPT !.handlers = @ \ {r}, !.known = @ \ {r}]
    /\ client' = [client EXCEPT !.received = Tail(@)]
    /\ UNCHANGED <<ids, net, server, accepted, repeated, runs, fails, faults>>

CheckDelayedRequests ==
    /\ MainIdle
    /\ \E r \in main.delayed :
         /\ main' = [main EXCEPT !.delayed = @ \ {r}]
         /\ client' = IF r \in main.known THEN SendPrepared(client, r) ELSE client
    /\ UNCHANGED <<ids, net, server, accepted, repeated, runs, fails, faults>>

\* Instance::cancel(): the message id is read, then the request is removed
\* from the one map, then from the other.
Cancel ==
    /\ MainIdle /\ Fault("cancel")
    /\ \E r \in main.known :
         main' = [main EXCEPT !.known = @ \ {r},
                    !.cancelling = [request |-> r, msgId |-> client.msgId[r], next |-> "toSend"]]
    /\ UNCHANGED <<client, ids, net, server, accepted, repeated, runs, fails>>

CancelToSend ==
    /\ ~MainIdle /\ main.cancelling.next = "toSend"
    /\ main' = [main EXCEPT !.cancelling.next = "haveSent"]
    /\ client' = [client EXCEPT !.toSend = @ \ {main.cancelling.request}]
    /\ UNCHANGED <<ids, net, server, accepted, repeated, runs, fails, faults>>

CancelHaveSent ==
    /\ ~MainIdle /\ main.cancelling.next = "haveSent"
    /\ LET r == main.cancelling.request IN
         main' = [main EXCEPT !.handlers = @ \ {r}, !.cancelling = Nothing]
    /\ client' = [client EXCEPT !.haveSent = Without(@, {main.cancelling.msgId})]
    /\ UNCHANGED <<ids, net, server, accepted, repeated, runs, fails, faults>>

\* stop(), and start() when there is something to send: SessionData stays.
Disconnected == net' = [up |-> Nothing, down |-> Nothing]
                /\ server' = [server EXCEPT !.sent = {}, !.online = FALSE]

StopAndStart ==
    /\ MainIdle /\ Idle /\ Fault("stop")
    /\ client' = NewPrivate ++ [client EXCEPT !.session = @ + 1, !.since = client.lastId]
    /\ ids' = {} /\ accepted' = {}
    /\ Disconnected
    /\ UNCHANGED <<main, repeated, runs, fails>>

MainNext ==
    \/ SendRequest \/ ProcessReply \/ CheckDelayedRequests
    \/ Cancel \/ CancelToSend \/ CancelHaveSent \/ StopAndStart

-----------------------------------------------------------------------------
\* SessionPrivate: connecting.

\* authKeyChecked(): with a salt everything sent before is sent again.
Connect ==
    /\ Idle /\ client.state = "off"
    /\ client' = [IF client.salt THEN ResendAll(client) ELSE client EXCEPT
                    !.state = IF client.salt THEN "connected" ELSE "connecting",
                    !.ping = client.salt]
    /\ UNCHANGED <<main, ids, net, server, accepted, repeated, runs, fails, faults>>

\* bad_server_salt answers the first ping of a session without a salt.
SaltArrives ==
    /\ Idle /\ client.state = "connecting"
    /\ client' = [ResendAll(client) EXCEPT !.salt = TRUE, !.state = "connected"]
    /\ UNCHANGED <<main, ids, net, server, accepted, repeated, runs, fails, faults>>

\* The end of resend() and resendAll().
FinishResend ==
    /\ client.moving # Nothing
    /\ client' = PutMoving(client)
    /\ UNCHANGED <<main, ids, net, server, accepted, repeated, runs, fails, faults>>

ConnectionBreaks ==
    /\ Idle /\ client.state # "off" /\ Fault("disconnect")
    /\ client' = Restart(client)
    /\ Disconnected
    /\ UNCHANGED <<main, ids, accepted, repeated, runs, fails>>

-----------------------------------------------------------------------------
\* SessionPrivate: sending.

\* The requests of a container: toSend is ordered by request id, and cut
\* when it is too large.
Batches ==
    IF client.toSend = {} THEN {{}}
    ELSE {S \in SUBSET client.toSend :
            /\ S # {} /\ (Cutting \/ S = client.toSend)
            /\ \A r \in S : \A q \in client.toSend \ S : r < q}

\* Faulty variants: a request keeps its id in a new session; a request that
\* is sent again never keeps it.
FreshUnnumbered(c, S, forceNewMsgId) == {r \in S : c.msgId[r] = None}
FreshAlways(c, S, forceNewMsgId) == S

\* Requests that have no message id, and in a new session all, get a new one.
Fresh(c, S, forceNewMsgId) == {r \in S : c.msgId[r] = None \/ forceNewMsgId}

\* prepareToSend(), for all requests of a batch: replaceMsgId() renames the
\* old id wherever it is still known.
PrepareToSend(c, S, forceNewMsgId) ==
    LET fresh == Fresh(c, S, forceNewMsgId)
        old   == {c.msgId[r] : r \in fresh} \ {None}
        id(r) == c.lastId + Cardinality({q \in fresh : q <= r})
        moved(m) == IF m \in old THEN id(CHOOSE r \in fresh : c.msgId[r] = m) ELSE m
        renamed(f) == [m \in {moved(k) : k \in DOMAIN f} |->
                          f[CHOOSE k \in DOMAIN f : moved(k) = m]]
    IN  [c EXCEPT !.lastId     = @ + Cardinality(fresh),
                  !.msgId      = [r \in fresh |-> id(r)] ++ @,
                  !.resending  = renamed(Without(@, {c.msgId[r] : r \in S})),
                  !.acked      = renamed(@),
                  !.haveSent   = renamed(@),
                  !.containers = {{moved(m) : m \in k} : k \in @}]

Sent(c, S) == [m \in {c.msgId[r] : r \in S} |-> CHOOSE r \in S : c.msgId[r] = m]

\* The packet: the requests and what goes with them.
Packet(c, S, container) ==
    [session |-> c.session, messages |-> Sent(c, S), container |-> container,
     acks |-> c.ackData, states |-> c.stateData]

Served(c) ==
    [c EXCEPT !.started = TRUE, !.ping = FALSE, !.ackData = {}, !.stateData = {},
              !.stateReqs = @ \union ({c.stateData} \ {{}})]

ServiceCount(c) ==
    Cardinality({x \in {1} : c.ping}) + Cardinality({x \in {1} : c.ackData # {}})
      + Cardinality({x \in {1} : c.stateData # {}})

\* tryToSend(), one request that was not sent before: it leaves toSend under
\* one lock and enters haveSent under the other.
SendSingle ==
    /\ Idle /\ client.state = "connected" /\ ServiceCount(client) = 0
    /\ \E r \in client.toSend \ client.forced :
         /\ {r} \in Batches
         /\ LET c == PrepareToSend([client EXCEPT !.toSend = @ \ {r}], {r}, ~client.started)
            IN  client' = [c EXCEPT !.started = TRUE, !.sending = Sent(c, {r})]
    /\ UNCHANGED <<main, ids, net, server, accepted, repeated, runs, fails, faults>>

FinishSingle ==
    /\ client.sending # Nothing
    /\ client' = [client EXCEPT !.haveSent = @ ++ client.sending, !.sending = Nothing]
    /\ net' = [net EXCEPT !.up = Append(@, Packet(client, Range(client.sending), FALSE))]
    /\ UNCHANGED <<main, ids, server, accepted, repeated, runs, fails, faults>>

\* tryToSend(), a container: under both locks.
SendContainer ==
    /\ Idle /\ client.state = "connected"
    /\ \E S \in Batches :
         LET c == PrepareToSend([client EXCEPT !.toSend = @ \ S], S, ~client.started) IN
         /\ Cardinality(S) + ServiceCount(client) > 1 \/ S \intersect client.forced # {}
         /\ client' = [Served(c) EXCEPT
              !.haveSent = @ ++ Sent(c, S),
              !.containers = @ \union {DOMAIN Sent(c, S)},
              !.timer = @ \/ S # {}]
         /\ net' = [net EXCEPT !.up = Append(@, Packet(c, S, TRUE))]
    /\ UNCHANGED <<main, ids, server, accepted, repeated, runs, fails, faults>>

\* tryToSend(), nothing but one service message.
SendService ==
    /\ Idle /\ client.state = "connected" /\ client.toSend = {} /\ ServiceCount(client) = 1
    /\ client' = Served(client)
    /\ net' = [net EXCEPT !.up = Append(@, Packet(client, {}, FALSE))]
    /\ UNCHANGED <<main, ids, server, accepted, repeated, runs, fails, faults>>

\* checkSentRequests(): the state of old requests is asked for.  Which ones
\* are old depends on the clock.
CheckSentRequests ==
    /\ Idle /\ client.timer /\ Fault("timeout")
    /\ \E old \in SUBSET DOMAIN client.haveSent :
         client' = [client EXCEPT !.stateData = @ \union old,
                                  !.timer = old # DOMAIN client.haveSent]
    /\ UNCHANGED <<main, ids, net, server, accepted, repeated, runs, fails>>

\* clearOldContainers()
ClearOldContainers ==
    /\ Idle /\ Fault("timeout")
    /\ \E ms \in client.containers : client' = ResendContainer(client, ms)
    /\ UNCHANGED <<main, ids, net, server, accepted, repeated, runs, fails>>

-----------------------------------------------------------------------------
\* SessionPrivate: receiving.

NeedsAck(x) == x.kind \in {"result", "update", "created"}

\* Faulty variant: the response does not take the request out of the map.
HandleResultKeepsSent(c, x) ==
    LET r == WasSent(c, x.msgId) IN IF r # None THEN Push(c, r, x.ok) ELSE c

\* rpc_result
HandleResult(c, x) ==
    LET d == RequestsAcked(c, {x.msgId}, TRUE)
        r == WasSent(d, x.msgId)
    IN  IF r # None THEN Push(d, r, x.ok) ELSE d

\* msgs_ack
HandleAck(c, x) ==
    IF x.container THEN ContainerAcked(c, x.ids) ELSE RequestsAcked(c, x.ids, FALSE)

Known(c, x) == IF x.container THEN x.ids \in c.containers
                              ELSE \A m \in x.ids : WasSent(c, m) # None

\* bad_msg_notification and bad_server_salt
HandleBad(c, x) ==
    CASE ~Known(c, x) -> c
      [] Known(c, x) /\ x.what = "refuse" ->
           IF x.container THEN ResendContainer(c, x.ids) ELSE Resend(c, x.ids)
      [] Known(c, x) /\ x.what = "reset" -> [c EXCEPT !.reset = TRUE]
      [] OTHER -> \* fatal
           IF x.container THEN c
           ELSE Push(c, WasSent(c, CHOOSE m \in x.ids : TRUE), FALSE)

\* msgs_state_info, for a request of states that was not answered yet
HandleStates(c, x) ==
    LET d      == [c EXCEPT !.stateReqs = @ \ {x.ids}]
        lost   == (x.ids \ x.got) \intersect DOMAIN d.haveSent
        acked  == {m \in x.got \intersect x.ids :
                      m \in DOMAIN d.haveSent \/ m \in DOMAIN d.resending}
    IN  IF x.ids \in c.stateReqs THEN Resend(RequestsAcked(d, acked, FALSE), lost) ELSE c

\* new_session_created: requests with smaller ids did not reach the server.
HandleCreated(c, x) == Resend(c, {m \in DOMAIN c.haveSent : m < x.first})

Handle(c, x) ==
    CASE x.kind = "result"  -> HandleResult(c, x)
      [] x.kind = "ack"     -> HandleAck(c, x)
      [] x.kind = "bad"     -> HandleBad(c, x)
      [] x.kind = "states"  -> HandleStates(c, x)
      [] x.kind = "created" -> HandleCreated(c, x)
      [] OTHER -> c \* an update, which is for the layers above

\* handleReceived(): a message is handled if its id is new, and one that is
\* too old to tell resets the session.
HandleReceived ==
    /\ Idle /\ net.down # Nothing
    /\ LET x == Head(net.down)
           success == Fits(ids, x.id)
           tooOld == ~success /\ x.id \notin ids
           c == IF NeedsAck(x) THEN [client EXCEPT !.ackData = @ \union {x.id}] ELSE client
           d == IF success THEN Handle(c, x) ELSE [c EXCEPT !.reset = tooOld]
       IN  /\ client' = IF d.reset THEN Restart(d) ELSE d
           /\ repeated' = (repeated \/ (success /\ x.id \in accepted))
           /\ IF d.reset
              THEN ids' = {} /\ accepted' = {} /\ Disconnected
              ELSE /\ ids' = Shrunk(Registered(ids, x.id))
                   /\ accepted' = accepted \union {y \in {x.id} : success}
                   /\ net' = [net EXCEPT !.down = Tail(@)]
                   /\ UNCHANGED server
    /\ UNCHANGED <<main, runs, fails, faults>>

PrivateNext ==
    \/ Connect \/ SaltArrives \/ FinishResend \/ ConnectionBreaks
    \/ SendSingle \/ FinishSingle \/ SendContainer \/ SendService
    \/ CheckSentRequests \/ ClearOldContainers \/ HandleReceived

-----------------------------------------------------------------------------
\* The server.  It runs a message once in a session, sends what the client
\* has not acknowledged again in a new connection, and forgets a session
\* only together with the connection.

Messages(s, list) ==
    [i \in DOMAIN list |-> [id |-> s.lastId + i] ++ list[i]]

Sending(s, list) ==
    LET ms == Messages(s, list)
    IN  [s EXCEPT !.lastId = @ + Len(list),
                  !.out  = @ \union {x \in Range(ms) : NeedsAck(x)},
                  !.sent = @ \union {x.id : x \in Range(ms)}]

NewServer(session) ==
    [server EXCEPT !.session = session, !.got = {}, !.todo = Nothing, !.out = {}]

IsNew(p) == p.session # server.session

\* The server with the packet's messages, each taken once in a session.
InSession(p) == IF IsNew(p) THEN NewServer(p.session) ELSE server
Unseen(p) == DOMAIN p.messages \ InSession(p).got
Taken(p) ==
    [InSession(p) EXCEPT !.online = TRUE, !.got = @ \union Unseen(p),
                         !.todo = @ ++ Restrict(p.messages, Unseen(p)),
                         !.out = {x \in @ : x.id \notin p.acks}]

Created(p, first) == IF IsNew(p) THEN <<[kind |-> "created", first |-> first]>> ELSE <<>>
Ack(p) == IF p.messages = Nothing THEN <<>>
          ELSE <<[kind |-> "ack", container |-> p.container, ids |-> DOMAIN p.messages]>>
States(p) == IF p.states = {} THEN <<>>
             ELSE <<[kind |-> "states", ids |-> p.states, got |-> p.states \intersect Taken(p).got]>>
Replies(p, first, acking) ==
    Created(p, first) \o (IF acking THEN Ack(p) ELSE <<>>) \o States(p)

ServerReceives ==
    /\ net.up # Nothing
    /\ LET p == Head(net.up)
       IN  /\ \E first \in IF IsNew(p) THEN DOMAIN p.messages \union {client.lastId + 1} ELSE {0},
                 acking \in BOOLEAN :
                LET list == Replies(p, first, acking)
                IN  /\ server' = Sending(Taken(p), list)
                    /\ net' = [up |-> Tail(net.up), down |-> net.down \o Messages(Taken(p), list)]
           /\ runs' = [r \in Request |-> (IF IsNew(p) THEN 0 ELSE runs[r])
                  + Cardinality({m \in Unseen(p) : p.messages[m] = r})]
    /\ UNCHANGED <<main, client, ids, accepted, repeated, fails, faults>>

\* The packet is not accepted: a wrong salt or time, an order of ids that
\* makes no sense, or an error that is said to be fatal.
ServerRefuses ==
    /\ net.up # Nothing /\ Head(net.up).messages # Nothing
    /\ LET p == Head(net.up) IN
       \E what \in {"refuse", "reset", "fatal"} :
         LET list == <<[kind |-> "bad", what |-> what, container |-> p.container,
                        ids |-> DOMAIN p.messages]>>
         IN  /\ Fault(what)
             /\ server' = Sending(server, list)
             /\ net' = [up |-> Tail(net.up), down |-> net.down \o Messages(server, list)]
             /\ fails' = [r \in Request |-> fails[r] +
                  (IF what = "fatal" /\ r \in Range(p.messages) THEN 1 ELSE 0)]
    /\ UNCHANGED <<main, client, ids, accepted, repeated, runs>>

ServerAnswers ==
    /\ server.online
    /\ \E m \in DOMAIN server.todo, ok \in BOOLEAN :
         LET list == <<[kind |-> "result", msgId |-> m, ok |-> ok]>>
             s == [server EXCEPT !.todo = Without(@, {m})]
         IN  /\ IF ok THEN UNCHANGED <<faults, fails>>
                ELSE /\ Fault("error")
                     /\ fails' = [fails EXCEPT ![server.todo[m]] = @ + 1]
             /\ server' = Sending(s, list)
             /\ net' = [net EXCEPT !.down = @ \o Messages(s, list)]
    /\ UNCHANGED <<main, client, ids, accepted, repeated, runs>>

ServerUpdates ==
    /\ server.online /\ server.updates < MaxUpdates
    /\ LET list == <<[kind |-> "update"]>>
       IN  /\ server' = [Sending(server, list) EXCEPT !.updates = @ + 1]
           /\ net' = [net EXCEPT !.down = @ \o Messages(server, list)]
    /\ UNCHANGED <<main, client, ids, accepted, repeated, runs, fails, faults>>

\* What was not acknowledged before the connection broke is sent again.
ServerRepeats ==
    /\ server.online
    /\ \E x \in server.out :
         /\ x.id \notin server.sent
         /\ server' = [server EXCEPT !.sent = @ \union {x.id}]
         /\ net' = [net EXCEPT !.down = Append(@, x)]
    /\ UNCHANGED <<main, client, ids, accepted, repeated, runs, fails, faults>>

ServerForgets ==
    /\ Idle /\ client.state # "off" /\ Fault("forget")
    /\ client' = Restart(client)
    /\ net' = [up |-> Nothing, down |-> Nothing]
    /\ server' = [NewServer(0) EXCEPT !.sent = {}, !.online = FALSE]
    /\ UNCHANGED <<main, ids, accepted, repeated, runs, fails>>

ServerNext ==
    \/ ServerReceives \/ ServerRefuses \/ ServerAnswers
    \/ ServerUpdates \/ ServerRepeats \/ ServerForgets

Next == MainNext \/ PrivateNext \/ ServerNext

Spec == Init /\ [][Next]_vars

\* The threads run, connections succeed in the end, and the server answers.
Fairness ==
    /\ WF_vars(ProcessReply) /\ WF_vars(CheckDelayedRequests)
    /\ WF_vars(CancelToSend) /\ WF_vars(CancelHaveSent)
    /\ WF_vars(Connect) /\ WF_vars(SaltArrives)
    /\ WF_vars(FinishResend) /\ WF_vars(FinishSingle)
    /\ WF_vars(SendSingle \/ SendContainer \/ SendService)
    /\ WF_vars(HandleReceived)
    /\ WF_vars(ServerReceives) /\ WF_vars(ServerAnswers) /\ WF_vars(ServerRepeats)

FairSpec == Spec /\ Fairness

-----------------------------------------------------------------------------
\* A request that waits for its answer is in one of the maps, on its way
\* between two of them, answered, or put off: none is forgotten.
RequestIsKept ==
    \A r \in main.handlers :
        \/ r \in client.toSend \/ r \in main.delayed
        \/ \E f \in {client.haveSent, client.moving, client.sending} : r \in Range(f)
        \/ \E i \in DOMAIN client.received : client.received[i].request = r
        \/ main.cancelling # Nothing /\ main.cancelling.request = r

\* A session of the server runs a request once, and again only after it
\* said that it had failed.
RunsOnce == \A r \in Request : runs[r] <= 1 + fails[r]

\* No message of the server is handled twice in a session.
HandledOnce == ~repeated

\* The message ids of a session are new ones.
FreshIds ==
    \A i \in DOMAIN net.up : \A m \in DOMAIN net.up[i].messages :
        net.up[i].session = client.session => m > client.since

\* replaceMsgId() says that the map of sent requests is locked, which it is
\* for containers only: so a request that has an id goes into one.
NumberedIsForced ==
    \A r \in Request :
        r \in client.toSend /\ client.msgId[r] # None => r \in client.forced

\* Every request is answered or cancelled.
Answered == \A r \in Request : r \in main.handlers ~> r \notin main.handlers

\* In the end nothing is left to be sent again.
Drains == <>[](client.toSend = {} /\ client.haveSent = Nothing)
=============================================================================
