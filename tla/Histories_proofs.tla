-------------------------- MODULE Histories_proofs --------------------------
(***************************************************************************)
(* Proofs about Histories for every set of chats, every scene and every    *)
(* number of requests: an inductive invariant of the requests about a      *)
(* chat, of the table they are in, and of the entries that are waited for. *)
(***************************************************************************)
EXTENDS Histories, FiniteSetTheorems, WellFoundedInduction, TLAPS

-----------------------------------------------------------------------------
(* The client's record, and what is kept of each chat.                       *)

Fields == {"states", "byRequest", "next", "timer", "dialog", "pending", "queued", "chat",
           "ghost", "net", "calls", "called", "dropped", "dangling", "alive"}

RowTypes == Types \union {"ReadInbox"}

Row == [id : Nat, type : RowTypes]

StateType ==
    [postponed : SUBSET Nat, sent : SUBSET Row, will : Nat, sentTill : Nat,
     when : {"none", "later", "passed"}, done : BOOLEAN, entry : BOOLEAN]

ChatType == [last : Int, before : Nat, unread : Int, loaded : BOOLEAN]

NetOK(r) ==
    IF r.type = "Entry"
    THEN /\ {"chats", "id", "type", "answer", "turn", "entries"} \subseteq DOMAIN r
         /\ r.chats \subseteq Chat
         /\ r.answer # "none" =>
              \A h \in r.chats : r.entries[h].top \in Nat /\ r.entries[h].read \in Nat
                                   /\ r.entries[h].unread \in Nat
    ELSE /\ {"chat", "id", "type", "till", "answer", "turn"} \subseteq DOMAIN r
         /\ r.chat \in Chat /\ r.id \in Nat /\ r.type \in RowTypes /\ r.till \in Nat

\* The record is one, and ids are given by the counter.
Shape(c) ==
    /\ Fields \subseteq DOMAIN c
    /\ DOMAIN c.states \subseteq Chat /\ DOMAIN c.dialog \subseteq Chat
    /\ DOMAIN c.pending \subseteq Chat
    /\ \A h \in Chat : StateOf(c, h) \in StateType
    /\ c.chat \in [Chat -> ChatType]
    /\ c.next \in Nat /\ c.dropped \subseteq 1..c.next
    /\ \A id \in DOMAIN c.byRequest : id \in 1..c.next /\ id \notin c.dropped
    /\ \A r \in c.net : NetOK(r)
    /\ c.pending # <<>> => c.queued

\* The requests about the chat that the server has to answer, and their ids in
\* _historyByRequest.
Of(c, h) == {r \in c.net : r.type # "Entry" /\ r.chat = h}
ByRequest(c, h) == {id \in DOMAIN c.byRequest : c.byRequest[id] = h}

RowOf(r) == [id |-> r.id, type |-> r.type]
Rows(R) == {RowOf(r) : r \in R}
Ids(R) == {r.id : r \in R}

Table(c, h) == {r \in StateOf(c, h).sent : r.id \notin c.dropped}

\* Only reads are dropped.
SlicesKept(c, h) ==
    \A r \in StateOf(c, h).sent : r.type = "History" => r.id \notin c.dropped

\* The table is what the server has to answer, and N that it has answered.
TableOK(c, h, N) ==
    /\ SlicesKept(c, h)
    /\ Table(c, h) = Rows(Of(c, h) \union N)
    /\ ByRequest(c, h) = StateOf(c, h).postponed \union Ids(Table(c, h))

\* No read of the chat is further than the one noted as sent, or the mark.
ReadsOK(c, h) ==
    \A r \in Of(c, h) : r.type = "ReadInbox" =>
        LET s == StateOf(c, h)
        IN  /\ s.will # 0 => s.will > r.till
            /\ s.sentTill # 0 => r.till <= s.sentTill
            /\ s.sentTill = 0 => r.till < c.chat[h].before

Asked(c, h) == \E r \in Entries(c) : h \in r.chats

\* The entry of the chat is on its way, or it is one of W.
WaitsOK(c, h, W) ==
    LET s == StateOf(c, h)
        in == h \in DOMAIN c.dialog
    IN  /\ in => h \notin DOMAIN c.pending
        /\ s.entry => in
        /\ in => s.entry \/ Asked(c, h) \/ h \in W
        /\ in /\ PostponeEntryRequest(s) => s.entry

\* A request is in one place, once; what is to be read is ahead.
Sorted(s) ==
    /\ PostponeHistoryRequest(s) => OfType(s, {"History"}) = {}
    /\ \A r \in s.sent : r.id \notin s.postponed
    /\ \A r, q \in s.sent : r.id = q.id => r = q
    /\ s.when # "none" => s.will # 0
    /\ s.will # 0 => s.will > s.sentTill

\* What is postponed has to wait.
SlicesWait(s) == s.postponed # {} => PostponeHistoryRequest(s)
EntryWaits(s) == s.entry => PostponeEntryRequest(s)

ChatBase(c, h, N, W) ==
    /\ Sorted(StateOf(c, h))
    /\ \A id \in StateOf(c, h).postponed \union Ids(StateOf(c, h).sent) : id \in 1..c.next
    /\ TableOK(c, h, N) /\ ReadsOK(c, h) /\ WaitsOK(c, h, W)

ChatOK(c, h, N, W) ==
    ChatBase(c, h, N, W) /\ SlicesWait(StateOf(c, h)) /\ EntryWaits(StateOf(c, h))

About(N, h) == {r \in N : r.chat = h}

ClientOK(c, N, W) == Shape(c) /\ \A h \in Chat : ChatOK(c, h, About(N, h), W)

\* The callbacks that wait for the entry of the chat.  Each was given once, X
\* being the ones not yet put anywhere.
Held(c, h) == CallbacksOf(c.pending, h) \union CallbacksOf(c.dialog, h)

CalledOnce(c, X) ==
    /\ c.called \union X \union UNION {Held(c, h) : h \in Chat} = 1..c.calls
    /\ \A h \in Chat : Held(c, h) \intersect (X \union c.called) = {}
    /\ c.called \intersect X = {}
    /\ \A g, h \in Chat : g # h => Held(c, g) \intersect Held(c, h) = {}

TimerRuns(c) == WillRead(c) # {} => c.timer

Good(c) == ClientOK(c, {}, {}) /\ c.calls \in Nat /\ CalledOnce(c, {}) /\ TimerRuns(c)

ServerType == [Chat -> [top : Nat, read : Nat]]

IInv == scene \in Scenes /\ server \in ServerType /\ Good(client)

-----------------------------------------------------------------------------
(* What an operation on one chat leaves alone.                               *)

\* Ids only grow, and only new ones are dropped.
Further(c, d) ==
    /\ d.next >= c.next /\ c.dropped \subseteq d.dropped
    /\ \A id \in d.dropped : id \in c.dropped \/ id > c.next

Untouched(c, d, h) ==
    /\ StateOf(d, h) = StateOf(c, h) /\ Of(d, h) = Of(c, h)
    /\ ByRequest(d, h) = ByRequest(c, h)
    /\ h \in DOMAIN d.dialog <=> h \in DOMAIN c.dialog
    /\ h \in DOMAIN d.pending <=> h \in DOMAIN c.pending
    /\ Asked(d, h) <=> Asked(c, h)
    /\ d.chat[h].before >= c.chat[h].before

\* d comes from c by something done in the chat h.
At(c, d, h) == Further(c, d) /\ \A g \in Chat \ {h} : Untouched(c, d, g)

LEMMA UntouchedKeeps ==
    ASSUME NEW c, NEW d, Shape(c), Shape(d), NEW h \in Chat, Further(c, d), Untouched(c, d, h)
    PROVE  /\ \A N, W : ChatBase(c, h, N, W) => ChatBase(d, h, N, W)
           /\ \A N, W : ChatOK(c, h, N, W) => ChatOK(d, h, N, W)
<1> USE DEF Untouched
<1>1. c.next \in Nat /\ d.next \in Nat /\ d.next >= c.next
  BY DEF Shape, Further
<1>2. ASSUME NEW N, NEW W, ChatBase(c, h, N, W) PROVE ChatBase(d, h, N, W)
  <2>1. Sorted(StateOf(d, h))
    BY <1>2 DEF ChatBase
  <2>2. \A id \in StateOf(c, h).postponed \union Ids(StateOf(c, h).sent) : id \in 1..c.next
    BY <1>2 DEF ChatBase
  <2>3. \A id \in StateOf(d, h).postponed \union Ids(StateOf(d, h).sent) : id \in 1..d.next
    BY <1>1, <2>2
  <2>4. Table(d, h) = Table(c, h)
    <3>1. \A r \in StateOf(c, h).sent : r.id \in 1..c.next
      BY <2>2 DEF Ids
    <3>2. \A r \in StateOf(c, h).sent : r.id \in d.dropped <=> r.id \in c.dropped
      BY <1>1, <3>1 DEF Further
    <3> QED BY <3>2 DEF Table
  <2>5. TableOK(d, h, N)
    <3>1. SlicesKept(c, h)
      BY <1>2 DEF ChatBase, TableOK
    <3>2. SlicesKept(d, h)
      BY <1>1, <2>2, <3>1 DEF Further, SlicesKept, Ids
    <3> QED BY <1>2, <2>4, <3>2 DEF ChatBase, TableOK
  <2>6. ReadsOK(d, h)
    <3>1. ReadsOK(c, h)
      BY <1>2 DEF ChatBase
    <3>2. \A r \in Of(c, h) : r.type = "ReadInbox" => r.till \in Nat
      BY DEF Of, Shape, NetOK
    <3>3. c.chat[h].before \in Nat /\ d.chat[h].before \in Nat
      BY DEF Shape, ChatType
    <3>4. d.chat[h].before >= c.chat[h].before
      OBVIOUS
    <3>5. StateOf(d, h) = StateOf(c, h) /\ Of(d, h) = Of(c, h)
      OBVIOUS
    <3> QED BY <3>1, <3>2, <3>3, <3>4, <3>5 DEF ReadsOK
  <2>7. WaitsOK(d, h, W)
    BY <1>2 DEF ChatBase, WaitsOK
  <2> QED BY <2>1, <2>3, <2>5, <2>6, <2>7 DEF ChatBase
<1> QED BY <1>2 DEF ChatOK

LEMMA AtTwice ==
    ASSUME NEW c, NEW d, NEW e, Shape(c), Shape(d), Shape(e), NEW h, At(c, d, h), At(d, e, h)
    PROVE  At(c, e, h)
<1>1. c.next \in Nat /\ d.next \in Nat /\ e.next \in Nat
  BY DEF Shape
<1>2. Further(c, e)
  <2>1. \A id \in e.dropped : id \in 1..e.next
    BY DEF Shape
  <2> QED BY <1>1, <2>1 DEF At, Further
<1>3. ASSUME NEW g \in Chat \ {h} PROVE Untouched(c, e, g)
  <2>1. /\ c.chat[g].before \in Nat /\ d.chat[g].before \in Nat /\ e.chat[g].before \in Nat
    BY DEF Shape, ChatType
  <2>2. Untouched(c, d, g) /\ Untouched(d, e, g)
    BY DEF At
  <2> QED BY <2>1, <2>2 DEF Untouched
<1> QED BY <1>2, <1>3 DEF At

\* The invariant of all chats from the one something was done in.
LEMMA AtKeeps ==
    ASSUME NEW c, NEW d, NEW h \in Chat, NEW N, NEW M, NEW W, Shape(c), Shape(d), At(c, d, h),
           \A g \in Chat \ {h} : ChatOK(c, g, About(N, g), W),
           \A g \in Chat \ {h} : About(N, g) = About(M, g),
           ChatOK(d, h, About(M, h), W)
    PROVE  ClientOK(d, M, W)
<1>1. ASSUME NEW g \in Chat \ {h} PROVE ChatOK(d, g, About(M, g), W)
  BY UntouchedKeeps DEF At
<1> QED BY <1>1 DEF ClientOK

-----------------------------------------------------------------------------
(* Operations on the state of one chat.                                      *)

\* Such a step leaves the callbacks and the timer alone, and what is waited for
\* stays so.
Waits(c, h) == h \in DOMAIN c.dialog \/ h \in DOMAIN c.pending

Calm(c, d) ==
    /\ d.timer = c.timer /\ d.called = c.called /\ d.calls = c.calls
    /\ \A h \in Chat : Held(d, h) = Held(c, h) /\ (Waits(c, h) => Waits(d, h))

\* d differs from c in the state of h only.
OnlyState(c, d, h) ==
    /\ DOMAIN d = DOMAIN c /\ d.byRequest = c.byRequest /\ d.next = c.next
    /\ d.timer = c.timer /\ d.dialog = c.dialog /\ d.pending = c.pending
    /\ d.queued = c.queued /\ d.chat = c.chat /\ d.ghost = c.ghost /\ d.net = c.net
    /\ d.calls = c.calls /\ d.called = c.called /\ d.dropped = c.dropped
    /\ d.dangling = c.dangling /\ d.alive = c.alive
    /\ DOMAIN d.states \subseteq DOMAIN c.states \union {h}
    /\ \A g : g # h => StateOf(d, g) = StateOf(c, g)

LEMMA SetStateIs ==
    ASSUME NEW c, Fields \subseteq DOMAIN c, NEW h, NEW s
    PROVE  /\ OnlyState(c, SetState(c, h, s), h)
           /\ HasState(SetState(c, h, s), h) /\ StateOf(SetState(c, h, s), h) = s
           /\ SetState(c, h, s).states[h] = s
<1> DEFINE f == Put(c.states, h, s)
           d == SetState(c, h, s)
<1>1. d = [c EXCEPT !.states = f]
  BY DEF SetState
<1>2. DOMAIN f = DOMAIN c.states \union {h} /\ f[h] = s
  BY DEF Put
<1>3. \A g \in DOMAIN f : g # h => g \in DOMAIN c.states /\ f[g] = c.states[g]
  BY DEF Put
<1> HIDE DEF f, d
<1>4. /\ DOMAIN d = DOMAIN c /\ d.byRequest = c.byRequest /\ d.next = c.next
      /\ d.timer = c.timer /\ d.dialog = c.dialog /\ d.pending = c.pending
      /\ d.queued = c.queued /\ d.chat = c.chat /\ d.ghost = c.ghost /\ d.net = c.net
      /\ d.calls = c.calls /\ d.called = c.called /\ d.dropped = c.dropped
      /\ d.dangling = c.dangling /\ d.alive = c.alive /\ d.states = f
  BY <1>1 DEF Fields
<1>5. OnlyState(c, d, h)
  BY <1>2, <1>3, <1>4 DEF OnlyState, StateOf, HasState
<1>6. HasState(d, h) /\ StateOf(d, h) = s /\ d.states[h] = s
  BY <1>2, <1>4 DEF StateOf, HasState
<1> QED BY <1>5, <1>6 DEF d

\* A state that is written to in place.
LEMMA ExceptStateIs ==
    ASSUME NEW c, Fields \subseteq DOMAIN c, NEW h, HasState(c, h), NEW s
    PROVE  /\ OnlyState(c, [c EXCEPT !.states[h] = s], h)
           /\ HasState([c EXCEPT !.states[h] = s], h)
           /\ StateOf([c EXCEPT !.states[h] = s], h) = s
<1> DEFINE f == [c.states EXCEPT ![h] = s]
           d == [c EXCEPT !.states[h] = s]
<1>1. d = [c EXCEPT !.states = f]
  BY DEF Fields
<1>2. DOMAIN f = DOMAIN c.states /\ f[h] = s
  BY DEF HasState
<1>3. \A g \in DOMAIN f : g # h => g \in DOMAIN c.states /\ f[g] = c.states[g]
  OBVIOUS
<1> HIDE DEF f, d
<1>4. /\ DOMAIN d = DOMAIN c /\ d.byRequest = c.byRequest /\ d.next = c.next
      /\ d.timer = c.timer /\ d.dialog = c.dialog /\ d.pending = c.pending
      /\ d.queued = c.queued /\ d.chat = c.chat /\ d.ghost = c.ghost /\ d.net = c.net
      /\ d.calls = c.calls /\ d.called = c.called /\ d.dropped = c.dropped
      /\ d.dangling = c.dangling /\ d.alive = c.alive /\ d.states = f
  BY <1>1 DEF Fields
<1>5. OnlyState(c, d, h)
  BY <1>2, <1>3, <1>4 DEF OnlyState, StateOf, HasState
<1>6. HasState(d, h) /\ StateOf(d, h) = s
  BY <1>2, <1>4 DEF StateOf, HasState
<1> QED BY <1>5, <1>6 DEF d

\* Such a step is calm, and stays with the chat.
LEMMA OnlyStateAt ==
    ASSUME NEW c, NEW d, Shape(c), NEW h \in Chat, OnlyState(c, d, h),
           StateOf(d, h) \in StateType
    PROVE  /\ Shape(d) /\ At(c, d, h) /\ Calm(c, d)
           /\ Of(d, h) = Of(c, h) /\ ByRequest(d, h) = ByRequest(c, h)
           /\ Asked(d, h) <=> Asked(c, h)
<1> USE DEF OnlyState
<1>1. \A g \in Chat : StateOf(d, g) \in StateType
  BY DEF Shape
<1>2. Shape(d)
  BY <1>1 DEF Shape
<1>3. \A g : Of(d, g) = Of(c, g) /\ ByRequest(d, g) = ByRequest(c, g) /\ (Asked(d, g) <=> Asked(c, g))
  BY DEF Of, ByRequest, Asked, Entries
<1>4. c.next \in Nat /\ \A g \in Chat : c.chat[g].before \in Nat
  BY DEF Shape, ChatType
<1>5. At(c, d, h)
  BY <1>3, <1>4 DEF At, Further, Untouched
<1>6. Calm(c, d)
  BY DEF Calm, Held, Waits
<1> QED BY <1>2, <1>3, <1>5, <1>6

\* An empty state is as good as none.
LEMMA CheckEmptyStateOK ==
    ASSUME NEW c, Shape(c), NEW h \in Chat
    PROVE  /\ Shape(CheckEmptyState(c, h)) /\ At(c, CheckEmptyState(c, h), h)
           /\ Calm(c, CheckEmptyState(c, h))
           /\ \A N, W : ChatOK(c, h, N, W) => ChatOK(CheckEmptyState(c, h), h, N, W)
           /\ StateOf(CheckEmptyState(c, h), h).entry = StateOf(c, h).entry
           /\ StateOf(CheckEmptyState(c, h), h).will = StateOf(c, h).will
           /\ StateOf(CheckEmptyState(c, h), h).sentTill = StateOf(c, h).sentTill
<1> DEFINE s == StateOf(c, h)
           d == [c EXCEPT !.states = Remove(@, h)]
           Empty == /\ HasState(c, h) /\ s.postponed = {} /\ s.sent = {} /\ ~s.entry
                    /\ s.will = 0 /\ s.sentTill = 0
<1>1. CASE ~Empty
  <2>1. CheckEmptyState(c, h) = c
    BY <1>1 DEF CheckEmptyState, StateOf
  <2>2. At(c, c, h) /\ Calm(c, c)
    <3>1. c.next \in Nat /\ \A g \in Chat : c.chat[g].before \in Nat
      BY DEF Shape, ChatType
    <3> QED BY <3>1 DEF At, Further, Untouched, Calm
  <2> QED BY <2>1, <2>2
<1>2. CASE Empty
  <2>1. CheckEmptyState(c, h) = d
    BY <1>2 DEF CheckEmptyState, StateOf
  <2> DEFINE f == Remove(c.states, h)
  <2>2. DOMAIN f = DOMAIN c.states \ {h} /\ \A g \in DOMAIN f : f[g] = c.states[g]
    BY DEF Remove, Restrict
  <2> HIDE DEF f
  <2>3. /\ DOMAIN d = DOMAIN c /\ d.byRequest = c.byRequest /\ d.next = c.next
        /\ d.timer = c.timer /\ d.dialog = c.dialog /\ d.pending = c.pending
        /\ d.queued = c.queued /\ d.chat = c.chat /\ d.ghost = c.ghost /\ d.net = c.net
        /\ d.calls = c.calls /\ d.called = c.called /\ d.dropped = c.dropped
        /\ d.dangling = c.dangling /\ d.alive = c.alive /\ d.states = f
    BY DEF Shape, Fields, f
  <2> HIDE DEF d
  <2>4. OnlyState(c, d, h)
    BY <2>2, <2>3 DEF OnlyState, StateOf, HasState
  <2>5. StateOf(d, h) = NewState
    BY <2>2, <2>3 DEF StateOf, HasState
  <2>6. NewState \in StateType
    BY DEF NewState, StateType
  <2>7. /\ Shape(d) /\ At(c, d, h) /\ Calm(c, d)
        /\ Of(d, h) = Of(c, h) /\ ByRequest(d, h) = ByRequest(c, h)
        /\ Asked(d, h) <=> Asked(c, h)
    BY <2>4, <2>5, <2>6, OnlyStateAt
  <2>8. /\ NewState.postponed = {} /\ NewState.sent = {} /\ ~NewState.entry /\ NewState.will = 0
        /\ NewState.sentTill = 0 /\ NewState.when = "none"
    BY DEF NewState
  <2>9. s.entry \in BOOLEAN /\ NewState.entry \in BOOLEAN
    BY <2>6 DEF Shape, StateType
  <2>10. ASSUME NEW N, NEW W, ChatOK(c, h, N, W) PROVE ChatOK(d, h, N, W)
    <3>0. ChatBase(c, h, N, W)
      BY <2>10 DEF ChatOK
    <3>1. Sorted(StateOf(d, h)) /\ SlicesWait(StateOf(d, h)) /\ EntryWaits(StateOf(d, h))
      BY <2>5, <2>8 DEF Sorted, SlicesWait, EntryWaits, PostponeHistoryRequest, OfType
    <3>2. \A id \in StateOf(d, h).postponed \union Ids(StateOf(d, h).sent) : id \in 1..d.next
      BY <2>5, <2>8 DEF Ids
    <3>3. Table(d, h) = Table(c, h)
      BY <1>2, <2>5, <2>8 DEF Table
    <3>4. TableOK(d, h, N)
      <4>1. SlicesKept(d, h)
        BY <2>5, <2>8 DEF SlicesKept
      <4> QED BY <1>2, <2>5, <2>7, <2>8, <3>0, <3>3, <4>1 DEF ChatBase, TableOK
    <3>5. ReadsOK(d, h)
      BY <1>2, <2>3, <2>5, <2>7, <2>8, <3>0 DEF ChatBase, ReadsOK
    <3>6. WaitsOK(d, h, W)
      BY <1>2, <2>3, <2>5, <2>7, <2>8, <3>0
         DEF ChatBase, WaitsOK, PostponeEntryRequest, OfType
    <3> QED BY <3>1, <3>2, <3>4, <3>5, <3>6 DEF ChatOK, ChatBase
  <2>11. StateOf(d, h).entry = s.entry /\ StateOf(d, h).will = s.will /\ StateOf(d, h).sentTill = s.sentTill
    BY <1>2, <2>5, <2>8, <2>9
  <2> HIDE DEF s
  <2> QED BY <2>1, <2>7, <2>10, <2>11 DEF s
<1> QED BY <1>1, <1>2

-----------------------------------------------------------------------------
(* The entries that are asked for.                                           *)

\* d differs from c in the maps of chats whose entry is needed, where it adds
\* the callbacks to those of h.
Requested(c, d, h, callbacks) ==
    /\ DOMAIN d = DOMAIN c /\ d.states = c.states /\ d.byRequest = c.byRequest
    /\ d.next = c.next /\ d.timer = c.timer /\ d.chat = c.chat /\ d.net = c.net
    /\ d.ghost = c.ghost /\ d.alive = c.alive /\ d.dangling = c.dangling
    /\ d.calls = c.calls /\ d.called = c.called /\ d.dropped = c.dropped
    /\ DOMAIN d.dialog = DOMAIN c.dialog
    /\ DOMAIN d.pending = DOMAIN c.pending \union IF h \in DOMAIN c.dialog THEN {} ELSE {h}
    /\ d.pending # <<>> => d.queued
    /\ Held(d, h) = Held(c, h) \union callbacks
    /\ \A g : g # h => Held(d, g) = Held(c, g)

\* The call is posted with the first chat that needs an entry.
LEMMA PutIs ==
    ASSUME NEW f, NEW h, NEW x
    PROVE  /\ DOMAIN Put(f, h, x) = DOMAIN f \union {h} /\ Put(f, h, x)[h] = x
           /\ \A g \in DOMAIN f : g # h => Put(f, h, x)[g] = f[g]
  BY DEF Put

LEMMA PutOnEmpty ==
    ASSUME NEW f, f = <<>>, NEW h, NEW x
    PROVE  Cardinality(DOMAIN Put(f, h, x)) = 1
<1>1. DOMAIN f = {}
  OBVIOUS
<1>2. DOMAIN Put(f, h, x) = {h}
  BY <1>1 DEF Put
<1> QED BY <1>2, FS_Singleton

LEMMA PostponeIs ==
    ASSUME NEW c, Fields \subseteq DOMAIN c, NEW b, c.pending # <<>> => c.queued,
           NEW h, NEW x,
           DOMAIN b = DOMAIN c, b.pending = Put(c.pending, h, x), b.queued = c.queued
    PROVE  LET d == PostponeRequestDialogEntries(b)
           IN  /\ d.queued /\ DOMAIN d = DOMAIN b
               /\ \A i \in DOMAIN b : i # "queued" => d[i] = b[i]
<1>1. CASE c.pending = <<>>
  <2>1. Cardinality(DOMAIN b.pending) = 1
    BY <1>1, PutOnEmpty
  <2>2. PostponeRequestDialogEntries(b) = [b EXCEPT !.queued = TRUE]
    BY <2>1 DEF PostponeRequestDialogEntries
  <2> QED BY <2>2 DEF Fields
<1>2. CASE c.pending # <<>>
  <2>1. b.queued
    BY <1>2
  <2>2. \/ PostponeRequestDialogEntries(b) = b
        \/ PostponeRequestDialogEntries(b) = [b EXCEPT !.queued = TRUE]
    BY DEF PostponeRequestDialogEntries
  <2> QED BY <2>1, <2>2 DEF Fields
<1> QED BY <1>1, <1>2

LEMMA RequestDialogEntryIs ==
    ASSUME NEW c, Shape(c), NEW h \in Chat, NEW callbacks,
           h \in DOMAIN c.dialog => h \notin DOMAIN c.pending
    PROVE  Requested(c, RequestDialogEntry(c, h, callbacks), h, callbacks)
<1> DEFINE d == RequestDialogEntry(c, h, callbacks)
<1>0. Fields \subseteq DOMAIN c /\ (c.pending # <<>> => c.queued)
  BY DEF Shape
<1>1. CASE h \in DOMAIN c.dialog
  <2> DEFINE f == [c.dialog EXCEPT ![h] = @ \union callbacks]
  <2>1. d = [c EXCEPT !.dialog = f]
    BY <1>0, <1>1 DEF RequestDialogEntry, Fields
  <2>2. DOMAIN f = DOMAIN c.dialog /\ f[h] = c.dialog[h] \union callbacks
    BY <1>1
  <2>3. \A g \in DOMAIN f : g # h => f[g] = c.dialog[g]
    OBVIOUS
  <2> HIDE DEF f, d
  <2>4. /\ DOMAIN d = DOMAIN c /\ d.states = c.states /\ d.byRequest = c.byRequest
        /\ d.next = c.next /\ d.timer = c.timer /\ d.chat = c.chat /\ d.net = c.net
        /\ d.ghost = c.ghost /\ d.alive = c.alive /\ d.dangling = c.dangling
        /\ d.calls = c.calls /\ d.called = c.called /\ d.dropped = c.dropped
        /\ d.dialog = f /\ d.pending = c.pending /\ d.queued = c.queued
    BY <1>0, <2>1 DEF Fields
  <2>5. Held(d, h) = Held(c, h) \union callbacks
    BY <1>1, <2>2, <2>4 DEF Held, CallbacksOf
  <2>6. \A g : g # h => Held(d, g) = Held(c, g)
    BY <2>2, <2>3, <2>4 DEF Held, CallbacksOf
  <2> QED BY <1>0, <1>1, <2>2, <2>4, <2>5, <2>6 DEF Requested, d
<1>2. CASE h \notin DOMAIN c.dialog /\ h \in DOMAIN c.pending
  <2> DEFINE f == [c.pending EXCEPT ![h] = @ \union callbacks]
  <2>1. d = [c EXCEPT !.pending = f]
    BY <1>0, <1>2 DEF RequestDialogEntry, Fields
  <2>2. DOMAIN f = DOMAIN c.pending /\ f[h] = c.pending[h] \union callbacks
    BY <1>2
  <2>3. \A g \in DOMAIN f : g # h => f[g] = c.pending[g]
    OBVIOUS
  <2>4. c.pending # <<>>
    BY <1>2
  <2> HIDE DEF f, d
  <2>5. /\ DOMAIN d = DOMAIN c /\ d.states = c.states /\ d.byRequest = c.byRequest
        /\ d.next = c.next /\ d.timer = c.timer /\ d.chat = c.chat /\ d.net = c.net
        /\ d.ghost = c.ghost /\ d.alive = c.alive /\ d.dangling = c.dangling
        /\ d.calls = c.calls /\ d.called = c.called /\ d.dropped = c.dropped
        /\ d.dialog = c.dialog /\ d.pending = f /\ d.queued = c.queued
    BY <1>0, <2>1 DEF Fields
  <2>6. Held(d, h) = Held(c, h) \union callbacks
    BY <1>2, <2>2, <2>5 DEF Held, CallbacksOf
  <2>7. \A g : g # h => Held(d, g) = Held(c, g)
    BY <2>2, <2>3, <2>5 DEF Held, CallbacksOf
  <2> QED BY <1>0, <1>2, <2>2, <2>4, <2>5, <2>6, <2>7 DEF Requested, d
<1>3. CASE h \notin DOMAIN c.dialog /\ h \notin DOMAIN c.pending
  <2> DEFINE f == Put(c.pending, h, callbacks)
             b == [c EXCEPT !.pending = f]
  <2>1. d = PostponeRequestDialogEntries(b)
    BY <1>3 DEF RequestDialogEntry
  <2>2. /\ DOMAIN f = DOMAIN c.pending \union {h} /\ f[h] = callbacks
        /\ \A g \in DOMAIN c.pending : g # h => f[g] = c.pending[g]
    BY DEF Put
  <2>3. /\ DOMAIN b = DOMAIN c /\ b.pending = f
        /\ \A i \in DOMAIN c : i # "pending" => b[i] = c[i]
    BY <1>0 DEF Fields
  <2>4. b.queued = c.queued
    BY <1>0, <2>3 DEF Fields
  <2> HIDE DEF b, d
  <2>5. d.queued /\ DOMAIN d = DOMAIN b /\ \A i \in DOMAIN b : i # "queued" => d[i] = b[i]
    BY ZenonT(40), <1>0, <2>1, <2>3, <2>4, PostponeIs
  <2> HIDE DEF f
  <2>6. /\ DOMAIN d = DOMAIN c /\ d.states = c.states /\ d.byRequest = c.byRequest
        /\ d.next = c.next /\ d.timer = c.timer /\ d.chat = c.chat /\ d.net = c.net
        /\ d.ghost = c.ghost /\ d.alive = c.alive /\ d.dangling = c.dangling
        /\ d.calls = c.calls /\ d.called = c.called /\ d.dropped = c.dropped
        /\ d.dialog = c.dialog /\ d.pending = f
    BY <1>0, <2>3, <2>5 DEF Fields
  <2>7. Held(d, h) = Held(c, h) \union callbacks
    BY <1>3, <2>2, <2>6 DEF Held, CallbacksOf
  <2>8. \A g : g # h => Held(d, g) = Held(c, g)
    BY <2>2, <2>6 DEF Held, CallbacksOf
  <2> QED BY <1>3, <2>2, <2>5, <2>6, <2>7, <2>8 DEF Requested, d
<1> QED BY <1>1, <1>2, <1>3

LEMMA RequestedOK ==
    ASSUME NEW c, Shape(c), NEW h \in Chat, NEW callbacks, NEW d,
           Requested(c, d, h, callbacks)
    PROVE  /\ Shape(d) /\ At(c, d, h)
           /\ \A N, W : ChatOK(c, h, N, W) => ChatOK(d, h, N, W)
           /\ \A g : StateOf(d, g) = StateOf(c, g) /\ (HasState(d, g) <=> HasState(c, g))
           /\ callbacks = {} => Calm(c, d)
<1> USE DEF Requested
<1>1. \A g : /\ StateOf(d, g) = StateOf(c, g) /\ (HasState(d, g) <=> HasState(c, g))
             /\ Of(d, g) = Of(c, g)
             /\ ByRequest(d, g) = ByRequest(c, g) /\ (Asked(d, g) <=> Asked(c, g))
  BY DEF StateOf, HasState, Of, ByRequest, Asked, Entries
<1>2. Shape(d)
  BY <1>1 DEF Shape
<1>3. c.next \in Nat /\ \A g \in Chat : c.chat[g].before \in Nat
  BY DEF Shape, ChatType
<1>4. At(c, d, h)
  BY <1>1, <1>3 DEF At, Further, Untouched
<1>5. ASSUME NEW N, NEW W, ChatOK(c, h, N, W) PROVE ChatOK(d, h, N, W)
  <2>1. WaitsOK(d, h, W)
    BY <1>1, <1>5 DEF ChatOK, ChatBase, WaitsOK
  <2>2. TableOK(d, h, N) /\ ReadsOK(d, h)
    BY <1>1, <1>5 DEF ChatOK, ChatBase, TableOK, SlicesKept, Table, ReadsOK
  <2> QED BY <1>1, <1>5, <2>1, <2>2 DEF ChatOK, ChatBase
<1>6. callbacks = {} => Calm(c, d)
  BY DEF Calm, Waits
<1> QED BY <1>1, <1>2, <1>4, <1>5, <1>6

-----------------------------------------------------------------------------
(* A request ends.                                                           *)

\* d differs from c in the state of h and in the requests about h that are on
\* their way, which are now R.
OnlySent(c, d, h, R) ==
    /\ DOMAIN d = DOMAIN c /\ d.byRequest = c.byRequest /\ d.next = c.next
    /\ d.timer = c.timer /\ d.dialog = c.dialog /\ d.pending = c.pending
    /\ d.queued = c.queued /\ d.chat = c.chat /\ d.ghost = c.ghost
    /\ d.calls = c.calls /\ d.called = c.called /\ d.dropped = c.dropped
    /\ DOMAIN d.states \subseteq DOMAIN c.states \union {h}
    /\ \A g : g # h => StateOf(d, g) = StateOf(c, g) /\ Of(d, g) = Of(c, g)
    /\ Of(d, h) = R /\ Entries(d) = Entries(c)
    /\ \A r \in d.net : r \in c.net \/ r \in R

LEMMA OnlySentAt ==
    ASSUME NEW c, NEW d, Shape(c), NEW h \in Chat, NEW R, OnlySent(c, d, h, R),
           StateOf(d, h) \in StateType, \A r \in R : NetOK(r)
    PROVE  /\ Shape(d) /\ At(c, d, h) /\ Calm(c, d) /\ ByRequest(d, h) = ByRequest(c, h)
           /\ Asked(d, h) <=> Asked(c, h)
<1> USE DEF OnlySent
<1>1. \A g \in Chat : StateOf(d, g) \in StateType
  BY DEF Shape
<1>2. Shape(d)
  BY <1>1 DEF Shape
<1>3. \A g : ByRequest(d, g) = ByRequest(c, g) /\ (Asked(d, g) <=> Asked(c, g))
  BY DEF ByRequest, Asked
<1>4. c.next \in Nat /\ \A g \in Chat : c.chat[g].before \in Nat
  BY DEF Shape, ChatType
<1>5. At(c, d, h)
  BY <1>3, <1>4 DEF At, Further, Untouched
<1>6. Calm(c, d)
  BY DEF Calm, Held, Waits
<1> QED BY <1>2, <1>3, <1>5, <1>6

\* The state of a chat after slices that were postponed are sent.
Resumed(s) ==
    [s EXCEPT !.postponed = {},
              !.sent = @ \union {[id |-> i, type |-> "History"] : i \in s.postponed}]

LEMMA ResumedIs ==
    ASSUME NEW s \in StateType, Sorted(s), ~PostponeHistoryRequest(s)
    PROVE  /\ Resumed(s) \in StateType /\ Sorted(Resumed(s)) /\ SlicesWait(Resumed(s))
           /\ Resumed(s).entry = s.entry /\ Resumed(s).will = s.will
           /\ Resumed(s).sentTill = s.sentTill /\ Resumed(s).postponed = {}
           /\ Resumed(s).sent = s.sent \union {[id |-> i, type |-> "History"] : i \in s.postponed}
           /\ PostponeEntryRequest(Resumed(s)) <=> PostponeEntryRequest(s)
<1> DEFINE more == {[id |-> i, type |-> "History"] : i \in s.postponed}
           t == Resumed(s)
<1>1. /\ t.entry = s.entry /\ t.will = s.will /\ t.when = s.when /\ t.done = s.done
      /\ t.sentTill = s.sentTill /\ t.postponed = {} /\ t.sent = s.sent \union more
  BY DEF Resumed, StateType
<1>2. more \subseteq Row
  BY DEF StateType, Row, RowTypes, Types
<1>3. t \in StateType
  BY <1>2 DEF Resumed, StateType
<1>4. \A r \in more : r.type = "History" /\ r.id \in s.postponed
  OBVIOUS
<1>5. \A r, q \in more : r.id = q.id => r = q
  OBVIOUS
<1> HIDE DEF more, t
<1>6. ~PostponeHistoryRequest(t)
  BY <1>1, <1>4 DEF PostponeHistoryRequest, OfType
<1>7. \A r, q \in t.sent : r.id = q.id => r = q
  BY <1>1, <1>4, <1>5 DEF Sorted
<1>8. Sorted(t) /\ SlicesWait(t)
  BY <1>1, <1>6, <1>7 DEF Sorted, SlicesWait
<1>9. PostponeEntryRequest(t) <=> PostponeEntryRequest(s)
  BY <1>1, <1>4 DEF PostponeEntryRequest, OfType
<1> QED BY <1>1, <1>3, <1>8, <1>9 DEF t, more

LEMMA ResumeOK ==
    ASSUME NEW c, Shape(c), NEW h \in Chat, HasState(c, h), NEW N, NEW W, ChatBase(c, h, N, W),
           NEW d, d = Resume(c, h)
    PROVE  /\ Shape(d) /\ At(c, d, h) /\ Calm(c, d) /\ HasState(d, h)
           /\ ChatBase(d, h, N, W) /\ SlicesWait(StateOf(d, h))
           /\ StateOf(d, h).entry = StateOf(c, h).entry
           /\ StateOf(d, h).will = StateOf(c, h).will /\ d.byRequest = c.byRequest
           /\ PostponeEntryRequest(StateOf(d, h)) <=> PostponeEntryRequest(StateOf(c, h))
<1> DEFINE s == StateOf(c, h)
           t == Resumed(s)
           sent == {OnNet(h, i, "History", 0) : i \in s.postponed}
           b == SetState(c, h, t)
<1>0. Fields \subseteq DOMAIN c /\ s \in StateType /\ s = c.states[h]
  BY DEF Shape, StateOf
<1>1. CASE PostponeHistoryRequest(s)
  <2>1. d = c
    BY <1>0, <1>1 DEF Resume
  <2>2. At(c, c, h) /\ Calm(c, c)
    <3>1. c.next \in Nat /\ \A g \in Chat : c.chat[g].before \in Nat
      BY DEF Shape, ChatType
    <3> QED BY <3>1 DEF At, Further, Untouched, Calm
  <2>3. SlicesWait(s)
    BY <1>1 DEF SlicesWait
  <2> QED BY <2>1, <2>2, <2>3
<1>2. CASE ~PostponeHistoryRequest(s)
  <2>1. d = [b EXCEPT !.net = @ \union sent]
    BY <1>0, <1>2 DEF Resume, Resumed
  <2>2. OnlyState(c, b, h) /\ HasState(b, h) /\ StateOf(b, h) = t
    BY <1>0, SetStateIs
  <2>3. Sorted(s)
    BY DEF ChatBase
  <2>4. /\ t \in StateType /\ Sorted(t) /\ SlicesWait(t)
        /\ t.entry = s.entry /\ t.will = s.will /\ t.sentTill = s.sentTill /\ t.postponed = {}
        /\ t.sent = s.sent \union {[id |-> i, type |-> "History"] : i \in s.postponed}
        /\ PostponeEntryRequest(t) <=> PostponeEntryRequest(s)
    BY <1>0, <1>2, <2>3, ResumedIs
  <2>5. \A r \in sent : /\ r.chat = h /\ r.type = "History" /\ r.id \in s.postponed
                        /\ r.till = 0 /\ NetOK(r)
    BY <1>0 DEF OnNet, NetOK, StateType, RowTypes, Types
  <2>6. Rows(sent) = {[id |-> i, type |-> "History"] : i \in s.postponed}
    <3>1. \A i \in s.postponed :
            RowOf(OnNet(h, i, "History", 0)) = [id |-> i, type |-> "History"]
      BY DEF RowOf, OnNet
    <3>2. \A x : x \in Rows(sent) <=> \E i \in s.postponed : x = RowOf(OnNet(h, i, "History", 0))
      BY DEF Rows
    <3> QED BY <3>1, <3>2
  <2> HIDE DEF b, t, sent
  <2>7. /\ DOMAIN d = DOMAIN b /\ d.net = b.net \union sent
        /\ \A i \in DOMAIN b : i # "net" => d[i] = b[i]
    BY <1>0, <2>1, <2>2 DEF OnlyState, Fields
  <2>8. \A g : StateOf(d, g) = StateOf(b, g) /\ (HasState(d, g) <=> HasState(b, g))
    BY <1>0, <2>2, <2>7 DEF OnlyState, Fields, StateOf, HasState
  <2>9. OnlySent(c, d, h, Of(c, h) \union sent)
    <3>1. \A g : g # h => StateOf(d, g) = StateOf(c, g)
      BY <2>2, <2>8 DEF OnlyState
    <3>2. d.net = c.net \union sent
      BY <2>2, <2>7 DEF OnlyState
    <3>3. /\ \A g : g # h => Of(d, g) = Of(c, g)
          /\ Of(d, h) = Of(c, h) \union sent /\ Entries(d) = Entries(c)
          /\ \A r \in d.net : r \in c.net \/ r \in Of(c, h) \union sent
      BY <2>5, <3>2 DEF Of, Entries
    <3>4. /\ d.byRequest = c.byRequest /\ d.next = c.next
          /\ d.timer = c.timer /\ d.dialog = c.dialog /\ d.pending = c.pending
          /\ d.queued = c.queued /\ d.chat = c.chat /\ d.ghost = c.ghost
          /\ d.calls = c.calls /\ d.called = c.called /\ d.dropped = c.dropped
          /\ d.states = b.states /\ DOMAIN d = DOMAIN c
      BY <1>0, <2>2, <2>7 DEF OnlyState, Fields
    <3>5. DOMAIN d.states \subseteq DOMAIN c.states \union {h}
      BY <2>2, <3>4 DEF OnlyState
    <3> QED BY <3>1, <3>3, <3>4, <3>5 DEF OnlySent
  <2>10. StateOf(d, h) = t /\ HasState(d, h)
    BY <2>2, <2>8
  <2>11. \A r \in Of(c, h) \union sent : NetOK(r)
    BY <2>5 DEF Of, Shape
  <2>12. /\ Shape(d) /\ At(c, d, h) /\ Calm(c, d) /\ ByRequest(d, h) = ByRequest(c, h)
         /\ Asked(d, h) <=> Asked(c, h)
    BY <2>4, <2>9, <2>10, <2>11, OnlySentAt
  <2>13. ByRequest(c, h) = s.postponed \union Ids(Table(c, h)) /\ Table(c, h) = Rows(Of(c, h) \union N)
    BY DEF ChatBase, TableOK
  <2>14. Table(d, h) = Table(c, h) \union Rows(sent)
    <3>1. \A i \in s.postponed : i \notin c.dropped
      BY <2>13 DEF ByRequest, Shape
    <3>2. d.dropped = c.dropped
      BY <2>9 DEF OnlySent
    <3>3. \A r \in Rows(sent) : r.id \notin c.dropped
      BY <2>6, <3>1
    <3> QED BY <2>4, <2>6, <2>10, <3>2, <3>3 DEF Table
  <2>15. TableOK(d, h, N)
    <3>1. Rows(Of(c, h) \union sent \union N) = Rows(Of(c, h) \union N) \union Rows(sent)
      BY DEF Rows
    <3>2. Ids(Rows(sent)) = s.postponed
      <4>1. \A i : i \in Ids(Rows(sent))
                     <=> \E k \in s.postponed : i = [id |-> k, type |-> "History"].id
        BY <2>6 DEF Ids
      <4>2. ASSUME NEW i \in Ids(Rows(sent)) PROVE i \in s.postponed
        <5>1. PICK k \in s.postponed : i = [id |-> k, type |-> "History"].id
          BY <4>1
        <5> QED BY <5>1
      <4>3. ASSUME NEW i \in s.postponed PROVE i \in Ids(Rows(sent))
        <5>1. i = [id |-> i, type |-> "History"].id
          OBVIOUS
        <5> QED BY <4>1, <5>1
      <4> HIDE DEF s
      <4> QED BY <4>2, <4>3
    <3>3. Ids(Table(c, h) \union Rows(sent)) = Ids(Table(c, h)) \union Ids(Rows(sent))
      BY DEF Ids
    <3>4. Of(d, h) \union N = Of(c, h) \union sent \union N
      BY <2>9 DEF OnlySent
    <3>5. Table(d, h) = Rows(Of(d, h) \union N)
      BY <2>13, <2>14, <3>1, <3>4
    <3>6. ByRequest(d, h) = t.postponed \union Ids(Table(d, h))
      BY ZenonT(40), <2>4, <2>12, <2>13, <2>14, <3>2, <3>3
    <3>7. SlicesKept(d, h)
      <4>1. \A i \in s.postponed : i \notin c.dropped
        BY <2>13 DEF ByRequest, Shape
      <4>2. SlicesKept(c, h) /\ d.dropped = c.dropped
        BY <2>9 DEF ChatBase, TableOK, OnlySent
      <4>3. \A r \in t.sent : r \in s.sent \/ r.id \in s.postponed
        BY <2>4
      <4> QED BY <2>10, <4>1, <4>2, <4>3 DEF SlicesKept
    <3> QED BY <2>10, <3>5, <3>6, <3>7 DEF TableOK
  <2>16. ReadsOK(d, h)
    BY <2>4, <2>5, <2>9, <2>10 DEF ReadsOK, ChatBase, OnlySent
  <2>17. WaitsOK(d, h, W)
    BY <2>4, <2>9, <2>10, <2>12 DEF WaitsOK, ChatBase, OnlySent
  <2>18. \A id \in StateOf(d, h).postponed \union Ids(StateOf(d, h).sent) : id \in 1..d.next
    <3>1. \A r \in t.sent : r \in s.sent \/ r.id \in s.postponed
      BY <2>4
    <3>2. d.next = c.next
      BY <2>9 DEF OnlySent
    <3> QED BY <2>4, <2>10, <3>1, <3>2 DEF ChatBase, Ids
  <2>19. d.byRequest = c.byRequest
    BY <2>9 DEF OnlySent
  <2> QED BY <2>4, <2>10, <2>12, <2>15, <2>16, <2>17, <2>18, <2>19 DEF ChatBase
<1> QED BY <1>1, <1>2

\* An entry that was postponed is asked for.
LEMMA ResumeEntryOK ==
    ASSUME NEW c, Shape(c), NEW h \in Chat, HasState(c, h), NEW N, NEW W, ChatBase(c, h, N, W),
           SlicesWait(StateOf(c, h)), NEW d, d = ResumeEntry(c, h)
    PROVE  /\ Shape(d) /\ At(c, d, h) /\ Calm(c, d) /\ HasState(d, h)
           /\ ChatOK(d, h, N, W)
           /\ StateOf(d, h).will = StateOf(c, h).will /\ d.byRequest = c.byRequest
           /\ StateOf(c, h).entry => StateOf(d, h).entry \/ h \in DOMAIN d.pending
           /\ EntryWaits(StateOf(c, h)) /\ StateOf(c, h).entry => StateOf(d, h).entry
<1> DEFINE s == StateOf(c, h)
           no == FALSE
           t == [s EXCEPT !.entry = no]
           f == Put(c.pending, h, c.dialog[h])
           e == SetState(c, h, t)
           g0 == Remove(c.dialog, h)
           b == [e EXCEPT !.pending = f, !.dialog = g0]
<1>0. Fields \subseteq DOMAIN c /\ s \in StateType /\ s = c.states[h]
  BY DEF Shape, StateOf
<1>1. CASE ~s.entry \/ PostponeEntryRequest(s)
  <2>1. d = c
    BY <1>0, <1>1 DEF ResumeEntry
  <2>2. At(c, c, h) /\ Calm(c, c)
    <3>1. c.next \in Nat /\ \A g \in Chat : c.chat[g].before \in Nat
      BY DEF Shape, ChatType
    <3> QED BY <3>1 DEF At, Further, Untouched, Calm
  <2>3. EntryWaits(s)
    BY <1>1 DEF EntryWaits
  <2> QED BY <2>1, <2>2, <2>3 DEF ChatOK
<1>2. CASE s.entry /\ ~PostponeEntryRequest(s)
  <2>1. OnlyState(c, e, h) /\ HasState(e, h) /\ StateOf(e, h) = t
    BY <1>0, SetStateIs
  <2>2. e.pending = c.pending /\ e.dialog = c.dialog
    BY <2>1 DEF OnlyState
  <2>3. d = PostponeRequestDialogEntries(b)
    BY <1>0, <1>2, <2>2 DEF ResumeEntry
  <2>4. /\ h \in DOMAIN c.dialog /\ h \notin DOMAIN c.pending
        /\ c.pending # <<>> => c.queued
    BY <1>2 DEF ChatBase, WaitsOK, Shape
  <2>5. /\ DOMAIN f = DOMAIN c.pending \union {h} /\ f[h] = c.dialog[h]
        /\ \A g \in DOMAIN c.pending : g # h => f[g] = c.pending[g]
    BY DEF Put
  <2>6. DOMAIN g0 = DOMAIN c.dialog \ {h} /\ \A g \in DOMAIN g0 : g0[g] = c.dialog[g]
    BY DEF Remove, Restrict
  <2>7. /\ t \in StateType /\ t.postponed = s.postponed /\ t.sent = s.sent /\ t.will = s.will
        /\ t.sentTill = s.sentTill /\ t.when = s.when /\ ~t.entry
    BY <1>0 DEF StateType
  <2> HIDE DEF e, t, f, g0
  <2>8. /\ DOMAIN b = DOMAIN c /\ b.pending = f /\ b.dialog = g0 /\ b.queued = c.queued
        /\ b.states = e.states
        /\ \A i \in DOMAIN c : i \notin {"pending", "dialog"} => b[i] = e[i]
    BY <1>0, <2>1 DEF OnlyState, Fields
  <2> HIDE DEF b
  <2>9. d.queued /\ DOMAIN d = DOMAIN b /\ \A i \in DOMAIN b : i # "queued" => d[i] = b[i]
    <3>1. b.pending = Put(c.pending, h, c.dialog[h])
      BY <2>8 DEF f
    <3>2. DOMAIN b = DOMAIN c /\ b.queued = c.queued
      BY <2>8
    <3>3. c.pending # <<>> => c.queued
      BY <2>4
    <3> QED BY ONLY ZenonT(40), <1>0, <2>3, <3>1, <3>2, <3>3, PostponeIs
  <2>10. /\ DOMAIN d = DOMAIN c /\ d.byRequest = c.byRequest /\ d.next = c.next
         /\ d.timer = c.timer /\ d.chat = c.chat /\ d.ghost = c.ghost /\ d.net = c.net
         /\ d.calls = c.calls /\ d.called = c.called /\ d.dropped = c.dropped
         /\ d.states = e.states /\ d.pending = f /\ d.dialog = g0
    BY <1>0, <2>1, <2>8, <2>9 DEF OnlyState, Fields
  <2>11. /\ \A g : /\ StateOf(d, g) = StateOf(e, g) /\ (HasState(d, g) <=> HasState(e, g))
                   /\ Of(d, g) = Of(c, g) /\ ByRequest(d, g) = ByRequest(c, g)
                   /\ Asked(d, g) <=> Asked(c, g)
    BY <2>10 DEF StateOf, HasState, Of, ByRequest, Asked, Entries
  <2>12. \A g : g # h => StateOf(d, g) = StateOf(c, g)
    BY <2>1, <2>11 DEF OnlyState
  <2>13. Shape(d)
    <3>1. \A g \in Chat : StateOf(d, g) \in StateType
      BY <2>1, <2>7, <2>11, <2>12 DEF Shape
    <3>2. /\ DOMAIN d.states \subseteq Chat /\ DOMAIN d.dialog \subseteq Chat
          /\ DOMAIN d.pending \subseteq Chat
      BY <2>1, <2>5, <2>6, <2>10 DEF OnlyState, Shape
    <3> QED BY <2>9, <2>10, <3>1, <3>2 DEF Shape
  <2>14. At(c, d, h)
    <3>1. c.next \in Nat /\ \A g \in Chat : c.chat[g].before \in Nat
      BY DEF Shape, ChatType
    <3>2. Further(c, d)
      BY <2>10, <3>1 DEF Further
    <3>3. \A g \in Chat \ {h} : /\ g \in DOMAIN d.dialog <=> g \in DOMAIN c.dialog
                                /\ g \in DOMAIN d.pending <=> g \in DOMAIN c.pending
      BY <2>5, <2>6, <2>10
    <3> QED BY <2>10, <2>11, <2>12, <3>1, <3>2, <3>3 DEF At, Untouched
  <2>15. Calm(c, d)
    <3>1. Held(d, h) = Held(c, h)
      BY <2>4, <2>5, <2>6, <2>10 DEF Held, CallbacksOf
    <3>2. \A g : g # h => Held(d, g) = Held(c, g)
      BY <2>5, <2>6, <2>10 DEF Held, CallbacksOf
    <3>3. \A g : Waits(c, g) => Waits(d, g)
      BY <2>5, <2>6, <2>10 DEF Waits
    <3> QED BY <2>10, <3>1, <3>2, <3>3 DEF Calm
  <2>16. StateOf(d, h) = t /\ HasState(d, h)
    BY <2>1, <2>11
  <2>17. Sorted(t) /\ SlicesWait(t) /\ EntryWaits(t)
    BY <2>7 DEF Sorted, SlicesWait, EntryWaits, ChatBase, PostponeHistoryRequest, OfType
  <2>18. TableOK(d, h, N)
    BY <2>7, <2>10, <2>11, <2>16 DEF TableOK, SlicesKept, Table, ChatBase
  <2>19. ReadsOK(d, h)
    BY <2>7, <2>10, <2>11, <2>16 DEF ReadsOK, ChatBase
  <2>20. WaitsOK(d, h, W)
    BY <2>6, <2>7, <2>10, <2>16 DEF WaitsOK
  <2>21. \A id \in StateOf(d, h).postponed \union Ids(StateOf(d, h).sent) : id \in 1..d.next
    BY <2>7, <2>10, <2>16 DEF ChatBase
  <2>22. ChatOK(d, h, N, W)
    BY <2>16, <2>17, <2>18, <2>19, <2>20, <2>21 DEF ChatOK, ChatBase
  <2>23. ~EntryWaits(s) /\ h \in DOMAIN d.pending
    BY <1>2, <2>5, <2>10 DEF EntryWaits
  <2> QED BY <2>7, <2>10, <2>13, <2>14, <2>15, <2>16, <2>22, <2>23
<1> QED BY <1>1, <1>2

\* The request id of the chat h has ended: apart from it the chat is in order.
Without(R, id) == {r \in R : r.id # id}

Ending(c, h, id, N, W) ==
    LET s == StateOf(c, h)
    IN  /\ HasState(c, h) /\ Sorted(s) /\ id \notin s.postponed
        /\ \A i \in s.postponed \union Ids(s.sent) : i \in 1..c.next
        /\ SlicesKept(c, h)
        /\ Without(Table(c, h), id) = Rows(Without(Of(c, h), id) \union N)
        /\ ByRequest(c, h) \ {id} = s.postponed \union Ids(Without(Table(c, h), id))
        /\ id \in DOMAIN c.byRequest => c.byRequest[id] = h
        /\ ReadsOK(c, h) /\ WaitsOK(c, h, W)

Ended(c, h, id) ==
    [SetState(c, h, [c.states[h] EXCEPT !.sent = {r \in @ : r.id # id}])
     EXCEPT !.byRequest = Remove(@, id), !.net = @ \ NetOf(c, h, {id})]

LEMMA EndedOK ==
    ASSUME NEW c, Shape(c), NEW h \in Chat, NEW id, NEW N, NEW W, Ending(c, h, id, N, W),
           NEW b, b = Ended(c, h, id)
    PROVE  /\ Shape(b) /\ At(c, b, h) /\ Calm(c, b) /\ HasState(b, h)
           /\ ChatBase(b, h, N, W)
           /\ StateOf(b, h).will = StateOf(c, h).will
           /\ StateOf(b, h).entry = StateOf(c, h).entry
           /\ StateOf(b, h).sent = Without(StateOf(c, h).sent, id)
           /\ id \notin DOMAIN b.byRequest
<1> DEFINE s == StateOf(c, h)
           t == [s EXCEPT !.sent = {r \in @ : r.id # id}]
           e == SetState(c, h, t)
           ids == Remove(c.byRequest, id)
           net == c.net \ NetOf(c, h, {id})
<1>0. Fields \subseteq DOMAIN c /\ s \in StateType /\ s = c.states[h]
  BY DEF Shape, StateOf, Ending
<1>1. OnlyState(c, e, h) /\ HasState(e, h) /\ StateOf(e, h) = t
  BY <1>0, SetStateIs
<1>2. e.byRequest = c.byRequest /\ e.net = c.net /\ DOMAIN e = DOMAIN c
  BY <1>1 DEF OnlyState
<1>3. b = [e EXCEPT !.byRequest = ids, !.net = net]
  BY <1>0, <1>2 DEF Ended
<1>4. /\ t \in StateType /\ t.postponed = s.postponed /\ t.sent = Without(s.sent, id)
      /\ t.will = s.will /\ t.sentTill = s.sentTill /\ t.when = s.when /\ t.entry = s.entry
  BY <1>0 DEF StateType, Without
<1>5. DOMAIN ids = DOMAIN c.byRequest \ {id} /\ \A i \in DOMAIN ids : ids[i] = c.byRequest[i]
  BY DEF Remove, Restrict
<1>6. /\ \A r \in net : r \in c.net
      /\ \A g : g # h => {r \in net : r.type # "Entry" /\ r.chat = g} = Of(c, g)
      /\ {r \in net : r.type # "Entry" /\ r.chat = h} = Without(Of(c, h), id)
      /\ {r \in net : r.type = "Entry"} = Entries(c)
  BY DEF NetOf, Of, Without, Entries
<1> HIDE DEF e, t, ids, net
<1>7. /\ DOMAIN b = DOMAIN c /\ b.byRequest = ids /\ b.next = c.next
      /\ b.timer = c.timer /\ b.dialog = c.dialog /\ b.pending = c.pending
      /\ b.queued = c.queued /\ b.chat = c.chat /\ b.ghost = c.ghost /\ b.net = net
      /\ b.calls = c.calls /\ b.called = c.called /\ b.dropped = c.dropped
      /\ b.states = e.states
  BY <1>0, <1>1, <1>3 DEF OnlyState, Fields
<1>8. \A g : StateOf(b, g) = StateOf(e, g) /\ (HasState(b, g) <=> HasState(e, g))
  BY <1>7 DEF StateOf, HasState
<1>9. StateOf(b, h) = t /\ HasState(b, h) /\ \A g : g # h => StateOf(b, g) = StateOf(c, g)
  BY <1>1, <1>8 DEF OnlyState
<1>10. /\ \A g : g # h => Of(b, g) = Of(c, g)
       /\ Of(b, h) = Without(Of(c, h), id) /\ Entries(b) = Entries(c)
  BY <1>6, <1>7 DEF Of, Entries
<1>11. \A g : g # h => ByRequest(b, g) = ByRequest(c, g)
  BY <1>5, <1>7 DEF ByRequest, Ending
<1>12. ByRequest(b, h) = ByRequest(c, h) \ {id}
  BY <1>5, <1>7 DEF ByRequest
<1>13. Shape(b)
  <2>1. \A g \in Chat : StateOf(b, g) \in StateType
    BY <1>4, <1>9 DEF Shape
  <2>2. DOMAIN b.states \subseteq Chat
    BY <1>1, <1>7 DEF OnlyState, Shape
  <2>3. \A i \in DOMAIN b.byRequest : i \in 1..b.next /\ i \notin b.dropped
    BY <1>5, <1>7 DEF Shape
  <2>4. \A r \in b.net : NetOK(r)
    BY <1>6, <1>7 DEF Shape
  <2> QED BY <1>7, <2>1, <2>2, <2>3, <2>4 DEF Shape
<1>14. At(c, b, h)
  <2>1. c.next \in Nat /\ \A g \in Chat : c.chat[g].before \in Nat
    BY DEF Shape, ChatType
  <2>2. \A g : Asked(b, g) <=> Asked(c, g)
    BY <1>10 DEF Asked
  <2>3. Further(c, b)
    BY <1>7, <2>1 DEF Further
  <2>4. ASSUME NEW g \in Chat \ {h} PROVE Untouched(c, b, g)
    BY <1>7, <1>9, <1>10, <1>11, <2>1, <2>2 DEF Untouched
  <2> QED BY <2>3, <2>4 DEF At
<1>15. Calm(c, b)
  BY <1>7 DEF Calm, Held, Waits
<1>16. Sorted(t)
  BY <1>4 DEF Sorted, Ending, Without, PostponeHistoryRequest, OfType
<1>17. \A i \in t.postponed \union Ids(t.sent) : i \in 1..b.next
  BY <1>4, <1>7 DEF Ids, Without, Ending
<1>18. TableOK(b, h, N)
  <2>1. Table(b, h) = Without(Table(c, h), id)
    BY <1>4, <1>7, <1>9 DEF Table, Without
  <2>2. Of(b, h) \union N = Without(Of(c, h), id) \union N
    BY <1>10
  <2>3. SlicesKept(b, h)
    BY <1>4, <1>7, <1>9 DEF SlicesKept, Ending, Without
  <2> QED BY <1>4, <1>9, <1>12, <2>1, <2>2, <2>3 DEF TableOK, Ending
<1>19. ReadsOK(b, h)
  BY <1>4, <1>7, <1>9, <1>10 DEF ReadsOK, Ending, Without
<1>20. WaitsOK(b, h, W)
  <2>1. PostponeEntryRequest(t) => PostponeEntryRequest(s)
    BY <1>4 DEF PostponeEntryRequest, OfType, Without
  <2>2. Asked(b, h) <=> Asked(c, h)
    BY <1>10 DEF Asked
  <2> QED BY <1>4, <1>7, <1>9, <2>1, <2>2 DEF WaitsOK, Ending
<1>21. ChatBase(b, h, N, W)
  BY <1>9, <1>16, <1>17, <1>18, <1>19, <1>20 DEF ChatBase
<1> QED BY <1>4, <1>5, <1>7, <1>9, <1>13, <1>14, <1>15, <1>21

\* finishSentRequest() puts the chat in order.
LEMMA FinishOK ==
    ASSUME NEW c, Shape(c), NEW h \in Chat, NEW id, NEW N, NEW W, Ending(c, h, id, N, W),
           NEW d, d = FinishSentRequest(c, h, id)
    PROVE  /\ Shape(d) /\ At(c, d, h) /\ Calm(c, d) /\ ChatOK(d, h, N, W)
           /\ StateOf(d, h).will = StateOf(c, h).will /\ id \notin DOMAIN d.byRequest
           /\ StateOf(c, h).entry => StateOf(d, h).entry \/ h \in DOMAIN d.pending
           /\ (/\ \A r \in StateOf(c, h).sent : r.id # id
               /\ EntryWaits(StateOf(c, h)) /\ StateOf(c, h).entry) => StateOf(d, h).entry
<1> DEFINE b == Ended(c, h, id)
           e == Resume(b, h)
           f == ResumeEntry(e, h)
<1>1. d = CheckEmptyState(f, h)
  BY DEF FinishSentRequest, Ending, Ended
<1>2. /\ Shape(b) /\ At(c, b, h) /\ Calm(c, b) /\ HasState(b, h) /\ ChatBase(b, h, N, W)
      /\ StateOf(b, h).will = StateOf(c, h).will
      /\ StateOf(b, h).entry = StateOf(c, h).entry
      /\ StateOf(b, h).sent = Without(StateOf(c, h).sent, id)
      /\ id \notin DOMAIN b.byRequest
  BY EndedOK
<1> HIDE DEF b
<1>3. /\ Shape(e) /\ At(b, e, h) /\ Calm(b, e) /\ HasState(e, h)
      /\ ChatBase(e, h, N, W) /\ SlicesWait(StateOf(e, h))
      /\ StateOf(e, h).entry = StateOf(b, h).entry
      /\ StateOf(e, h).will = StateOf(b, h).will /\ e.byRequest = b.byRequest
      /\ PostponeEntryRequest(StateOf(e, h)) <=> PostponeEntryRequest(StateOf(b, h))
  <2> HIDE DEF e
  <2> QED BY <1>2, ResumeOK DEF e
<1> HIDE DEF e
<1>4. /\ Shape(f) /\ At(e, f, h) /\ Calm(e, f) /\ HasState(f, h)
      /\ ChatOK(f, h, N, W)
      /\ StateOf(f, h).will = StateOf(e, h).will /\ f.byRequest = e.byRequest
      /\ StateOf(e, h).entry => StateOf(f, h).entry \/ h \in DOMAIN f.pending
      /\ EntryWaits(StateOf(e, h)) /\ StateOf(e, h).entry => StateOf(f, h).entry
  <2> HIDE DEF f
  <2> QED BY <1>3, ResumeEntryOK DEF f
<1> HIDE DEF f
<1>5. /\ Shape(d) /\ At(f, d, h) /\ Calm(f, d) /\ ChatOK(d, h, N, W)
      /\ StateOf(d, h).entry = StateOf(f, h).entry
      /\ StateOf(d, h).will = StateOf(f, h).will
  BY <1>1, <1>4, CheckEmptyStateOK
<1>6. At(c, d, h)
  BY <1>2, <1>3, <1>4, <1>5, AtTwice
<1>7. Calm(c, d)
  BY <1>2, <1>3, <1>4, <1>5 DEF Calm
<1>8. d.pending = f.pending /\ d.byRequest = f.byRequest
  BY <1>1 DEF CheckEmptyState, Shape, Fields
<1>9. StateOf(c, h).entry => StateOf(d, h).entry \/ h \in DOMAIN d.pending
  BY <1>2, <1>3, <1>4, <1>5, <1>8
<1>10. ASSUME \A r \in StateOf(c, h).sent : r.id # id, EntryWaits(StateOf(c, h)),
              StateOf(c, h).entry
       PROVE  StateOf(d, h).entry
  <2>1. PostponeEntryRequest(StateOf(b, h))
    BY <1>2, <1>10 DEF EntryWaits, PostponeEntryRequest, OfType, Without
  <2>2. EntryWaits(StateOf(e, h)) /\ StateOf(e, h).entry
    BY <1>2, <1>3, <1>10, <2>1 DEF EntryWaits
  <2> QED BY <1>4, <1>5, <2>2
<1> QED BY <1>2, <1>3, <1>4, <1>5, <1>6, <1>7, <1>8, <1>9, <1>10

-----------------------------------------------------------------------------
(* A request is made.                                                        *)

\* The state of a chat with one more request, `in' telling whether its entry
\* is asked for.
WithRow(s, id, type) == [s EXCEPT !.sent = @ \union {[id |-> id, type |-> type]}]

Marked(s, id, type, in) ==
    LET t == WithRow(s, id, type)
    IN  [t EXCEPT !.entry = @ \/ (PostponeEntryRequest(t) /\ in)]

Noted(s, id, type, in) ==
    LET t == Marked(s, id, type, in)
    IN  IF ~PostponeHistoryRequest(t) THEN t
        ELSE [t EXCEPT !.postponed = @ \union Ids(OfType(t, {"History"})),
                       !.sent = @ \ OfType(t, {"History"})]

LEMMA MarkedIs ==
    ASSUME NEW s \in StateType, NEW id \in Nat, NEW type \in RowTypes, NEW in \in BOOLEAN,
           NEW t, t = Marked(s, id, type, in)
    PROVE  /\ t \in StateType /\ t.postponed = s.postponed
           /\ t.sent = s.sent \union {[id |-> id, type |-> type]}
           /\ t.will = s.will /\ t.sentTill = s.sentTill /\ t.when = s.when
           /\ s.entry => t.entry
           /\ t.entry => s.entry \/ (PostponeEntryRequest(t) /\ in)
           /\ PostponeEntryRequest(t) /\ in => t.entry
<1> DEFINE row == [id |-> id, type |-> type]
           u == WithRow(s, id, type)
           e == u.entry \/ (PostponeEntryRequest(u) /\ in)
<1>1. row \in Row
  BY DEF Row
<1> HIDE DEF row
<1>2. u = [s EXCEPT !.sent = @ \union {row}]
  BY DEF WithRow, row
<1>3. /\ u \in StateType /\ u.postponed = s.postponed /\ u.sent = s.sent \union {row}
      /\ u.will = s.will /\ u.sentTill = s.sentTill /\ u.when = s.when
      /\ u.entry = s.entry /\ u.done = s.done
  BY <1>1, <1>2 DEF StateType
<1> HIDE DEF u
<1>4. t = [u EXCEPT !.entry = e]
  BY DEF Marked, u
<1>5. u.entry \in BOOLEAN /\ s.entry \in BOOLEAN
  BY <1>3 DEF StateType
<1>6. e \in BOOLEAN
  BY <1>5 DEF PostponeEntryRequest
<1> HIDE DEF e
<1>7. /\ t \in StateType /\ t.postponed = s.postponed /\ t.sent = s.sent \union {row}
      /\ t.will = s.will /\ t.sentTill = s.sentTill /\ t.when = s.when /\ t.entry = e
  BY <1>3, <1>4, <1>6 DEF StateType
<1>8. PostponeEntryRequest(t) <=> PostponeEntryRequest(u)
  BY <1>3, <1>7 DEF PostponeEntryRequest, OfType
<1>9. e <=> s.entry \/ (PostponeEntryRequest(t) /\ in)
  BY <1>3, <1>5, <1>8 DEF e
<1> QED BY <1>5, <1>7, <1>9 DEF row

LEMMA NotedIs ==
    ASSUME NEW s \in StateType, NEW id \in Nat, NEW type \in RowTypes, NEW in \in BOOLEAN,
           Sorted(s), SlicesWait(s), EntryWaits(s),
           id \notin s.postponed, \A r \in s.sent : r.id # id,
           type = "History" => ~PostponeHistoryRequest(s),
           NEW t, t = Marked(s, id, type, in), NEW u, u = Noted(s, id, type, in)
    PROVE  /\ u \in StateType /\ Sorted(u) /\ SlicesWait(u) /\ EntryWaits(u)
           /\ u.will = s.will /\ u.sentTill = s.sentTill
           /\ s.entry => u.entry
           /\ u.entry => s.entry \/ in
           /\ PostponeEntryRequest(u) /\ in => u.entry
           /\ ~PostponeHistoryRequest(t) => u = t
           /\ PostponeHistoryRequest(t) =>
                /\ u.postponed = s.postponed \union Ids(OfType(t, {"History"}))
                /\ u.sent = t.sent \ OfType(t, {"History"})
           /\ t.sent = s.sent \union {[id |-> id, type |-> type]} /\ t.postponed = s.postponed
           /\ \A r, q \in t.sent : r.id = q.id => r = q
<1> DEFINE row == [id |-> id, type |-> type]
           slices == OfType(t, {"History"})
<1>1. /\ t \in StateType /\ t.postponed = s.postponed /\ t.sent = s.sent \union {row}
      /\ t.will = s.will /\ t.sentTill = s.sentTill /\ t.when = s.when
      /\ s.entry => t.entry
      /\ t.entry => s.entry \/ (PostponeEntryRequest(t) /\ in)
      /\ PostponeEntryRequest(t) /\ in => t.entry
  BY MarkedIs
<1>2. row.id = id /\ row.type = type
  OBVIOUS
<1> HIDE DEF row
<1>3. \A r, q \in t.sent : r.id = q.id => r = q
  BY <1>1, <1>2 DEF Sorted
<1>4. \A r \in t.sent : r.id \notin t.postponed
  BY <1>1, <1>2 DEF Sorted
<1>5. PostponeEntryRequest(s) => PostponeEntryRequest(t)
  BY <1>1 DEF PostponeEntryRequest, OfType
<1>6. EntryWaits(t)
  BY <1>1, <1>5 DEF EntryWaits
<1>7. CASE ~PostponeHistoryRequest(t)
  <2>1. u = t
    BY <1>7 DEF Noted
  <2>2. ~PostponeHistoryRequest(s)
    BY <1>1, <1>7 DEF PostponeHistoryRequest, OfType
  <2>3. Sorted(t) /\ SlicesWait(t)
    BY <1>1, <1>3, <1>4, <1>7, <2>2 DEF Sorted, SlicesWait
  <2> QED BY <1>1, <1>3, <1>6, <1>7, <2>1, <2>3 DEF row
<1>8. CASE PostponeHistoryRequest(t)
  <2>1. u = [t EXCEPT !.postponed = @ \union Ids(slices), !.sent = @ \ slices]
    BY <1>8 DEF Noted
  <2>2. Ids(slices) \subseteq Nat
    BY <1>1 DEF Ids, OfType, StateType, Row
  <2>3. slices \subseteq t.sent /\ \A r \in slices : r.type = "History"
    BY DEF OfType
  <2>4. \A r \in t.sent : r.type = "History" => r \in slices
    BY DEF OfType
  <2> HIDE DEF slices
  <2>5. /\ u \in StateType /\ u.postponed = t.postponed \union Ids(slices)
        /\ u.sent = t.sent \ slices /\ u.will = t.will /\ u.sentTill = t.sentTill
        /\ u.when = t.when /\ u.entry = t.entry
    <3> DEFINE P == t.postponed \union Ids(slices)
               S == t.sent \ slices
    <3>1. t \in StateType /\ P \in SUBSET Nat /\ S \in SUBSET Row
      BY <1>1, <2>2 DEF StateType
    <3>2. u = [t EXCEPT !.postponed = P, !.sent = S]
      BY <2>1
    <3> HIDE DEF P, S
    <3>3. u \in StateType
      BY <3>1, <3>2 DEF StateType
    <3>4. /\ u.postponed = P /\ u.sent = S /\ u.will = t.will /\ u.sentTill = t.sentTill
          /\ u.when = t.when /\ u.entry = t.entry
      BY <3>1, <3>2 DEF StateType
    <3> QED BY <3>3, <3>4 DEF P, S
  <2>6. PostponeHistoryRequest(u)
    BY <1>8, <2>3, <2>5 DEF PostponeHistoryRequest, OfType
  <2>7. PostponeEntryRequest(u) <=> PostponeEntryRequest(t)
    BY <2>3, <2>5 DEF PostponeEntryRequest, OfType
  <2>8. OfType(u, {"History"}) = {}
    BY <2>4, <2>5 DEF OfType
  <2>9. \A r \in u.sent : r.id \notin u.postponed
    BY <1>3, <1>4, <2>3, <2>5 DEF Ids
  <2>10. Sorted(u) /\ SlicesWait(u)
    BY <1>1, <1>3, <2>5, <2>6, <2>8, <2>9 DEF Sorted, SlicesWait
  <2>11. EntryWaits(u)
    BY <1>6, <2>5, <2>7 DEF EntryWaits
  <2> QED BY <1>1, <1>3, <1>8, <2>5, <2>7, <2>10, <2>11 DEF slices, row
<1> QED BY <1>7, <1>8

\* The request id, of that type, is to be noted in the chat h: unless it is a
\* read that was dropped it is on its way, or postponed.
Row1(c, id, type) == IF id \in c.dropped THEN {} ELSE {[id |-> id, type |-> type]}

Noting(c, h, id, type, N, W) ==
    LET s == StateOf(c, h)
    IN  /\ HasState(c, h) /\ Sorted(s) /\ SlicesWait(s) /\ EntryWaits(s)
        /\ id \in 1..c.next /\ type \in RowTypes
        /\ id \notin s.postponed /\ \A r \in s.sent : r.id # id
        /\ type = "History" => ~PostponeHistoryRequest(s) /\ id \notin c.dropped
        /\ \A i \in s.postponed \union Ids(s.sent) : i \in 1..c.next
        /\ SlicesKept(c, h)
        /\ Table(c, h) \union Row1(c, id, type) = Rows(Of(c, h) \union N)
        /\ ByRequest(c, h) = s.postponed \union Ids(Table(c, h) \union Row1(c, id, type))
        /\ \A r \in N : r.type # "History"
        /\ ReadsOK(c, h) /\ WaitsOK(c, h, W)

\* The table of a chat when its slices are taken back.
Cut(R, S) == R \ {r \in R : r.id \in Ids(S)}

Cuts(T, R, N, S) ==
    /\ T = Rows(R \union N)
    /\ \A r \in N : r.type # "History"
    /\ \A r \in S : r.type = "History"
    /\ \A r \in T : r.type = "History" => r \in S
    /\ \A r \in T, q \in S : r.id = q.id => r = q

LEMMA CutTable ==
    ASSUME NEW T, NEW R, NEW N, NEW S, Cuts(T, R, N, S)
    PROVE  T \ S = Rows(Cut(R, S) \union N)
<1> DEFINE Q == {r \in R : r.id \in Ids(S)}
<1>0. Cut(R, S) = R \ Q
  BY DEF Cut
<1> HIDE DEF Q
<1> USE DEF Cuts
<1>1. ASSUME NEW x \in T \ S PROVE x \in Rows(Cut(R, S) \union N)
  <2>1. PICK r \in R \union N : x = RowOf(r)
    BY DEF Rows
  <2>2. x.id = r.id
    BY <2>1 DEF RowOf
  <2>3. r \notin Q \/ r \in N
    BY <2>2 DEF Ids, Q
  <2> QED BY <1>0, <2>1, <2>3 DEF Rows
<1>2. ASSUME NEW x \in Rows(Cut(R, S) \union N) PROVE x \in T \ S
  <2>1. PICK r \in (R \ Q) \union N : x = RowOf(r)
    BY <1>0 DEF Rows
  <2>2. x.id = r.id /\ x.type = r.type
    BY <2>1 DEF RowOf
  <2>3. x \in T
    BY <2>1 DEF Rows
  <2>4. x \notin S
    BY <2>1, <2>2 DEF Ids, Q
  <2> QED BY <2>3, <2>4
<1> QED BY <1>1, <1>2

LEMMA NoteSentOK ==
    ASSUME NEW c, Shape(c), NEW h \in Chat, NEW id, NEW type, NEW N, NEW W,
           Noting(c, h, id, type, N, W), NEW d, d = NoteSent(c, h, id, type)
    PROVE  /\ Shape(d) /\ At(c, d, h) /\ Calm(c, d) /\ ChatOK(d, h, N, W) /\ HasState(d, h)
           /\ StateOf(d, h).will = StateOf(c, h).will
           /\ StateOf(c, h).entry => StateOf(d, h).entry
<1> DEFINE s == StateOf(c, h)
           in == h \in DOMAIN c.dialog
           t == Marked(s, id, type, in)
           u == Noted(s, id, type, in)
           slices == OfType(t, {"History"})
           e == SetState(c, h, u)
           net == c.net \ NetOf(c, h, Ids(slices))
           R == Cut(Of(c, h), slices)
           T == Table(c, h) \union Row1(c, id, type)
<1>0. Fields \subseteq DOMAIN c /\ s \in StateType /\ s = c.states[h] /\ id \in Nat
  BY DEF Shape, StateOf, Noting
<1>1. /\ u \in StateType /\ Sorted(u) /\ SlicesWait(u) /\ EntryWaits(u)
      /\ u.will = s.will /\ u.sentTill = s.sentTill
      /\ s.entry => u.entry
      /\ u.entry => s.entry \/ in
      /\ PostponeEntryRequest(u) /\ in => u.entry
      /\ ~PostponeHistoryRequest(t) => u = t
      /\ PostponeHistoryRequest(t) =>
           /\ u.postponed = s.postponed \union Ids(slices)
           /\ u.sent = t.sent \ slices
      /\ t.sent = s.sent \union {[id |-> id, type |-> type]} /\ t.postponed = s.postponed
      /\ \A r, q \in t.sent : r.id = q.id => r = q
  <2> HIDE DEF s, in, t, u
  <2>1. in \in BOOLEAN
    BY DEF in
  <2> QED BY <1>0, <2>1, NotedIs DEF Noting, t, u, s
<1>2. d = IF ~PostponeHistoryRequest(t) THEN SetState(c, h, t)
          ELSE [SetState(c, h, [t EXCEPT !.postponed = @ \union Ids(slices), !.sent = @ \ slices])
                EXCEPT !.net = @ \ NetOf(c, h, Ids(slices))]
  <2> DEFINE v == c.states[h]
             w == Marked(v, id, type, in)
  <2>1. d = IF ~PostponeHistoryRequest(w) THEN SetState(c, h, w)
            ELSE [SetState(c, h, [w EXCEPT !.postponed = @ \union Ids(OfType(w, {"History"})),
                                           !.sent = @ \ OfType(w, {"History"})])
                  EXCEPT !.net = @ \ NetOf(c, h, Ids(OfType(w, {"History"})))]
    BY Zenon DEF NoteSent, Marked, WithRow, Ids
  <2>2. w = t
    BY <1>0
  <2> HIDE DEF w, t
  <2> QED BY <2>1, <2>2
<1>3. OnlyState(c, e, h) /\ HasState(e, h) /\ StateOf(e, h) = u
  BY <1>0, SetStateIs
<1>4. d = IF ~PostponeHistoryRequest(t) THEN e ELSE [e EXCEPT !.net = net]
  <2>1. CASE ~PostponeHistoryRequest(t)
    BY <1>1, <1>2, <2>1
  <2>2. CASE PostponeHistoryRequest(t)
    <3>1. u = [t EXCEPT !.postponed = @ \union Ids(slices), !.sent = @ \ slices]
      BY <2>2 DEF Noted
    <3>2. e.net = c.net
      BY <1>3 DEF OnlyState
    <3> HIDE DEF u, t, slices
    <3> QED BY <1>2, <2>2, <3>1, <3>2
  <2> QED BY <2>1, <2>2
<1>5. T = Rows(Of(c, h) \union N)
  BY DEF Noting
<1>6. \A r \in slices : r \in t.sent /\ r.type = "History"
  BY DEF OfType
<1>7. \A r \in t.sent : r.type = "History" => r \in slices
  BY DEF OfType
<1>8. T = {r \in t.sent : r.id \notin c.dropped} /\ Table(c, h) \subseteq s.sent
  <2> DEFINE row == [id |-> id, type |-> type]
  <2>1. row.id = id
    OBVIOUS
  <2>2. t.sent = s.sent \union {row}
    BY <1>1
  <2>3. Row1(c, id, type) = IF id \in c.dropped THEN {} ELSE {row}
    BY DEF Row1
  <2> HIDE DEF row, t, s
  <2> QED BY <2>1, <2>2, <2>3 DEF Table, s
<1>9. \A r \in t.sent : r.type = "History" => r.id \notin c.dropped
  <2> DEFINE row == [id |-> id, type |-> type]
  <2>1. row.id = id /\ row.type = type
    OBVIOUS
  <2>2. t.sent = s.sent \union {row}
    BY <1>1
  <2> HIDE DEF row, t
  <2> QED BY <2>1, <2>2 DEF Noting, SlicesKept
<1>10. ByRequest(c, h) = s.postponed \union Ids(T)
  BY DEF Noting
<1>11. \A i \in s.postponed \union Ids(t.sent) : i \in 1..c.next
  <2> DEFINE row == [id |-> id, type |-> type]
  <2>1. row.id = id
    OBVIOUS
  <2>2. t.sent = s.sent \union {row}
    BY <1>1
  <2> HIDE DEF row, t
  <2> QED BY <2>1, <2>2 DEF Noting, Ids
<1>12. \A g : /\ g # h => {r \in net : r.type # "Entry" /\ r.chat = g} = Of(c, g)
       /\ {r \in net : r.type # "Entry" /\ r.chat = h} = R
       /\ {r \in net : r.type = "Entry"} = Entries(c)
       /\ net \subseteq c.net
  BY DEF NetOf, Of, Entries, Cut
<1> HIDE DEF s, in, t, u, e, net, T
\* Case by case the requests on their way, the table, and what is postponed.
<1> DEFINE Kept(r) == r \in Of(c, h) /\ (PostponeHistoryRequest(t) => r \in R)
           Q == {r \in Of(c, h) : Kept(r)}
<1>13. Q = IF PostponeHistoryRequest(t) THEN R ELSE Of(c, h)
  BY DEF Cut
<1>14. \A r \in Q : r \in Of(c, h)
  OBVIOUS
<1> HIDE DEF Kept, Q
<1>15. OnlySent(c, d, h, Q) /\ StateOf(d, h) = u /\ HasState(d, h)
  <2>1. CASE ~PostponeHistoryRequest(t)
    <3>1. d = e /\ Q = Of(c, h)
      BY <1>4, <1>13, <2>1
    <3>2. \A g : Of(e, g) = Of(c, g) /\ Entries(e) = Entries(c)
      BY <1>3 DEF OnlyState, Of, Entries
    <3> QED BY <1>3, <3>1, <3>2 DEF OnlyState, OnlySent
  <2>2. CASE PostponeHistoryRequest(t)
    <3>1. d = [e EXCEPT !.net = net] /\ Q = R
      BY <1>4, <1>13, <2>2
    <3>2. /\ DOMAIN d = DOMAIN e /\ d.net = net
          /\ \A i \in DOMAIN e : i # "net" => d[i] = e[i]
      BY <1>0, <1>3, <3>1 DEF OnlyState, Fields
    <3>3. /\ \A g : g # h => Of(d, g) = Of(c, g)
          /\ Of(d, h) = R /\ Entries(d) = Entries(c) /\ d.net \subseteq c.net
      BY <1>12, <3>2 DEF Of, Entries
    <3>4. /\ d.byRequest = c.byRequest /\ d.next = c.next
          /\ d.timer = c.timer /\ d.dialog = c.dialog /\ d.pending = c.pending
          /\ d.queued = c.queued /\ d.chat = c.chat /\ d.ghost = c.ghost
          /\ d.calls = c.calls /\ d.called = c.called /\ d.dropped = c.dropped
          /\ d.states = e.states /\ DOMAIN d = DOMAIN c
      BY <1>0, <1>3, <3>2 DEF OnlyState, Fields
    <3>5. \A g : StateOf(d, g) = StateOf(e, g) /\ (HasState(d, g) <=> HasState(e, g))
      BY <3>4 DEF StateOf, HasState
    <3> QED BY <1>3, <3>1, <3>3, <3>4, <3>5 DEF OnlyState, OnlySent
  <2> QED BY <2>1, <2>2
<1>16. \A r \in Q : NetOK(r)
  BY <1>14 DEF Of, Shape
<1>17. /\ Shape(d) /\ At(c, d, h) /\ Calm(c, d) /\ ByRequest(d, h) = ByRequest(c, h)
       /\ Asked(d, h) <=> Asked(c, h)
  BY <1>1, <1>15, <1>16, OnlySentAt
<1>18. /\ d.next = c.next /\ d.dropped = c.dropped /\ d.dialog = c.dialog /\ d.chat = c.chat
       /\ d.pending = c.pending /\ Of(d, h) = Q
  BY <1>15 DEF OnlySent
<1>19. /\ \A i \in u.postponed \union Ids(u.sent) : i \in 1..d.next
       /\ SlicesKept(d, h)
  <2>1. u.sent \subseteq t.sent
    BY <1>1
  <2>2. u.postponed \subseteq s.postponed \union Ids(t.sent)
    <3>1. Ids(slices) \subseteq Ids(t.sent)
      BY <1>6 DEF Ids
    <3> HIDE DEF slices
    <3> QED BY <1>1, <3>1
  <2>3. Ids(u.sent) \subseteq Ids(t.sent)
    BY <2>1 DEF Ids
  <2>4. SlicesKept(d, h)
    BY <1>9, <1>15, <1>18, <2>1 DEF SlicesKept
  <2> QED BY <1>11, <1>18, <2>2, <2>3, <2>4
<1>20. TableOK(d, h, N)
  <2>1. CASE ~PostponeHistoryRequest(t)
    <3>1. u = t /\ Q = Of(c, h) /\ t.postponed = s.postponed
      BY <1>1, <1>13, <2>1
    <3>2. Table(d, h) = T
      BY <1>8, <1>15, <1>18, <3>1 DEF Table
    <3> QED BY <1>5, <1>10, <1>15, <1>17, <1>18, <1>19, <3>1, <3>2 DEF TableOK
  <2>2. CASE PostponeHistoryRequest(t)
    <3>1. /\ u.postponed = s.postponed \union Ids(slices) /\ u.sent = t.sent \ slices /\ Q = R
      BY <1>1, <1>13, <2>2
    <3> HIDE DEF slices
    <3>2. Table(d, h) = T \ slices
      BY <1>8, <1>15, <1>18, <3>1 DEF Table
    <3>3. T \ slices = Rows(R \union N)
      <4>1. \A r \in T : r.type = "History" => r \in slices
        BY <1>7, <1>8
      <4>2. \A r \in T, q \in slices : r.id = q.id => r = q
        BY <1>1, <1>6, <1>8
      <4>3. \A r \in N : r.type # "History"
        BY DEF Noting
      <4>4. \A r \in slices : r.type = "History"
        BY <1>6
      <4>5. Cuts(T, Of(c, h), N, slices)
        BY <1>5, <4>1, <4>2, <4>3, <4>4 DEF Cuts
      <4> QED BY <4>5, CutTable
    <3>4. Ids(T) = Ids(slices) \union Ids(T \ slices)
      <4>1. slices \subseteq T
        BY <1>6, <1>8, <1>9
      <4> QED BY <4>1 DEF Ids
    <3>5. ByRequest(d, h) = u.postponed \union Ids(T \ slices)
      BY <1>10, <1>17, <3>1, <3>4
    <3> QED BY <1>15, <1>18, <1>19, <3>1, <3>2, <3>3, <3>5 DEF TableOK
  <2> QED BY <2>1, <2>2
<1>21. ReadsOK(d, h)
  BY <1>1, <1>14, <1>15, <1>18 DEF ReadsOK, Noting, s
<1>22. WaitsOK(d, h, W)
  <2>1. WaitsOK(c, h, W)
    BY DEF Noting
  <2>2. in <=> h \in DOMAIN c.dialog
    BY DEF in
  <2> QED BY <1>1, <1>15, <1>17, <1>18, <2>1, <2>2 DEF WaitsOK, s
<1>23. ChatOK(d, h, N, W)
  BY <1>1, <1>15, <1>19, <1>20, <1>21, <1>22 DEF ChatOK, ChatBase
<1> QED BY <1>1, <1>15, <1>17, <1>23 DEF s

-----------------------------------------------------------------------------
(* Reading.                                                                  *)

\* d differs from c in what of h is read, and where that is noted.
Tweaked(c, d, h) ==
    LET s == StateOf(c, h)
        t == StateOf(d, h)
    IN  /\ t.sent = s.sent /\ t.postponed = s.postponed /\ t.entry = s.entry
        /\ t.when # "none" => t.will # 0
        /\ t.will # 0 => t.will > t.sentTill
        /\ HasState(c, h) => HasState(d, h)
        /\ Of(d, h) = Of(c, h) /\ ByRequest(d, h) = ByRequest(c, h)
        /\ Asked(d, h) <=> Asked(c, h)
        /\ d.byRequest = c.byRequest
        /\ h \in DOMAIN d.dialog <=> h \in DOMAIN c.dialog
        /\ h \in DOMAIN d.pending => h \in DOMAIN c.pending \/ h \notin DOMAIN c.dialog
        /\ d.next = c.next /\ d.dropped = c.dropped
        /\ ReadsOK(c, h) => ReadsOK(d, h)

LEMMA TweakedKeeps ==
    ASSUME NEW c, NEW d, NEW h, Tweaked(c, d, h)
    PROVE  /\ \A N, W : ChatOK(c, h, N, W) => ChatOK(d, h, N, W)
           /\ \A id, N, W : Ending(c, h, id, N, W) => Ending(d, h, id, N, W)
<1> USE DEF Tweaked
<1> DEFINE s == StateOf(c, h)
           t == StateOf(d, h)
<1>1. Sorted(s) => Sorted(t)
  BY DEF Sorted, PostponeHistoryRequest, OfType
<1>2. /\ SlicesWait(s) => SlicesWait(t)
      /\ EntryWaits(s) => EntryWaits(t)
      /\ PostponeEntryRequest(t) <=> PostponeEntryRequest(s)
  BY DEF SlicesWait, EntryWaits, PostponeEntryRequest, PostponeHistoryRequest, OfType
<1>3. Table(d, h) = Table(c, h) /\ (SlicesKept(c, h) => SlicesKept(d, h))
  BY DEF Table, SlicesKept
<1>4. \A W : WaitsOK(c, h, W) => WaitsOK(d, h, W)
  BY <1>2 DEF WaitsOK
<1>5. ASSUME NEW N, NEW W, ChatOK(c, h, N, W) PROVE ChatOK(d, h, N, W)
  <2>1. TableOK(d, h, N)
    BY <1>3, <1>5 DEF TableOK, ChatOK, ChatBase
  <2> QED BY <1>1, <1>2, <1>4, <1>5, <2>1 DEF ChatOK, ChatBase
<1>6. ASSUME NEW id, NEW N, NEW W, Ending(c, h, id, N, W) PROVE Ending(d, h, id, N, W)
  BY <1>1, <1>3, <1>4, <1>6 DEF Ending
<1> QED BY <1>5, <1>6

\* It does so in the state of h only.
LEMMA OnlyStateTweaks ==
    ASSUME NEW c, NEW d, Shape(c), NEW h \in Chat, OnlyState(c, d, h), HasState(d, h),
           StateOf(d, h) \in StateType,
           StateOf(d, h).sent = StateOf(c, h).sent,
           StateOf(d, h).postponed = StateOf(c, h).postponed,
           StateOf(d, h).entry = StateOf(c, h).entry,
           StateOf(d, h).when # "none" => StateOf(d, h).will # 0,
           StateOf(d, h).will # 0 => StateOf(d, h).will > StateOf(d, h).sentTill,
           ReadsOK(c, h) => ReadsOK(d, h)
    PROVE  Tweaked(c, d, h)
<1>1. /\ Of(d, h) = Of(c, h) /\ ByRequest(d, h) = ByRequest(c, h)
      /\ Asked(d, h) <=> Asked(c, h)
  BY OnlyStateAt
<1> QED BY <1>1 DEF OnlyState, Tweaked

\* The first half of `finished'.
LEMMA ReadDoneOK ==
    ASSUME NEW c, Shape(c), NEW h \in Chat, HasState(c, h), NEW till \in Nat,
           StateOf(c, h).when # "none" => StateOf(c, h).will # 0,
           StateOf(c, h).will # 0 => StateOf(c, h).will > StateOf(c, h).sentTill,
           h \in DOMAIN c.dialog => h \notin DOMAIN c.pending,
           NEW d, d = ReadDone(c, h, till)
    PROVE  /\ Shape(d) /\ At(c, d, h) /\ Calm(c, d) /\ HasState(d, h) /\ Tweaked(c, d, h)
           /\ StateOf(d, h).will = StateOf(c, h).will /\ d.ghost = c.ghost
<1> DEFINE s == StateOf(c, h)
           yes == TRUE
           t == [s EXCEPT !.done = yes]
           u == [s EXCEPT !.done = yes, !.sentTill = 0]
           e == [c EXCEPT !.states[h] = t]
           f == [c EXCEPT !.states[h] = u]
<1>0. /\ Fields \subseteq DOMAIN c /\ s \in StateType /\ s = c.states[h]
      /\ \A r \in Of(c, h) : r.type = "ReadInbox" => r.till \in Nat
      /\ c.chat[h].before \in Nat
  BY DEF Shape, StateOf, Of, NetOK, ChatType
<1>1. /\ t \in StateType /\ t.postponed = s.postponed /\ t.sent = s.sent /\ t.will = s.will
      /\ t.sentTill = s.sentTill /\ t.when = s.when /\ t.entry = s.entry
  BY <1>0 DEF StateType
<1>2. /\ u \in StateType /\ u.postponed = s.postponed /\ u.sent = s.sent /\ u.will = s.will
      /\ u.sentTill = 0 /\ u.when = s.when /\ u.entry = s.entry
  BY <1>0 DEF StateType
<1>3. s.will \in Nat /\ s.sentTill \in Nat
  BY <1>0 DEF StateType
<1> HIDE DEF t, u
<1>4. OnlyState(c, e, h) /\ HasState(e, h) /\ StateOf(e, h) = t
  BY <1>0, ExceptStateIs
<1>5. OnlyState(c, f, h) /\ HasState(f, h) /\ StateOf(f, h) = u
  BY <1>0, ExceptStateIs
<1> HIDE DEF e, f
<1>6. CASE s.sentTill # till
  <2>1. d = c
    BY <1>0, <1>6 DEF ReadDone
  <2>2. At(c, c, h) /\ Calm(c, c)
    <3>1. c.next \in Nat /\ \A g \in Chat : c.chat[g].before \in Nat
      BY DEF Shape, ChatType
    <3> QED BY <3>1 DEF At, Further, Untouched, Calm
  <2>3. Tweaked(c, c, h)
    BY DEF Tweaked
  <2> QED BY <2>1, <2>2, <2>3
<1>7. CASE s.sentTill = till /\ UnreadCountRefreshNeeded(c.chat[h], till)
  <2>1. [c EXCEPT !.states[h].done = yes] = e
    BY <1>0 DEF e, t
  <2>2. d = RequestDialogEntry(e, h, {})
    BY <1>0, <1>7, <2>1 DEF ReadDone
  <2>3. Shape(e) /\ At(c, e, h) /\ Calm(c, e)
    BY <1>1, <1>4, OnlyStateAt
  <2>4. ReadsOK(c, h) => ReadsOK(e, h)
    <3>1. Of(e, h) = Of(c, h) /\ e.chat = c.chat
      <4>1. Of(e, h) = Of(c, h)
        BY <1>1, <1>4, OnlyStateAt
      <4> QED BY <1>4, <4>1 DEF OnlyState
    <3> QED BY <1>1, <1>4, <3>1 DEF ReadsOK
  <2>5. Tweaked(c, e, h)
    BY <1>1, <1>4, <2>4, OnlyStateTweaks
  <2>6. e.dialog = c.dialog /\ e.pending = c.pending /\ e.ghost = c.ghost
    BY <1>4 DEF OnlyState
  <2> HIDE DEF s
  <2>7. Requested(e, d, h, {})
    BY <2>2, <2>3, <2>6, RequestDialogEntryIs
  <2>8. /\ Shape(d) /\ At(e, d, h) /\ Calm(e, d)
        /\ \A g : StateOf(d, g) = StateOf(e, g) /\ (HasState(d, g) <=> HasState(e, g))
    BY <2>3, <2>7, RequestedOK
  <2>9. At(c, d, h) /\ Calm(c, d)
    BY <2>3, <2>8, AtTwice DEF Calm
  <2>10. /\ Of(d, h) = Of(e, h) /\ ByRequest(d, h) = ByRequest(e, h)
         /\ Asked(d, h) <=> Asked(e, h)
         /\ ReadsOK(e, h) => ReadsOK(d, h)
    BY <2>7, <2>8 DEF Requested, Of, ByRequest, Asked, Entries, ReadsOK
  <2>11. Tweaked(c, d, h)
    <3>1. /\ d.byRequest = e.byRequest /\ d.next = e.next /\ d.dropped = e.dropped
          /\ DOMAIN d.dialog = DOMAIN e.dialog
          /\ DOMAIN d.pending = DOMAIN e.pending \union IF h \in DOMAIN e.dialog THEN {} ELSE {h}
      BY <2>7 DEF Requested
    <3>2. StateOf(d, h) = StateOf(e, h) /\ (HasState(d, h) <=> HasState(e, h))
      BY <2>8
    <3> QED BY <2>5, <2>6, <2>10, <3>1, <3>2 DEF Tweaked
  <2>12. HasState(d, h) /\ StateOf(d, h).will = StateOf(c, h).will
    BY <1>1, <1>4, <2>8 DEF s
  <2>13. d.ghost = c.ghost
    BY <2>6, <2>7 DEF Requested
  <2> QED BY <2>8, <2>9, <2>11, <2>12, <2>13
<1>8. CASE s.sentTill = till /\ ~UnreadCountRefreshNeeded(c.chat[h], till)
  <2>1. [c EXCEPT !.states[h].done = yes, !.states[h].sentTill = 0] = f
    BY <1>0 DEF Fields, HasState, f, u
  <2>2. d = f
    BY <1>0, <1>8, <2>1 DEF ReadDone
  <2>3. Shape(f) /\ At(c, f, h) /\ Calm(c, f)
    BY <1>2, <1>5, OnlyStateAt
  <2>4. ReadsOK(c, h) => ReadsOK(f, h)
    <3>1. Of(f, h) = Of(c, h) /\ f.chat = c.chat
      <4>1. Of(f, h) = Of(c, h)
        BY <1>2, <1>5, OnlyStateAt
      <4> QED BY <1>5, <4>1 DEF OnlyState
    <3>2. till + 1 <= c.chat[h].before
      BY <1>0, <1>8 DEF UnreadCountRefreshNeeded
    <3> QED BY <1>0, <1>2, <1>3, <1>5, <1>8, <3>1, <3>2 DEF ReadsOK
  <2>5. Tweaked(c, f, h)
    BY <1>2, <1>3, <1>5, <2>4, OnlyStateTweaks
  <2>6. f.ghost = c.ghost
    BY <1>5 DEF OnlyState
  <2> QED BY <1>2, <1>5, <2>2, <2>3, <2>5, <2>6
<1> QED BY <1>6, <1>7, <1>8

-----------------------------------------------------------------------------
(* sendRequest().                                                            *)

\* The request id is given to the chat h, and not yet noted there.
Made(c, h, id) == [SetState(c, h, StateOf(c, h)) EXCEPT !.next = id, !.byRequest = Put(@, id, h)]

Making(c, h, id, N, W) ==
    LET s == StateOf(c, h)
    IN  /\ HasState(c, h) /\ Sorted(s) /\ SlicesWait(s) /\ EntryWaits(s)
        /\ id \in 1..c.next /\ id \notin c.dropped
        /\ id \notin s.postponed /\ \A r \in s.sent : r.id # id
        /\ \A i \in s.postponed \union Ids(s.sent) : i \in 1..c.next
        /\ SlicesKept(c, h) /\ Table(c, h) = Rows(Of(c, h) \union N)
        /\ ByRequest(c, h) = s.postponed \union Ids(Table(c, h)) \union {id}
        /\ id \in DOMAIN c.byRequest /\ c.byRequest[id] = h
        /\ ReadsOK(c, h) /\ WaitsOK(c, h, W)

LEMMA MadeOK ==
    ASSUME NEW c, Shape(c), NEW h \in Chat, NEW id, id = c.next + 1, NEW N, NEW W,
           ChatOK(c, h, N, W), NEW b, b = Made(c, h, id)
    PROVE  /\ Shape(b) /\ At(c, b, h) /\ Calm(c, b) /\ Making(b, h, id, N, W)
           /\ StateOf(b, h) = StateOf(c, h) /\ b.next = id /\ b.dropped = c.dropped
<1> DEFINE s == StateOf(c, h)
           e == SetState(c, h, s)
           f == Put(c.byRequest, id, h)
<1>0. Fields \subseteq DOMAIN c /\ s \in StateType /\ c.next \in Nat
  BY DEF Shape
<1>1. OnlyState(c, e, h) /\ HasState(e, h) /\ StateOf(e, h) = s
  BY <1>0, SetStateIs
<1>2. e.byRequest = c.byRequest
  BY <1>1 DEF OnlyState
<1>3. b = [e EXCEPT !.next = id, !.byRequest = f]
  BY <1>2 DEF Made
<1>4. /\ DOMAIN f = DOMAIN c.byRequest \union {id} /\ f[id] = h
      /\ \A i \in DOMAIN c.byRequest : i # id => f[i] = c.byRequest[i]
  BY DEF Put
<1>5. id \notin DOMAIN c.byRequest /\ id \notin c.dropped
  BY <1>0 DEF Shape
<1> HIDE DEF e, f
<1>6. /\ DOMAIN b = DOMAIN c /\ b.byRequest = f /\ b.next = id /\ b.states = e.states
      /\ b.timer = c.timer /\ b.dialog = c.dialog /\ b.pending = c.pending
      /\ b.queued = c.queued /\ b.chat = c.chat /\ b.ghost = c.ghost /\ b.net = c.net
      /\ b.calls = c.calls /\ b.called = c.called /\ b.dropped = c.dropped
  BY ZenonT(40), <1>0, <1>1, <1>3 DEF OnlyState, Fields
<1>7. /\ \A g : g # h => StateOf(b, g) = StateOf(c, g)
      /\ StateOf(b, h) = s /\ HasState(b, h)
  BY <1>1, <1>6 DEF OnlyState, StateOf, HasState
<1>8. \A g : Of(b, g) = Of(c, g) /\ (Asked(b, g) <=> Asked(c, g))
  BY <1>6 DEF Of, Asked, Entries
<1>9. \A g : g # h => ByRequest(b, g) = ByRequest(c, g)
  BY <1>4, <1>5, <1>6 DEF ByRequest
<1>10. ByRequest(b, h) = ByRequest(c, h) \union {id}
  BY <1>4, <1>5, <1>6 DEF ByRequest
<1>11. Shape(b)
  <2>1. \A g \in Chat : StateOf(b, g) \in StateType
    BY <1>0, <1>7 DEF Shape
  <2>2. DOMAIN b.states \subseteq Chat
    BY <1>1, <1>6 DEF OnlyState, Shape
  <2>3. \A i \in DOMAIN b.byRequest : i \in 1..b.next /\ i \notin b.dropped
    BY <1>0, <1>4, <1>5, <1>6 DEF Shape
  <2>4. b.next \in Nat /\ b.dropped \subseteq 1..b.next
    BY <1>0, <1>6 DEF Shape
  <2> QED BY <1>6, <2>1, <2>2, <2>3, <2>4 DEF Shape
<1>12. At(c, b, h)
  <2>1. \A g \in Chat : c.chat[g].before \in Nat
    BY DEF Shape, ChatType
  <2>2. Further(c, b)
    BY <1>0, <1>6 DEF Further
  <2>3. ASSUME NEW g \in Chat \ {h} PROVE Untouched(c, b, g)
    BY <1>6, <1>7, <1>8, <1>9, <2>1 DEF Untouched
  <2> QED BY <2>2, <2>3 DEF At
<1>13. Calm(c, b)
  BY <1>6 DEF Calm, Held, Waits
<1>14. Table(b, h) = Table(c, h) /\ (SlicesKept(c, h) => SlicesKept(b, h))
  BY <1>6, <1>7 DEF Table, SlicesKept
<1>15. ReadsOK(b, h) /\ WaitsOK(b, h, W)
  BY <1>6, <1>7, <1>8 DEF ReadsOK, WaitsOK, ChatOK, ChatBase
<1>16. \A i \in s.postponed \union Ids(s.sent) : i \in 1..c.next
  BY DEF ChatOK, ChatBase
<1>17. id \in 1..b.next /\ \A i \in s.postponed \union Ids(s.sent) : i \in 1..b.next
  BY <1>0, <1>6, <1>16
<1>18. id \notin s.postponed /\ \A r \in s.sent : r.id # id
  BY <1>0, <1>16 DEF Ids
<1>19. id \in DOMAIN b.byRequest /\ b.byRequest[id] = h
  BY <1>4, <1>6
<1>20. /\ SlicesKept(c, h) /\ Table(c, h) = Rows(Of(c, h) \union N)
       /\ ByRequest(c, h) = s.postponed \union Ids(Table(c, h))
       /\ Sorted(s) /\ SlicesWait(s) /\ EntryWaits(s)
  BY DEF ChatOK, ChatBase, TableOK
<1>21. Making(b, h, id, N, W)
  <2> HIDE DEF s
  <2> QED BY <1>5, <1>6, <1>7, <1>8, <1>10, <1>14, <1>15, <1>17, <1>18, <1>19, <1>20 DEF Making
<1> QED BY <1>6, <1>7, <1>11, <1>12, <1>13, <1>21

\* A slice that has to wait for a deletion.
LEMMA PostponedOK ==
    ASSUME NEW c, Shape(c), NEW h \in Chat, NEW id, NEW N, NEW W, Making(c, h, id, N, W),
           PostponeHistoryRequest(StateOf(c, h)), NEW t,
           t = [StateOf(c, h) EXCEPT !.postponed = @ \union {id}],
           NEW d, d = SetState(c, h, t)
    PROVE  /\ Shape(d) /\ At(c, d, h) /\ Calm(c, d) /\ ChatOK(d, h, N, W)
           /\ StateOf(d, h).will = StateOf(c, h).will
           /\ StateOf(d, h).entry = StateOf(c, h).entry
<1> DEFINE s == StateOf(c, h)
<1>0. Fields \subseteq DOMAIN c /\ s \in StateType /\ id \in Nat
  BY DEF Shape, Making
<1>1. /\ t \in StateType /\ t.postponed = s.postponed \union {id} /\ t.sent = s.sent
      /\ t.will = s.will /\ t.sentTill = s.sentTill /\ t.when = s.when /\ t.entry = s.entry
  BY <1>0 DEF StateType
<1>2. OnlyState(c, d, h) /\ StateOf(d, h) = t
  BY <1>0, SetStateIs
<1>3. /\ Shape(d) /\ At(c, d, h) /\ Calm(c, d)
      /\ Of(d, h) = Of(c, h) /\ ByRequest(d, h) = ByRequest(c, h)
      /\ Asked(d, h) <=> Asked(c, h)
  BY <1>1, <1>2, OnlyStateAt
<1>4. d.next = c.next /\ d.dropped = c.dropped /\ d.dialog = c.dialog /\ d.pending = c.pending
      /\ d.chat = c.chat
  BY <1>2 DEF OnlyState
<1>5. Sorted(t) /\ SlicesWait(t) /\ EntryWaits(t)
  BY <1>1 DEF Sorted, SlicesWait, EntryWaits, PostponeHistoryRequest, PostponeEntryRequest,
              OfType, Making
<1>6. TableOK(d, h, N)
  <2>1. Table(d, h) = Table(c, h) /\ (SlicesKept(c, h) => SlicesKept(d, h))
    BY <1>1, <1>2, <1>4 DEF Table, SlicesKept
  <2>2. /\ SlicesKept(c, h) /\ Table(c, h) = Rows(Of(c, h) \union N)
        /\ ByRequest(c, h) = s.postponed \union Ids(Table(c, h)) \union {id}
    BY DEF Making
  <2> HIDE DEF s
  <2> QED BY <1>1, <1>2, <1>3, <2>1, <2>2 DEF TableOK
<1>7. ReadsOK(d, h)
  <2>1. ReadsOK(c, h)
    BY DEF Making
  <2> HIDE DEF s
  <2> QED BY <1>1, <1>2, <1>3, <1>4, <2>1 DEF ReadsOK, s
<1>8. WaitsOK(d, h, W)
  BY ZenonT(40), <1>1, <1>2, <1>3, <1>4 DEF WaitsOK, Making, PostponeEntryRequest, OfType
<1>9. \A i \in t.postponed \union Ids(t.sent) : i \in 1..d.next
  BY <1>1, <1>4 DEF Making
<1>10. ChatOK(d, h, N, W)
  BY <1>2, <1>5, <1>6, <1>7, <1>8, <1>9 DEF ChatOK, ChatBase
<1> QED BY <1>1, <1>2, <1>3, <1>10

\* A request that is made is done with for the chat.
LEMMA MakingEnds ==
    ASSUME NEW c, NEW h, NEW id, NEW N, NEW W, Making(c, h, id, N, W)
    PROVE  Ending(c, h, id, N, W)
<1> DEFINE s == StateOf(c, h)
<1>1. Without(Table(c, h), id) = Table(c, h)
  BY DEF Without, Table, Making
<1>2. Rows(Without(Of(c, h), id) \union N) = Table(c, h)
  <2>1. Table(c, h) = Rows(Of(c, h) \union N) /\ \A r \in Table(c, h) : r.id # id
    BY DEF Making, Table
  <2>2. \A r \in Of(c, h) : RowOf(r) \in Table(c, h) /\ RowOf(r).id = r.id
    BY <2>1 DEF Rows, RowOf
  <2>3. Without(Of(c, h), id) = Of(c, h)
    BY <2>1, <2>2 DEF Without
  <2> QED BY <2>1, <2>3
<1>3. id \notin Ids(Table(c, h)) /\ id \notin s.postponed
  BY DEF Making, Ids, Table
<1>4. ByRequest(c, h) \ {id} = s.postponed \union Ids(Table(c, h))
  BY <1>3 DEF Making
<1> HIDE DEF s
<1> QED BY <1>1, <1>2, <1>3, <1>4 DEF Making, Ending, s

\* The id of a read is dropped when it is in use no more.
LEMMA DroppedOK ==
    ASSUME NEW c, NEW e, Shape(c), Shape(e), NEW h \in Chat, NEW id, NEW N, NEW W,
           At(c, e, h), ChatOK(e, h, N, W), id \notin DOMAIN e.byRequest, id > c.next,
           id \in 1..e.next, id \notin e.dropped, \A r \in N : r.type # "History",
           NEW d, d = [e EXCEPT !.dropped = @ \union {id}]
    PROVE  /\ Shape(d) /\ At(c, d, h) /\ Calm(e, d) /\ ChatOK(d, h, N, W)
           /\ StateOf(d, h) = StateOf(e, h) /\ (HasState(d, h) <=> HasState(e, h))
           /\ HasState(d, h) => Noting(d, h, id, "ReadInbox", N, W)
<1> DEFINE s == StateOf(e, h)
<1>0. Fields \subseteq DOMAIN e /\ c.next \in Nat /\ e.next \in Nat
  BY DEF Shape
<1>1. /\ DOMAIN d = DOMAIN e /\ d.states = e.states /\ d.byRequest = e.byRequest
      /\ d.next = e.next /\ d.timer = e.timer /\ d.dialog = e.dialog /\ d.pending = e.pending
      /\ d.queued = e.queued /\ d.chat = e.chat /\ d.net = e.net
      /\ d.calls = e.calls /\ d.called = e.called /\ d.dropped = e.dropped \union {id}
  BY <1>0 DEF Fields
<1>2. \A g : /\ StateOf(d, g) = StateOf(e, g) /\ (HasState(d, g) <=> HasState(e, g))
             /\ Of(d, g) = Of(e, g) /\ ByRequest(d, g) = ByRequest(e, g)
             /\ Asked(d, g) <=> Asked(e, g)
  BY <1>1 DEF StateOf, HasState, Of, ByRequest, Asked, Entries
<1>3. Shape(d)
  BY <1>0, <1>1, <1>2 DEF Shape
<1>4. At(c, d, h)
  <2>1. Further(c, d)
    BY <1>0, <1>1 DEF At, Further
  <2>2. ASSUME NEW g \in Chat \ {h} PROVE Untouched(c, d, g)
    BY <1>1, <1>2 DEF At, Untouched
  <2> QED BY <2>1, <2>2 DEF At
<1>5. Calm(e, d)
  BY <1>1 DEF Calm, Held, Waits
<1>6. /\ Table(e, h) = Rows(Of(e, h) \union N) /\ SlicesKept(e, h)
      /\ ByRequest(e, h) = s.postponed \union Ids(Table(e, h))
      /\ \A i \in s.postponed \union Ids(s.sent) : i \in 1..e.next
      /\ Sorted(s) /\ SlicesWait(s) /\ EntryWaits(s) /\ ReadsOK(e, h) /\ WaitsOK(e, h, W)
  BY DEF ChatOK, ChatBase, TableOK
<1>7. id \notin s.postponed /\ \A r \in s.sent : r.id # id
  <2>1. id \notin ByRequest(e, h)
    BY DEF ByRequest
  <2> QED BY <1>6, <2>1 DEF Ids, Table
<1>8. Table(d, h) = Table(e, h) /\ SlicesKept(d, h)
  BY <1>1, <1>2, <1>6, <1>7 DEF Table, SlicesKept
<1>9. ReadsOK(d, h) /\ WaitsOK(d, h, W)
  BY <1>1, <1>2, <1>6 DEF ReadsOK, WaitsOK
<1> HIDE DEF s
<1>10. ChatOK(d, h, N, W)
  BY <1>1, <1>2, <1>6, <1>8, <1>9 DEF ChatOK, ChatBase, TableOK, s
<1>11. ASSUME HasState(d, h) PROVE Noting(d, h, id, "ReadInbox", N, W)
  <2>1. Row1(d, id, "ReadInbox") = {}
    BY <1>1 DEF Row1
  <2>2. "ReadInbox" \in RowTypes /\ "ReadInbox" # "History"
    BY DEF RowTypes
  <2>3. id \in 1..d.next
    BY <1>1
  <2> QED BY <1>1, <1>2, <1>6, <1>7, <1>8, <1>9, <1>11, <2>1, <2>2, <2>3 DEF Noting, s
<1> QED BY <1>2, <1>3, <1>4, <1>5, <1>10, <1>11

\* What an operation does that changes nothing but a flag.
LEMMA DanglingIs ==
    ASSUME NEW c, Shape(c), NEW h \in Chat, NEW x, NEW d, d = [c EXCEPT !.dangling = x]
    PROVE  /\ Shape(d) /\ At(c, d, h) /\ Calm(c, d)
           /\ StateOf(d, h) = StateOf(c, h)
           /\ \A N, W : ChatOK(c, h, N, W) => ChatOK(d, h, N, W)
<1>0. Fields \subseteq DOMAIN c
  BY DEF Shape
<1>1. /\ DOMAIN d = DOMAIN c /\ d.states = c.states /\ d.byRequest = c.byRequest
      /\ d.next = c.next /\ d.timer = c.timer /\ d.dialog = c.dialog /\ d.pending = c.pending
      /\ d.queued = c.queued /\ d.chat = c.chat /\ d.ghost = c.ghost /\ d.net = c.net
      /\ d.calls = c.calls /\ d.called = c.called /\ d.dropped = c.dropped
      /\ d.alive = c.alive
  BY <1>0 DEF Fields
<1>2. \A g : /\ StateOf(d, g) = StateOf(c, g)
             /\ Of(d, g) = Of(c, g) /\ ByRequest(d, g) = ByRequest(c, g)
             /\ Asked(d, g) <=> Asked(c, g)
  BY <1>1 DEF StateOf, HasState, Of, ByRequest, Asked, Entries
<1>3. Shape(d)
  BY <1>1, <1>2 DEF Shape
<1>4. c.next \in Nat /\ \A g \in Chat : c.chat[g].before \in Nat
  BY DEF Shape, ChatType
<1>5. Further(c, d) /\ \A g \in Chat : Untouched(c, d, g)
  BY <1>1, <1>2, <1>4 DEF Further, Untouched
<1>6. Calm(c, d)
  BY <1>1 DEF Calm, Held, Waits
<1> QED BY <1>2, <1>3, <1>5, <1>6, UntouchedKeeps DEF At

\* A read is dropped in ghost mode.
LEMMA SuppressOK ==
    ASSUME NEW c, NEW b, Shape(c), Shape(b), NEW h \in Chat, NEW id, NEW N, NEW W,
           At(c, b, h), Making(b, h, id, N, W), id > c.next, \A r \in N : r.type # "History",
           NEW till \in Nat, NEW d, d = Suppress(b, h, id, till)
    PROVE  /\ Shape(d) /\ At(c, d, h) /\ Calm(b, d) /\ ChatOK(d, h, N, W)
           /\ StateOf(d, h).will = StateOf(b, h).will
           /\ StateOf(b, h).entry => StateOf(d, h).entry
<1> DEFINE e == ReadDone(b, h, till)
           f == FinishSentRequest(e, h, id)
           g == [f EXCEPT !.dropped = @ \union {id}]
           s == StateOf(b, h)
<1>0. /\ HasState(b, h) /\ Sorted(s) /\ EntryWaits(s) /\ WaitsOK(b, h, W)
      /\ id \in 1..b.next /\ id \notin b.dropped /\ \A r \in s.sent : r.id # id
  BY DEF Making
<1>1. /\ Shape(e) /\ At(b, e, h) /\ Calm(b, e) /\ HasState(e, h) /\ Tweaked(b, e, h)
      /\ StateOf(e, h).will = s.will
  <2> HIDE DEF e
  <2> QED BY <1>0, ReadDoneOK DEF e, Sorted, WaitsOK
<1>2. Ending(e, h, id, N, W)
  BY <1>1, MakingEnds, TweakedKeeps
<1>3. /\ StateOf(e, h).sent = s.sent /\ StateOf(e, h).entry = s.entry
      /\ e.next = b.next /\ e.dropped = b.dropped
  BY <1>1 DEF Tweaked
<1>4. d = IF HasState(g, h) THEN NoteSent(g, h, id, "ReadInbox") ELSE [g EXCEPT !.dangling = TRUE]
  BY DEF Suppress
<1> HIDE DEF e
<1>5. /\ Shape(f) /\ At(e, f, h) /\ Calm(e, f) /\ ChatOK(f, h, N, W)
      /\ StateOf(f, h).will = StateOf(e, h).will /\ id \notin DOMAIN f.byRequest
      /\ (/\ \A r \in StateOf(e, h).sent : r.id # id
          /\ EntryWaits(StateOf(e, h)) /\ StateOf(e, h).entry) => StateOf(f, h).entry
  <2> HIDE DEF f
  <2> QED BY <1>1, <1>2, FinishOK DEF f
<1> HIDE DEF f
<1>6. At(c, f, h)
  BY <1>1, <1>5, AtTwice
<1>7. id \in 1..f.next /\ id \notin f.dropped
  <2>1. b.next \in Nat /\ f.next \in Nat /\ Further(e, f)
    BY <1>5 DEF Shape, At
  <2> QED BY <1>0, <1>3, <2>1 DEF Further
<1>8. /\ Shape(g) /\ At(c, g, h) /\ Calm(f, g) /\ ChatOK(g, h, N, W)
      /\ StateOf(g, h) = StateOf(f, h)
      /\ HasState(g, h) => Noting(g, h, id, "ReadInbox", N, W)
  BY <1>5, <1>6, <1>7, DroppedOK
<1> HIDE DEF g, s
<1>9. /\ Shape(d) /\ At(g, d, h) /\ Calm(g, d) /\ ChatOK(d, h, N, W)
      /\ StateOf(d, h).will = StateOf(g, h).will
      /\ StateOf(g, h).entry => StateOf(d, h).entry
  <2>1. CASE HasState(g, h)
    BY <1>4, <1>8, <2>1, NoteSentOK
  <2>2. CASE ~HasState(g, h)
    BY <1>4, <1>8, <2>2, DanglingIs
  <2> QED BY <2>1, <2>2
<1>10. At(c, d, h)
  BY <1>8, <1>9, AtTwice
<1>11. Calm(b, d)
  BY <1>1, <1>5, <1>8, <1>9 DEF Calm
<1>12. EntryWaits(StateOf(e, h))
  BY <1>0, <1>3 DEF EntryWaits, PostponeEntryRequest, OfType
<1>13. s.entry => StateOf(d, h).entry
  BY <1>0, <1>3, <1>5, <1>8, <1>9, <1>12
<1> QED BY <1>1, <1>5, <1>8, <1>9, <1>10, <1>11, <1>13 DEF s

\* A request is on its way, and noted in the chat.
LEMMA SentOK ==
    ASSUME NEW c, Shape(c), NEW h \in Chat, NEW id, NEW N, NEW W, Making(c, h, id, N, W),
           \A r \in N : r.type # "History",
           NEW type \in RowTypes, NEW till \in Nat,
           type = "History" => ~PostponeHistoryRequest(StateOf(c, h)),
           type = "ReadInbox" => /\ StateOf(c, h).sentTill = till /\ till # 0
                                 /\ StateOf(c, h).will = 0,
           NEW b, b = [c EXCEPT !.net = @ \union {OnNet(h, id, type, till)}],
           NEW d, d = NoteSent(b, h, id, type)
    PROVE  /\ Shape(d) /\ At(c, d, h) /\ Calm(c, d) /\ ChatOK(d, h, N, W)
           /\ StateOf(d, h).will = StateOf(c, h).will
           /\ StateOf(c, h).entry => StateOf(d, h).entry
<1> DEFINE s == StateOf(c, h)
           x == OnNet(h, id, type, till)
           row == [id |-> id, type |-> type]
<1>0. /\ Fields \subseteq DOMAIN c /\ id \in Nat /\ s \in StateType
  BY DEF Shape, Making
<1>1. /\ x.chat = h /\ x.id = id /\ x.type = type /\ x.till = till /\ x.type # "Entry"
      /\ NetOK(x) /\ RowOf(x) = row
  BY <1>0 DEF OnNet, NetOK, RowTypes, Types, RowOf
<1> HIDE DEF x
<1>2. /\ DOMAIN b = DOMAIN c /\ b.net = c.net \union {x} /\ b.states = c.states
      /\ b.byRequest = c.byRequest /\ b.next = c.next /\ b.timer = c.timer
      /\ b.dialog = c.dialog /\ b.pending = c.pending
      /\ b.queued = c.queued /\ b.chat = c.chat /\ b.ghost = c.ghost
      /\ b.calls = c.calls /\ b.called = c.called /\ b.dropped = c.dropped
  BY <1>0 DEF Fields, x
<1>3. \A g : StateOf(b, g) = StateOf(c, g) /\ (HasState(b, g) <=> HasState(c, g))
  BY <1>2 DEF StateOf, HasState
<1>4. /\ \A g : g # h => Of(b, g) = Of(c, g)
      /\ Of(b, h) = Of(c, h) \union {x} /\ Entries(b) = Entries(c)
  BY <1>1, <1>2 DEF Of, Entries
<1>5. OnlySent(c, b, h, Of(c, h) \union {x})
  BY <1>2, <1>3, <1>4 DEF OnlySent, Of
<1>6. \A r \in Of(c, h) \union {x} : NetOK(r)
  BY <1>1 DEF Of, Shape
<1>7. /\ Shape(b) /\ At(c, b, h) /\ Calm(c, b) /\ ByRequest(b, h) = ByRequest(c, h)
      /\ Asked(b, h) <=> Asked(c, h)
  BY ZenonT(40), <1>0, <1>3, <1>5, <1>6, OnlySentAt
<1>8. Table(b, h) = Table(c, h) /\ (SlicesKept(c, h) => SlicesKept(b, h))
  BY <1>2, <1>3 DEF Table, SlicesKept
<1>9. Table(b, h) \union Row1(b, id, type) = Rows(Of(b, h) \union N)
  <2>1. Row1(b, id, type) = {row}
    BY <1>2 DEF Row1, Making
  <2>2. Rows(Of(b, h) \union N) = Rows(Of(c, h) \union N) \union {RowOf(x)}
    BY <1>4 DEF Rows
  <2>3. Table(c, h) = Rows(Of(c, h) \union N)
    BY DEF Making
  <2> HIDE DEF row
  <2> QED BY <1>1, <1>8, <2>1, <2>2, <2>3
<1>10. ByRequest(b, h) = s.postponed \union Ids(Table(b, h) \union Row1(b, id, type))
  <2>1. Row1(b, id, type) = {row} /\ row.id = id
    BY <1>2 DEF Row1, Making
  <2>2. ByRequest(c, h) = s.postponed \union Ids(Table(c, h)) \union {id}
    BY DEF Making
  <2> HIDE DEF row, s
  <2>3. Ids(Table(c, h) \union {row}) = Ids(Table(c, h)) \union {id}
    BY <2>1 DEF Ids
  <2> QED BY <1>7, <1>8, <2>1, <2>2, <2>3
<1>11. ReadsOK(b, h)
  <2>1. ReadsOK(c, h)
    BY DEF Making
  <2>2. StateOf(b, h) = s /\ b.chat = c.chat
    BY <1>2, <1>3
  <2>3. \A r \in Of(b, h) : r \in Of(c, h) \/ r = x
    BY <1>4
  <2>4. x.type = "ReadInbox" => s.will = 0 /\ s.sentTill # 0 /\ x.till = s.sentTill
    BY <1>1
  <2>5. s.sentTill \in Nat
    BY <1>0 DEF StateType
  <2> HIDE DEF s
  <2> QED BY <2>1, <2>2, <2>3, <2>4, <2>5 DEF ReadsOK, s
<1>12. WaitsOK(b, h, W)
  BY ZenonT(40), <1>2, <1>3, <1>7 DEF WaitsOK, Making
<1>13. Noting(b, h, id, type, N, W)
  <2>1. /\ HasState(c, h) /\ Sorted(s) /\ SlicesWait(s) /\ EntryWaits(s)
        /\ id \in 1..c.next /\ id \notin c.dropped
        /\ id \notin s.postponed /\ \A r \in s.sent : r.id # id
        /\ \A i \in s.postponed \union Ids(s.sent) : i \in 1..c.next
        /\ SlicesKept(c, h)
    BY DEF Making
  <2>2. StateOf(b, h) = s
    BY <1>3
  <2> HIDE DEF s
  <2> QED BY <1>2, <1>3, <1>8, <1>9, <1>10, <1>11, <1>12, <2>1, <2>2 DEF Noting, s
<1>14. /\ Shape(d) /\ At(b, d, h) /\ Calm(b, d) /\ ChatOK(d, h, N, W)
       /\ StateOf(d, h).will = StateOf(b, h).will
       /\ StateOf(b, h).entry => StateOf(d, h).entry
  BY <1>7, <1>13, NoteSentOK
<1>15. At(c, d, h) /\ Calm(c, d)
  BY <1>7, <1>14, AtTwice DEF Calm
<1> QED BY <1>3, <1>14, <1>15

LEMMA SendRequestOK ==
    ASSUME NEW c, Shape(c), NEW h \in Chat, NEW N, NEW W, ChatOK(c, h, N, W),
           \A r \in N : r.type # "History", NEW type \in RowTypes, NEW till \in Nat,
           type = "ReadInbox" => /\ StateOf(c, h).sentTill = till /\ till # 0
                                 /\ StateOf(c, h).will = 0,
           NEW d, d = SendRequest(c, h, type, till)
    PROVE  /\ Shape(d) /\ At(c, d, h) /\ Calm(c, d) /\ ChatOK(d, h, N, W)
           /\ StateOf(d, h).will = StateOf(c, h).will
           /\ StateOf(c, h).entry => StateOf(d, h).entry
<1> DEFINE id == c.next + 1
           s == StateOf(c, h)
           b == Made(c, h, id)
           t == [s EXCEPT !.postponed = @ \union {id}]
           x == OnNet(h, id, type, till)
<1>1. /\ Shape(b) /\ At(c, b, h) /\ Calm(c, b) /\ Making(b, h, id, N, W)
      /\ StateOf(b, h) = s /\ b.next = id /\ b.dropped = c.dropped
  <2> HIDE DEF b, id
  <2> QED BY MadeOK DEF b, id
<1>2. c.next \in Nat
  BY DEF Shape
<1>3. d = IF type = "History" /\ PostponeHistoryRequest(s) THEN SetState(b, h, t)
          ELSE IF type = "ReadInbox" /\ c.ghost /\ h \notin Channel THEN Suppress(b, h, id, till)
          ELSE NoteSent([b EXCEPT !.net = @ \union {x}], h, id, type)
  BY Zenon DEF SendRequest, Made
<1>4. id > c.next
  BY <1>2
<1> HIDE DEF b, id, x
<1> SUFFICES /\ Shape(d) /\ At(c, d, h) /\ Calm(b, d) /\ ChatOK(d, h, N, W)
             /\ StateOf(d, h).will = s.will
             /\ s.entry => StateOf(d, h).entry
  BY <1>1 DEF Calm
<1>5. CASE type = "History" /\ PostponeHistoryRequest(s)
  <2>1. d = SetState(b, h, t)
    BY <1>3, <1>5
  <2>2. /\ Shape(d) /\ At(b, d, h) /\ Calm(b, d) /\ ChatOK(d, h, N, W)
        /\ StateOf(d, h).will = s.will /\ StateOf(d, h).entry = s.entry
    BY <1>1, <1>5, <2>1, PostponedOK
  <2> QED BY <1>1, <2>2, AtTwice
<1>6. CASE ~(type = "History" /\ PostponeHistoryRequest(s)) /\ type = "ReadInbox" /\ c.ghost /\ h \notin Channel
  <2>1. d = Suppress(b, h, id, till)
    BY <1>3, <1>6
  <2> QED BY <1>1, <1>4, <2>1, SuppressOK
<1>7. CASE /\ ~(type = "History" /\ PostponeHistoryRequest(s))
           /\ ~(type = "ReadInbox" /\ c.ghost /\ h \notin Channel)
  <2> DEFINE e == [b EXCEPT !.net = @ \union {x}]
  <2>1. d = NoteSent(e, h, id, type)
    BY <1>3, <1>7
  <2> HIDE DEF s, e
  <2>2. /\ Shape(d) /\ At(b, d, h) /\ Calm(b, d) /\ ChatOK(d, h, N, W)
        /\ StateOf(d, h).will = s.will
        /\ s.entry => StateOf(d, h).entry
    BY <1>1, <1>7, <2>1, SentOK DEF e, x, s
  <2> QED BY <1>1, <2>2, AtTwice
<1> QED BY <1>5, <1>6, <1>7

-----------------------------------------------------------------------------
(* Folds over chats.  The operators are told apart by their name, so that    *)
(* one lemma serves them all.                                                *)

\* Every nonempty set of numbers has a least element.
LEMMA LeastNat ==
    ASSUME NEW S, S \subseteq Nat, S # {}
    PROVE  \E l \in S : \A k \in S : l <= k
<1>1. PICK l \in S : \A k \in S : ~(<<k, l>> \in OpToRel(<, Nat))
  BY NatLessThanWellFounded, WFMin
<1>2. \A k \in S : ~(k < l)
  BY <1>1 DEF OpToRel
<1> QED BY <1>2

One(x) == CHOOSE y \in x : TRUE

\* Induction on the size of a finite set, in the form of sets of its subsets.
LEMMA BySize ==
    ASSUME NEW S, IsFiniteSet(S), NEW P, {} \in P,
           \A x \in SUBSET S : x # {} /\ x \ {One(x)} \in P => x \in P
    PROVE  SUBSET S \subseteq P
<1> DEFINE Bad == {n \in Nat : \E x \in SUBSET S : Cardinality(x) = n /\ x \notin P}
<1>1. ASSUME NEW x \in SUBSET S PROVE IsFiniteSet(x) /\ Cardinality(x) \in Nat
  BY FS_Subset, FS_CardinalityType
<1>2. Bad = {}
  <2>1. SUFFICES ASSUME Bad # {} PROVE FALSE
    OBVIOUS
  <2>2. PICK n \in Bad : \A k \in Bad : n <= k
    BY <2>1, LeastNat
  <2>3. PICK x \in SUBSET S : Cardinality(x) = n /\ x \notin P
    OBVIOUS
  <2> DEFINE y == x \ {One(x)}
  <2>4. x # {} /\ One(x) \in x
    BY <2>3 DEF One
  <2>5. y \in SUBSET S /\ Cardinality(y) = n - 1 /\ Cardinality(y) \in Nat
    BY <1>1, <2>3, <2>4, FS_RemoveElement
  <2>6. y \in P
    <3>1. n \in Nat
      OBVIOUS
    <3>2. n - 1 \notin Bad
      BY <2>2, <3>1
    <3> HIDE DEF y
    <3> QED BY <2>5, <3>2
  <2> QED BY <2>3, <2>4, <2>6
<1> QED BY <1>1, <1>2

Each(kind, r, h, c) ==
    IF kind = "read" THEN SendReadRequest(c, h)
    ELSE IF kind = "answer" THEN ApplyDialog(c, h, r.entries[h])
    ELSE DialogEntryApplied(c, h)

Folded(S, f, b, kind, r) ==
    f = [x \in SUBSET S |-> IF x = {} THEN b ELSE Each(kind, r, One(x), f[x \ {One(x)}])]

LEMMA FoldedExists ==
    ASSUME NEW S, IsFiniteSet(S), NEW b, NEW kind, NEW r
    PROVE  \E f : Folded(S, f, b, kind, r)
<1> DEFINE Small(n) == {x \in SUBSET S : Cardinality(x) <= n}
           Step(x, f) == IF x = {} THEN b ELSE Each(kind, r, One(x), f[x \ {One(x)}])
           G(n, f) == [x \in Small(n) |-> Step(x, f)]
           None == {n \in Nat : ~ \E f : f = G(n, f)}
<1>1. ASSUME NEW x \in SUBSET S PROVE IsFiniteSet(x) /\ Cardinality(x) \in Nat
  BY FS_Subset, FS_CardinalityType
<1>2. ASSUME NEW x \in SUBSET S, x # {}
      PROVE  /\ One(x) \in x /\ x \ {One(x)} \in SUBSET S
             /\ Cardinality(x \ {One(x)}) = Cardinality(x) - 1
  <2>1. One(x) \in x
    BY <1>2 DEF One
  <2> QED BY <1>1, <2>1, FS_RemoveElement
<1>3. 0 \notin None
  <2> DEFINE f == [x \in Small(0) |-> b]
  <2>1. ASSUME NEW x \in Small(0) PROVE x = {}
    BY <1>1, <1>2, FS_EmptySet
  <2>2. ASSUME NEW x \in Small(0) PROVE f[x] = Step(x, f)
    BY <2>1
  <2>3. f = G(0, f)
    <3> HIDE DEF Step, Small
    <3> QED BY <2>2
  <2> QED BY <2>3
<1>4. ASSUME NEW n \in Nat, n \notin None PROVE n + 1 \notin None
  <2>1. PICK f : f = G(n, f)
    BY <1>4
  <2> DEFINE g == [x \in Small(n + 1) |-> Step(x, f)]
  <2>2. ASSUME NEW x \in Small(n + 1), x # {} PROVE x \ {One(x)} \in Small(n)
    <3>1. x \in SUBSET S /\ Cardinality(x) <= n + 1
      OBVIOUS
    <3>2. x \ {One(x)} \in SUBSET S /\ Cardinality(x \ {One(x)}) = Cardinality(x) - 1
      BY <1>2, <2>2, <3>1
    <3> QED BY <1>1, <3>1, <3>2
  <2>3. ASSUME NEW y \in Small(n) PROVE f[y] = Step(y, f) /\ y \in Small(n + 1)
    <3>1. y \in Small(n + 1)
      BY <1>1
    <3> HIDE DEF Step, Small
    <3> QED BY <2>1, <3>1
  <2>4. ASSUME NEW y \in Small(n) PROVE g[y] = f[y]
    <3> HIDE DEF Step, Small
    <3> QED BY <2>3
  <2>5. ASSUME NEW x \in Small(n + 1) PROVE Step(x, f) = Step(x, g)
    <3>1. CASE x = {}
      BY <3>1
    <3>2. CASE x # {}
      <4>1. f[x \ {One(x)}] = g[x \ {One(x)}]
        BY <2>2, <2>4, <3>2
      <4> HIDE DEF g
      <4> QED BY <4>1
    <3> QED BY <3>1, <3>2
  <2>6. g = G(n + 1, g)
    <3> HIDE DEF Step, Small
    <3> QED BY <2>5
  <2> QED BY <2>6
<1>5. None = {}
  <2>1. SUFFICES ASSUME None # {} PROVE FALSE
    OBVIOUS
  <2>2. None \subseteq Nat
    OBVIOUS
  <2> HIDE DEF None
  <2>3. PICK l \in None : \A k \in None : l <= k
    BY <2>1, <2>2, LeastNat
  <2>4. l \in Nat /\ l # 0
    BY <1>3, <2>2, <2>3
  <2>5. l - 1 \in Nat /\ l - 1 \notin None /\ (l - 1) + 1 = l
    BY <2>3, <2>4
  <2> QED BY <1>4, <2>3, <2>5
<1>6. PICK f : f = G(Cardinality(S), f)
  <2>1. Cardinality(S) \in Nat
    BY FS_CardinalityType
  <2> QED BY <1>5, <2>1
<1>7. Small(Cardinality(S)) = SUBSET S
  BY FS_Subset
<1>8. Folded(S, f, b, kind, r)
  <2> HIDE DEF Small
  <2> QED BY <1>6, <1>7 DEF Folded
<1> QED BY <1>8

Fold(S, b, kind, r) == CHOOSE f : Folded(S, f, b, kind, r)

LEMMA FoldIs ==
    ASSUME NEW S, IsFiniteSet(S), NEW b, NEW kind, NEW r
    PROVE  /\ Fold(S, b, kind, r)[{}] = b
           /\ \A x \in SUBSET S : x # {} =>
                /\ One(x) \in x
                /\ Fold(S, b, kind, r)[x] =
                     Each(kind, r, One(x), Fold(S, b, kind, r)[x \ {One(x)}])
<1> DEFINE f == Fold(S, b, kind, r)
<1>1. Folded(S, f, b, kind, r)
  BY FoldedExists DEF Fold
<1> HIDE DEF f
<1>2. f[{}] = b /\ \A x \in SUBSET S : x # {} => f[x] = Each(kind, r, One(x), f[x \ {One(x)}])
  BY <1>1 DEF Folded
<1>3. \A x : x # {} => One(x) \in x
  BY DEF One
<1> QED BY <1>2, <1>3 DEF f

-----------------------------------------------------------------------------
(* sendReadRequests().                                                       *)

\* The callbacks stay where they are, and nobody stops to wait.
Keeps(c, d) ==
    /\ d.called = c.called /\ d.calls = c.calls
    /\ \A h \in Chat : /\ Held(d, h) = Held(c, h) /\ (Waits(c, h) => Waits(d, h))
                       /\ StateOf(c, h).entry => StateOf(d, h).entry

LEMMA AtKeepsEntries ==
    ASSUME NEW c, NEW d, NEW h \in Chat, At(c, d, h), Calm(c, d),
           StateOf(c, h).entry => StateOf(d, h).entry
    PROVE  Keeps(c, d)
  BY DEF At, Untouched, Calm, Keeps

LEMMA SendReadRequestOK ==
    ASSUME NEW c, Shape(c), NEW h \in Chat, NEW N, NEW W, ChatOK(c, h, N, W),
           \A r \in N : r.type # "History", StateOf(c, h).will # 0,
           NEW d, d = SendReadRequest(c, h)
    PROVE  /\ Shape(d) /\ At(c, d, h) /\ Calm(c, d) /\ ChatOK(d, h, N, W)
           /\ StateOf(d, h).will = 0
           /\ StateOf(c, h).entry => StateOf(d, h).entry
<1> DEFINE s == StateOf(c, h)
           till == s.will
           no == FALSE
           t == [s EXCEPT !.sentTill = till, !.will = 0, !.when = "none", !.done = no]
           b == SetState(c, h, t)
<1>0. Fields \subseteq DOMAIN c /\ s \in StateType /\ till \in Nat
  BY DEF Shape, StateType
<1>1. HasState(c, h) /\ s = c.states[h]
  BY DEF StateOf, NewState
<1>2. /\ t \in StateType /\ t.postponed = s.postponed /\ t.sent = s.sent /\ t.will = 0
      /\ t.sentTill = till /\ t.when = "none" /\ t.entry = s.entry
  BY <1>0 DEF StateType
<1>3. d = SendRequest(b, h, "ReadInbox", till)
  BY <1>1 DEF SendReadRequest
<1> HIDE DEF t
<1>4. OnlyState(c, b, h) /\ HasState(b, h) /\ StateOf(b, h) = t
  BY <1>0, SetStateIs
<1> HIDE DEF b
<1>5. Shape(b) /\ At(c, b, h) /\ Calm(c, b) /\ Of(b, h) = Of(c, h)
  BY <1>2, <1>4, OnlyStateAt
<1>6. ReadsOK(b, h)
  <2>1. ReadsOK(c, h) /\ \A r \in Of(c, h) : r.type = "ReadInbox" => r.till \in Nat
    BY DEF ChatOK, ChatBase, Of, Shape, NetOK
  <2> QED BY <1>0, <1>2, <1>4, <1>5, <2>1 DEF ReadsOK
<1>7. Tweaked(c, b, h)
  BY <1>2, <1>4, <1>6, OnlyStateTweaks
<1>8. ChatOK(b, h, N, W)
  BY <1>7, TweakedKeeps
<1>9. "ReadInbox" \in RowTypes
  BY DEF RowTypes
<1>10. StateOf(b, h).sentTill = till /\ till # 0 /\ StateOf(b, h).will = 0
  BY <1>2, <1>4
<1>11. StateOf(b, h).entry = s.entry
  BY <1>2, <1>4
<1> HIDE DEF s, till
<1>12. /\ Shape(d) /\ At(b, d, h) /\ Calm(b, d) /\ ChatOK(d, h, N, W)
       /\ StateOf(d, h).will = StateOf(b, h).will
       /\ StateOf(b, h).entry => StateOf(d, h).entry
  BY <1>0, <1>3, <1>5, <1>8, <1>9, <1>10, SendRequestOK
<1>13. At(c, d, h) /\ Calm(c, d)
  BY <1>5, <1>12, AtTwice DEF Calm
<1> QED BY <1>10, <1>11, <1>12, <1>13 DEF s

\* d comes from c when the reads of the chats x are sent.
Reading(c, d, x, N, W) ==
    /\ ClientOK(d, N, W) /\ Keeps(c, d) /\ d.timer = (WillRead(c) # DueReads(c))
    /\ \A h \in Chat : StateOf(d, h).will = IF h \in x THEN 0 ELSE StateOf(c, h).will

LEMMA WillReadIs ==
    ASSUME NEW c, Shape(c)
    PROVE  WillRead(c) = {h \in Chat : StateOf(c, h).will # 0}
  BY DEF WillRead, Shape, StateOf, HasState, NewState

\* What is neither a chat's nor a request's may change.
SameChats(c, d) ==
    /\ DOMAIN d = DOMAIN c /\ d.states = c.states /\ d.byRequest = c.byRequest
    /\ d.next = c.next /\ d.dialog = c.dialog /\ d.pending = c.pending
    /\ d.queued = c.queued /\ d.chat = c.chat /\ d.net = c.net /\ d.dropped = c.dropped

LEMMA SameChatsOK ==
    ASSUME NEW c, NEW d, SameChats(c, d), NEW N, NEW W, ClientOK(c, N, W)
    PROVE  /\ ClientOK(d, N, W) /\ WillRead(d) = WillRead(c)
           /\ \A h : /\ StateOf(d, h) = StateOf(c, h) /\ (HasState(d, h) <=> HasState(c, h))
                     /\ Held(d, h) = Held(c, h) /\ (Waits(d, h) <=> Waits(c, h))
<1> USE DEF SameChats
<1>1. \A h : /\ StateOf(d, h) = StateOf(c, h) /\ (HasState(d, h) <=> HasState(c, h))
             /\ Of(d, h) = Of(c, h) /\ ByRequest(d, h) = ByRequest(c, h)
             /\ Asked(d, h) <=> Asked(c, h)
  BY DEF StateOf, HasState, Of, ByRequest, Asked, Entries
<1>2. Shape(c)
  BY DEF ClientOK
<1>3. Shape(d)
  BY <1>1, <1>2 DEF Shape
<1>4. c.next \in Nat /\ \A h \in Chat : c.chat[h].before \in Nat
  BY <1>2 DEF Shape, ChatType
<1>5. Further(c, d) /\ \A h \in Chat : Untouched(c, d, h)
  BY <1>1, <1>4 DEF Further, Untouched
<1>6. ClientOK(d, N, W)
  BY <1>2, <1>3, <1>5, UntouchedKeeps DEF ClientOK
<1>7. WillRead(d) = WillRead(c) /\ \A h : Held(d, h) = Held(c, h) /\ (Waits(d, h) <=> Waits(c, h))
  BY DEF WillRead, Held, Waits
<1> QED BY <1>1, <1>6, <1>7

LEMMA SendReadRequestsOK ==
    ASSUME IsFiniteSet(Chat), NEW c, NEW N, NEW W, ClientOK(c, N, W),
           \A r \in N : r.type # "History", NEW d, d = SendReadRequests(c)
    PROVE  ClientOK(d, N, W) /\ Keeps(c, d) /\ TimerRuns(d)
<1>1. CASE c.states = <<>>
  <2>1. d = c /\ WillRead(c) = {}
    BY <1>1 DEF SendReadRequests, WillRead
  <2> QED BY <2>1 DEF Keeps, TimerRuns
<1>2. CASE c.states # <<>>
  <2> DEFINE S == DueReads(c)
             on == WillRead(c) # DueReads(c)
             b == [c EXCEPT !.timer = on]
             f == Fold(S, b, "read", 0)
             P == {x \in SUBSET S : Reading(c, f[x], x, N, W)}
  <2>0. Shape(c) /\ Fields \subseteq DOMAIN c
    BY DEF ClientOK, Shape
  <2>1. S \subseteq Chat /\ IsFiniteSet(S) /\ \A h \in S : StateOf(c, h).will # 0
    <3>1. S \subseteq WillRead(c)
      BY DEF DueReads
    <3> QED BY <2>0, <3>1, WillReadIs, FS_Subset
  <2>2. d = f[S]
    BY <1>2 DEF SendReadRequests, FoldSet, MapThenFoldSet, Fold, Folded, Each, One
  <2>3. /\ f[{}] = b
        /\ \A x \in SUBSET S : x # {} =>
             One(x) \in x /\ f[x] = SendReadRequest(f[x \ {One(x)}], One(x))
    <3> HIDE DEF S, b
    <3> QED BY <2>1, FoldIs DEF Each
  <2> HIDE DEF f
  <2>4. Reading(c, b, {}, N, W)
    <3> HIDE DEF on
    <3>1. SameChats(c, b) /\ b.timer = on /\ b.calls = c.calls /\ b.called = c.called
      BY <2>0 DEF Fields, SameChats
    <3> HIDE DEF b
    <3>2. /\ ClientOK(b, N, W)
          /\ \A h : /\ StateOf(b, h) = StateOf(c, h) /\ Held(b, h) = Held(c, h)
                    /\ Waits(b, h) <=> Waits(c, h)
      BY <3>1, SameChatsOK
    <3>3. Keeps(c, b)
      BY <3>1, <3>2 DEF Keeps
    <3> QED BY <3>1, <3>2, <3>3 DEF Reading, on
  <2> HIDE DEF b
  <2>5. ASSUME NEW x \in SUBSET S, x # {}, x \ {One(x)} \in P PROVE x \in P
    <3> DEFINE h == One(x)
               e == f[x \ {h}]
    <3>1. h \in x /\ h \in Chat /\ f[x] = SendReadRequest(e, h) /\ StateOf(c, h).will # 0
      BY <2>1, <2>3, <2>5
    <3>2. Reading(c, e, x \ {h}, N, W)
      BY <2>5
    <3> HIDE DEF h, e, S
    <3>3. ClientOK(e, N, W) /\ Shape(e) /\ ChatOK(e, h, About(N, h), W)
      BY <3>1, <3>2 DEF Reading, ClientOK
    <3>4. StateOf(e, h).will # 0
      BY <3>1, <3>2 DEF Reading
    <3>5. \A r \in About(N, h) : r.type # "History"
      BY DEF About
    <3>6. /\ Shape(f[x]) /\ At(e, f[x], h) /\ Calm(e, f[x]) /\ ChatOK(f[x], h, About(N, h), W)
          /\ StateOf(f[x], h).will = 0
          /\ StateOf(e, h).entry => StateOf(f[x], h).entry
      BY <3>1, <3>3, <3>4, <3>5, SendReadRequestOK
    <3>7. ClientOK(f[x], N, W)
      BY <3>1, <3>3, <3>6, AtKeeps DEF ClientOK
    <3>8. Keeps(c, f[x])
      <4>1. Keeps(e, f[x])
        BY <3>1, <3>6, AtKeepsEntries
      <4> QED BY <3>2, <4>1 DEF Reading, Keeps
    <3>9. \A g \in Chat : StateOf(f[x], g).will = IF g \in x THEN 0 ELSE StateOf(c, g).will
      BY <3>1, <3>2, <3>6 DEF Reading, At, Untouched
    <3>10. f[x].timer = (WillRead(c) # DueReads(c))
      BY <3>2, <3>6 DEF Reading, Calm
    <3>11. Reading(c, f[x], x, N, W)
      BY <3>7, <3>8, <3>9, <3>10 DEF Reading
    <3> QED BY <3>11
  <2>6. {} \in P
    BY <2>3, <2>4
  <2> HIDE DEF P
  <2>7. S \in P
    BY <2>1, <2>5, <2>6, BySize
  <2>8. Reading(c, d, S, N, W)
    BY <2>2, <2>7 DEF P
  <2>9. TimerRuns(d)
    <3>1. WillRead(d) = {h \in Chat : StateOf(d, h).will # 0}
      BY <2>8, WillReadIs DEF Reading, ClientOK
    <3>2. WillRead(c) = {h \in Chat : StateOf(c, h).will # 0}
      BY <2>0, WillReadIs
    <3>3. WillRead(d) # {} => WillRead(c) # S
      BY <2>8, <3>1, <3>2 DEF Reading
    <3> QED BY <2>8, <3>3 DEF TimerRuns, Reading
  <2> QED BY <2>8, <2>9 DEF Reading
<1> QED BY <1>1, <1>2

-----------------------------------------------------------------------------
(* What is read, and what that does to the count.                            *)

LEMMA MaxTwo ==
    ASSUME NEW a \in Int, NEW b \in Int
    PROVE  Max({a, b}) = IF a >= b THEN a ELSE b
<1>1. \E x \in {a, b} : \A y \in {a, b} : x >= y
  OBVIOUS
<1>2. /\ Max({a, b}) \in {a, b} /\ \A y \in {a, b} : Max({a, b}) >= y
  BY <1>1 DEF Max
<1> QED BY <1>2

\* The read mark of a chat never goes back.
Raised(t, u) == u \in ChatType /\ u.before >= t.before

LEMMA RaisedTwice ==
    ASSUME NEW t \in ChatType, NEW u, NEW v, Raised(t, u), Raised(u, v)
    PROVE  Raised(t, v)
  BY DEF Raised, ChatType

LEMMA ReadTillRaises ==
    ASSUME NEW t \in ChatType, NEW upTo \in Int
    PROVE  /\ Raised(t, SetInboxReadTill(t, upTo))
           /\ SetInboxReadTill(t, upTo).before > upTo
<1> DEFINE m == Max({t.before, upTo + 1})
           u == [t EXCEPT !.before = m]
<1>1. t.before \in Nat
  BY DEF ChatType
<1>2. m = IF t.before >= upTo + 1 THEN t.before ELSE upTo + 1
  BY <1>1, MaxTwo
<1>3. m \in Nat /\ m >= t.before /\ m > upTo
  BY <1>1, <1>2
<1>4. SetInboxReadTill(t, upTo) = u
  BY <1>1 DEF SetInboxReadTill, ChatType
<1> HIDE DEF m
<1>5. u \in ChatType /\ u.before = m
  BY <1>3 DEF ChatType
<1> QED BY <1>3, <1>4, <1>5 DEF Raised

LEMMA UnreadRaises ==
    ASSUME NEW t \in ChatType, NEW count \in Int
    PROVE  Raised(t, SetUnreadCount(t, count))
<1> DEFINE u == [t EXCEPT !.unread = count]
           till == IF count = 0 THEN t.last ELSE t.last - 1
<1>1. u \in ChatType /\ u.before = t.before /\ t.before \in Nat /\ till \in Int
  BY DEF ChatType
<1>2. SetUnreadCount(t, count) \in {u, SetInboxReadTill(u, till)}
  BY DEF SetUnreadCount
<1> HIDE DEF u, till
<1>3. Raised(u, SetInboxReadTill(u, till))
  BY <1>1, ReadTillRaises
<1>4. Raised(t, u)
  BY <1>1 DEF Raised
<1>5. Raised(t, SetInboxReadTill(u, till))
  BY <1>3, <1>4, RaisedTwice
<1> QED BY <1>2, <1>4, <1>5

LEMMA CountIsNat ==
    ASSUME NEW a \in Int, NEW b \in Int
    PROVE  Cardinality(Incoming(a, b)) \in Nat
<1>1. IsFiniteSet(a..b)
  BY FS_Interval
<1>2. IsFiniteSet(Incoming(a, b))
  BY <1>1, FS_Subset DEF Incoming
<1> QED BY <1>2, FS_CardinalityType

LEMMA StillIsInt ==
    ASSUME NEW t \in ChatType, NEW till \in Int
    PROVE  CountStillUnread(t, till) \in Int
<1> DEFINE n == Cardinality(Incoming(ReadBefore(t), till))
<1>1. t.before \in Nat /\ t.unread \in Int
  BY DEF ChatType
<1>2. ReadBefore(t) \in Int
  BY <1>1, MaxTwo DEF ReadBefore
<1>3. n \in Nat
  BY <1>2, CountIsNat
<1>4. CountStillUnread(t, till) \in {Max({t.unread - n, 0}), Unknown}
  BY DEF CountStillUnread
<1> HIDE DEF n
<1>5. Max({t.unread - n, 0}) \in Int
  BY <1>1, <1>3, MaxTwo
<1> QED BY <1>4, <1>5 DEF Unknown

\* d comes from c by something that reads, which keeps the chats in order.
ReadsOn(c, d, N, W) == ClientOK(d, N, W) /\ Keeps(c, d) /\ TimerRuns(d)

LEMMA ReadsOnTwice ==
    ASSUME NEW c, NEW d, NEW e, NEW N, NEW W, Keeps(c, d), ReadsOn(d, e, N, W)
    PROVE  ReadsOn(c, e, N, W)
  BY DEF ReadsOn, Keeps

\* Something is written to a chat, whose read mark does not go back.
LEMMA ChatRaisedOK ==
    ASSUME NEW c, NEW N, NEW W, ClientOK(c, N, W), NEW h \in Chat,
           NEW x, Raised(c.chat[h], x), NEW d, d = [c EXCEPT !.chat[h] = x]
    PROVE  /\ ClientOK(d, N, W) /\ Keeps(c, d) /\ (TimerRuns(c) => TimerRuns(d))
           /\ d.chat[h] = x /\ d.states = c.states /\ d.net = c.net
           /\ d.dialog = c.dialog /\ d.pending = c.pending /\ d.called = c.called
           /\ d.calls = c.calls
           /\ \A g : StateOf(d, g) = StateOf(c, g) /\ (HasState(d, g) <=> HasState(c, g))
<1> DEFINE f == [c.chat EXCEPT ![h] = x]
<1>0. Shape(c) /\ Fields \subseteq DOMAIN c
  BY DEF ClientOK, Shape
<1>1. d = [c EXCEPT !.chat = f]
  BY <1>0 DEF Fields
<1>2. f \in [Chat -> ChatType] /\ f[h] = x /\ \A g \in Chat : f[g].before >= c.chat[g].before
  BY <1>0 DEF Shape, Raised, ChatType
<1> HIDE DEF f
<1>3. /\ DOMAIN d = DOMAIN c /\ d.states = c.states /\ d.byRequest = c.byRequest
      /\ d.next = c.next /\ d.timer = c.timer /\ d.dialog = c.dialog /\ d.pending = c.pending
      /\ d.queued = c.queued /\ d.chat = f /\ d.net = c.net
      /\ d.calls = c.calls /\ d.called = c.called /\ d.dropped = c.dropped
  BY <1>0, <1>1 DEF Fields
<1>4. \A g : /\ StateOf(d, g) = StateOf(c, g) /\ (HasState(d, g) <=> HasState(c, g))
             /\ Of(d, g) = Of(c, g) /\ ByRequest(d, g) = ByRequest(c, g)
             /\ Asked(d, g) <=> Asked(c, g)
             /\ Held(d, g) = Held(c, g) /\ (Waits(d, g) <=> Waits(c, g))
  BY <1>3 DEF StateOf, HasState, Of, ByRequest, Asked, Entries, Held, Waits
<1>5. Shape(d)
  BY <1>0, <1>2, <1>3, <1>4 DEF Shape
<1>6. c.next \in Nat
  BY <1>0 DEF Shape
<1>7. Further(c, d) /\ \A g \in Chat : Untouched(c, d, g)
  BY <1>2, <1>3, <1>4, <1>6 DEF Further, Untouched
<1>8. ClientOK(d, N, W)
  BY <1>0, <1>5, <1>7, UntouchedKeeps DEF ClientOK
<1>9. Keeps(c, d)
  BY <1>3, <1>4 DEF Keeps
<1>10. TimerRuns(c) => TimerRuns(d)
  BY <1>3 DEF TimerRuns, WillRead
<1> QED BY <1>2, <1>3, <1>4, <1>8, <1>9, <1>10

LEMMA SyncGuardOK ==
    ASSUME NEW c, NEW N, NEW W, ClientOK(c, N, W), TimerRuns(c), NEW h \in Chat, NEW till,
           NEW d, d = SyncGuard(c, h, till)
    PROVE  ReadsOn(c, d, N, W)
<1>0. Shape(c) /\ c.chat[h] \in ChatType
  BY DEF ClientOK, Shape
<1> DEFINE x == SetUnreadCount(c.chat[h], 0)
<1>1. CASE c.chat[h].unread > 0 /\ c.chat[h].last = till /\ till # 0
  <2>1. d = [c EXCEPT !.chat[h] = x]
    BY <1>1 DEF SyncGuard
  <2>2. Raised(c.chat[h], x)
    BY <1>0, UnreadRaises
  <2> HIDE DEF x
  <2> QED BY <2>1, <2>2, ChatRaisedOK DEF ReadsOn
<1>2. CASE ~(c.chat[h].unread > 0 /\ c.chat[h].last = till /\ till # 0)
  BY <1>2 DEF SyncGuard, ReadsOn, Keeps
<1> QED BY <1>1, <1>2

\* What is to be read is written to the state of a chat.
LEMMA RewrittenOK ==
    ASSUME NEW c, NEW d, NEW N, NEW W, ClientOK(c, N, W), NEW h \in Chat,
           OnlyState(c, d, h), HasState(d, h), NEW t \in StateType, StateOf(d, h) = t,
           t.sent = StateOf(c, h).sent, t.postponed = StateOf(c, h).postponed,
           t.entry = StateOf(c, h).entry,
           t.when # "none" => t.will # 0, t.will # 0 => t.will > t.sentTill,
           ReadsOK(c, h) => ReadsOK(d, h)
    PROVE  ClientOK(d, N, W) /\ Keeps(c, d) /\ d.timer = c.timer
<1>1. Shape(c) /\ ChatOK(c, h, About(N, h), W)
  BY DEF ClientOK
<1>2. Shape(d) /\ At(c, d, h) /\ Calm(c, d)
  BY <1>1, OnlyStateAt
<1>3. Tweaked(c, d, h)
  BY <1>1, OnlyStateTweaks
<1>4. ChatOK(d, h, About(N, h), W)
  BY <1>1, <1>3, TweakedKeeps
<1>5. ClientOK(d, N, W)
  BY <1>1, <1>2, <1>4, AtKeeps DEF ClientOK
<1>6. Keeps(c, d)
  BY <1>2, AtKeepsEntries
<1> QED BY <1>2, <1>5, <1>6 DEF Calm

LEMMA WrittenOK ==
    ASSUME NEW c, NEW d, NEW N, NEW W, ClientOK(c, N, W), NEW h \in Chat,
           OnlyState(c, d, h), HasState(d, h), NEW t \in StateType, StateOf(d, h) = t,
           t.sent = StateOf(c, h).sent, t.postponed = StateOf(c, h).postponed,
           t.entry = StateOf(c, h).entry, t.sentTill = StateOf(c, h).sentTill,
           t.when # "none" => t.will # 0, t.will # 0 => t.will > t.sentTill,
           \A r \in Of(c, h) : r.type = "ReadInbox" /\ t.will # 0 => t.will > r.till
    PROVE  ClientOK(d, N, W) /\ Keeps(c, d) /\ d.timer = c.timer
<1>1. Shape(c)
  BY DEF ClientOK
<1>2. Of(d, h) = Of(c, h)
  BY <1>1, OnlyStateAt
<1>3. ReadsOK(c, h) => ReadsOK(d, h)
  BY <1>2 DEF ReadsOK, OnlyState
<1> QED BY <1>3, RewrittenOK

LEMMA WhenOK ==
    ASSUME NEW c, NEW N, NEW W, ClientOK(c, N, W), NEW h \in Chat, HasState(c, h),
           NEW w \in {"none", "later", "passed"}, w # "none" => StateOf(c, h).will # 0,
           NEW d, d = [c EXCEPT !.states[h].when = w]
    PROVE  /\ ClientOK(d, N, W) /\ Keeps(c, d) /\ d.timer = c.timer
           /\ WillRead(d) = WillRead(c) /\ Fields \subseteq DOMAIN d
<1> DEFINE s == StateOf(c, h)
           t == [s EXCEPT !.when = w]
<1>0. Shape(c) /\ Fields \subseteq DOMAIN c /\ s \in StateType /\ s = c.states[h]
  BY DEF ClientOK, Shape, StateOf
<1>1. /\ t \in StateType /\ t.postponed = s.postponed /\ t.sent = s.sent /\ t.will = s.will
      /\ t.sentTill = s.sentTill /\ t.when = w /\ t.entry = s.entry
  BY <1>0 DEF StateType
<1> DEFINE e == [c EXCEPT !.states[h] = t]
<1>2. d = e
  BY <1>0
<1> HIDE DEF t
<1>3. OnlyState(c, d, h) /\ HasState(d, h) /\ StateOf(d, h) = t
  <2>1. OnlyState(c, e, h) /\ HasState(e, h) /\ StateOf(e, h) = t
    BY <1>0, ExceptStateIs
  <2> HIDE DEF e
  <2> QED BY <1>2, <2>1
<1>4. ReadsOK(c, h) /\ Sorted(s)
  BY DEF ClientOK, ChatOK, ChatBase
<1>5. t.will # 0 => t.will > t.sentTill
  BY <1>1, <1>4 DEF Sorted
<1>6. \A r \in Of(c, h) : r.type = "ReadInbox" /\ t.will # 0 => t.will > r.till
  BY <1>1, <1>4 DEF ReadsOK
<1>7. ClientOK(d, N, W) /\ Keeps(c, d) /\ d.timer = c.timer
  <2> HIDE DEF s
  <2> QED BY <1>1, <1>3, <1>5, <1>6, WrittenOK DEF s
<1>8. \A g \in Chat : StateOf(d, g).will = StateOf(c, g).will
  BY <1>1, <1>3 DEF OnlyState
<1>9. Shape(d) /\ Fields \subseteq DOMAIN d
  BY <1>7 DEF ClientOK, Shape
<1> QED BY ZenonT(40), <1>0, <1>7, <1>8, <1>9, WillReadIs

LEMMA SendPendingReadInboxOK ==
    ASSUME IsFiniteSet(Chat), NEW c, NEW N, NEW W, ClientOK(c, N, W), TimerRuns(c),
           \A r \in N : r.type # "History", NEW h \in Chat,
           NEW d, d = SendPendingReadInbox(c, h)
    PROVE  ReadsOn(c, d, N, W)
<1> DEFINE b == [c EXCEPT !.states[h].when = "none"]
<1>1. CASE HasState(c, h) /\ c.states[h].will # 0 /\ c.states[h].when # "none"
  <2>1. d = SendReadRequests(b)
    BY <1>1 DEF SendPendingReadInbox
  <2>2. ClientOK(b, N, W) /\ Keeps(c, b)
    BY <1>1, WhenOK
  <2> HIDE DEF b
  <2>3. ReadsOn(b, d, N, W)
    BY <2>1, <2>2, SendReadRequestsOK DEF ReadsOn
  <2> QED BY <2>2, <2>3, ReadsOnTwice
<1>2. CASE ~(HasState(c, h) /\ c.states[h].will # 0 /\ c.states[h].when # "none")
  BY <1>2 DEF SendPendingReadInbox, ReadsOn, Keeps
<1> QED BY <1>1, <1>2

\* A new mark to read to is further than what was noted, and than every read
\* that is on its way.
LEMMA WillOK ==
    ASSUME NEW c, NEW N, NEW W, ClientOK(c, N, W), NEW h \in Chat,
           NEW till \in Int, NEW force, ~ReadAlready(c, h, till, force),
           ~(StateOf(c, h).will >= till),
           NEW d, d = SetState(c, h, [StateOf(c, h) EXCEPT !.will = till])
    PROVE  /\ ClientOK(d, N, W) /\ Keeps(c, d) /\ d.timer = c.timer /\ HasState(d, h)
           /\ StateOf(d, h).will = till /\ till # 0
           /\ StateOf(d, h).when = StateOf(c, h).when
<1> DEFINE s == StateOf(c, h)
           t == [s EXCEPT !.will = till]
<1>0. /\ Shape(c) /\ Fields \subseteq DOMAIN c /\ s \in StateType
      /\ c.chat[h].before \in Nat
      /\ \A r \in Of(c, h) : r.type = "ReadInbox" => r.till \in Nat
  BY DEF ClientOK, Shape, ChatType, Of, NetOK
<1>1. s.will \in Nat /\ s.sentTill \in Nat /\ ~(s.sentTill >= till) /\ s.will < till
  BY <1>0 DEF StateType, ReadAlready
<1>2. till \in Nat /\ till # 0 /\ till > s.sentTill
  BY <1>1
<1>3. /\ t \in StateType /\ t.postponed = s.postponed /\ t.sent = s.sent /\ t.will = till
      /\ t.sentTill = s.sentTill /\ t.when = s.when /\ t.entry = s.entry
  BY <1>0, <1>2 DEF StateType
<1> HIDE DEF t
<1>4. OnlyState(c, d, h) /\ HasState(d, h) /\ StateOf(d, h) = t
  BY <1>0, SetStateIs DEF t
<1>5. ReadsOK(c, h)
  BY DEF ClientOK, ChatOK, ChatBase
<1>6. ASSUME NEW r \in Of(c, h), r.type = "ReadInbox" PROVE till > r.till
  <2>1. r.till \in Nat
    BY <1>0, <1>6
  <2>2. CASE s.sentTill # 0
    BY <1>1, <1>2, <1>5, <1>6, <2>1, <2>2 DEF ReadsOK
  <2>3. CASE s.will # 0
    BY <1>1, <1>2, <1>5, <1>6, <2>1, <2>3 DEF ReadsOK
  <2>4. CASE s.sentTill = 0 /\ s.will = 0
    <3>1. r.till < c.chat[h].before
      BY <1>5, <1>6, <2>4 DEF ReadsOK
    <3>2. NeedsRequest(c, h, till)
      BY <2>4 DEF ReadAlready
    <3>3. c.chat[h].before <= till
      <4>1. ReadBefore(c.chat[h]) = IF c.chat[h].before >= 1 THEN c.chat[h].before ELSE 1
        BY <1>0, MaxTwo DEF ReadBefore
      <4> QED BY <1>0, <3>2, <4>1 DEF NeedsRequest
    <3> QED BY <1>0, <2>1, <3>1, <3>3
  <2> QED BY <2>2, <2>3, <2>4
<1>7. ClientOK(d, N, W) /\ Keeps(c, d) /\ d.timer = c.timer
  <2> HIDE DEF s
  <2> QED BY <1>2, <1>3, <1>4, <1>6, WrittenOK DEF s
<1> QED BY <1>2, <1>3, <1>4, <1>7

LEMMA ReadLaterOK ==
    ASSUME NEW c, NEW N, NEW W, ClientOK(c, N, W), NEW h \in Chat, HasState(c, h),
           StateOf(c, h).will # 0, c.timer \/ StateOf(c, h).when = "none",
           NEW d, d = ReadLater(c, h)
    PROVE  ReadsOn(c, d, N, W)
<1> DEFINE s == StateOf(c, h)
           w == IF s.when = "none" THEN "later" ELSE s.when
           b == [c EXCEPT !.states[h].when = w]
           on == c.timer \/ s.when = "none"
<1>0. Shape(c) /\ Fields \subseteq DOMAIN c /\ s \in StateType /\ s = c.states[h]
  BY DEF ClientOK, Shape, StateOf
<1>1. w \in {"none", "later", "passed"}
  BY <1>0 DEF StateType
<1>2. d = [b EXCEPT !.timer = on]
  BY <1>0 DEF ReadLater, Fields, HasState
<1> HIDE DEF w
<1>3. /\ ClientOK(b, N, W) /\ Keeps(c, b) /\ b.timer = c.timer /\ Fields \subseteq DOMAIN b
  BY <1>1, WhenOK
<1> HIDE DEF b
<1>4. SameChats(b, d) /\ d.timer = on /\ d.calls = b.calls /\ d.called = b.called
  BY <1>2, <1>3 DEF SameChats, Fields
<1>5. /\ ClientOK(d, N, W)
      /\ \A g : /\ StateOf(d, g) = StateOf(b, g) /\ Held(d, g) = Held(b, g)
                /\ Waits(d, g) <=> Waits(b, g)
  BY <1>3, <1>4, SameChatsOK
<1>6. Keeps(c, d)
  BY <1>3, <1>4, <1>5 DEF Keeps
<1>7. TimerRuns(d)
  BY <1>4 DEF TimerRuns
<1> QED BY <1>5, <1>6, <1>7 DEF ReadsOn

LEMMA ReadTillNowOK ==
    ASSUME IsFiniteSet(Chat), NEW c, NEW N, NEW W, ClientOK(c, N, W), TimerRuns(c),
           \A r \in N : r.type # "History", NEW h \in Chat,
           NEW till \in Int, NEW force, ~ReadAlready(c, h, till, force),
           ~(StateOf(c, h).will >= till),
           NEW d, d = ReadTillNow(c, h, till, force)
    PROVE  ReadsOn(c, d, N, W)
<1> DEFINE t == c.chat[h]
           still == CountStillUnread(t, till)
           b == SetState(c, h, [StateOf(c, h) EXCEPT !.will = till])
           b1 == [b EXCEPT !.states[h].when = "none"]
           e == IF force \/ still \in {Unknown, 0} THEN SendReadRequests(b1)
                ELSE ReadLater(b, h)
           x == SetInboxReadTill(t, till)
           y == SetUnreadCount(SetInboxReadTill(e.chat[h], till), still)
           Same == ~force /\ still # Unknown /\ still = t.unread
<1>0. Shape(c) /\ t \in ChatType /\ still \in Int
  BY StillIsInt DEF ClientOK, Shape
<1>1. d = IF Same THEN [c EXCEPT !.chat[h] = x]
          ELSE IF still = Unknown THEN e ELSE [e EXCEPT !.chat[h] = y]
  BY Zenon DEF ReadTillNow
<1> HIDE DEF still
<1>2. CASE Same
  <2>1. Raised(t, x)
    BY <1>0, ReadTillRaises
  <2>2. d = [c EXCEPT !.chat[h] = x]
    BY <1>1, <1>2
  <2> HIDE DEF x
  <2> QED BY <2>1, <2>2, ChatRaisedOK DEF ReadsOn
<1>3. CASE ~Same
  <2>1. /\ ClientOK(b, N, W) /\ Keeps(c, b) /\ b.timer = c.timer /\ HasState(b, h)
        /\ StateOf(b, h).will = till /\ till # 0
        /\ StateOf(b, h).when = StateOf(c, h).when
    BY WillOK
  <2> HIDE DEF b
  <2>2. ReadsOn(c, e, N, W)
    <3>1. CASE force \/ still \in {Unknown, 0}
      <4>1. ClientOK(b1, N, W) /\ Keeps(b, b1)
        BY <2>1, WhenOK
      <4> HIDE DEF b1
      <4>2. ReadsOn(b1, e, N, W)
        BY <3>1, <4>1, SendReadRequestsOK DEF ReadsOn
      <4> HIDE DEF e
      <4> QED BY <2>1, <4>1, <4>2, ReadsOnTwice DEF Keeps
    <3>2. CASE ~(force \/ still \in {Unknown, 0})
      <4>1. c.timer \/ StateOf(c, h).when = "none"
        <5>1. ~c.timer => StateOf(c, h).will = 0
          BY <1>0, WillReadIs DEF TimerRuns
        <5> QED BY <5>1 DEF ClientOK, ChatOK, ChatBase, Sorted
      <4>2. ReadsOn(b, e, N, W)
        BY <2>1, <3>2, <4>1, ReadLaterOK
      <4> HIDE DEF e
      <4> QED BY <2>1, <4>2, ReadsOnTwice
    <3> QED BY <3>1, <3>2
  <2> HIDE DEF e
  <2>3. Raised(e.chat[h], y)
    <3>1. e.chat[h] \in ChatType
      BY <2>2 DEF ReadsOn, ClientOK, Shape
    <3> DEFINE u == SetInboxReadTill(e.chat[h], till)
    <3>2. Raised(e.chat[h], u)
      BY <3>1, ReadTillRaises
    <3>3. u \in ChatType
      BY <3>2 DEF Raised
    <3> HIDE DEF u
    <3>4. Raised(u, SetUnreadCount(u, still))
      BY <1>0, <3>3, UnreadRaises
    <3> QED BY <3>1, <3>2, <3>4, RaisedTwice DEF u
  <2> HIDE DEF y
  <2>4. CASE still = Unknown
    BY <1>1, <1>3, <2>2, <2>4
  <2>5. CASE still # Unknown
    <3>1. d = [e EXCEPT !.chat[h] = y]
      BY <1>1, <1>3, <2>5
    <3>2. ReadsOn(e, d, N, W)
      BY <2>2, <2>3, <3>1, ChatRaisedOK DEF ReadsOn
    <3> QED BY <2>2, <3>2, ReadsOnTwice DEF ReadsOn
  <2> QED BY <2>4, <2>5
<1> QED BY <1>2, <1>3

LEMMA ReadInboxTillOK ==
    ASSUME IsFiniteSet(Chat), NEW c, NEW N, NEW W, ClientOK(c, N, W), TimerRuns(c),
           \A r \in N : r.type # "History", NEW h \in Chat,
           NEW till \in Int, NEW force, NEW d, d = ReadInboxTill(c, h, till, force)
    PROVE  ReadsOn(c, d, N, W)
<1> DEFINE b == IF ReadAlready(c, h, till, force) THEN c
                ELSE IF StateOf(c, h).will >= till THEN SendPendingReadInbox(c, h)
                ELSE ReadTillNow(c, h, till, force)
<1>1. CASE c.ghost
  BY <1>1 DEF ReadInboxTill, ReadsOn, Keeps
<1>2. CASE ~c.ghost
  <2>1. d = SyncGuard(b, h, till)
    BY <1>2 DEF ReadInboxTill
  <2>2. ReadsOn(c, b, N, W)
    <3>1. CASE ReadAlready(c, h, till, force)
      BY <3>1 DEF ReadsOn, Keeps
    <3>2. CASE ~ReadAlready(c, h, till, force) /\ StateOf(c, h).will >= till
      BY <3>2, SendPendingReadInboxOK
    <3>3. CASE ~ReadAlready(c, h, till, force) /\ ~(StateOf(c, h).will >= till)
      BY <3>3, ReadTillNowOK
    <3> QED BY <3>1, <3>2, <3>3
  <2> HIDE DEF b
  <2>3. ReadsOn(b, d, N, W)
    BY <2>1, <2>2, SyncGuardOK DEF ReadsOn
  <2> QED BY <2>2, <2>3, ReadsOnTwice DEF ReadsOn
<1> QED BY <1>1, <1>2

-----------------------------------------------------------------------------
(* Dialog entries.                                                           *)

LEMMA RequestEntryOK ==
    ASSUME NEW c, NEW N, NEW W, ClientOK(c, N, W), NEW h \in Chat, NEW callbacks,
           NEW d, d = RequestDialogEntry(c, h, callbacks)
    PROVE  /\ ClientOK(d, N, W) /\ Requested(c, d, h, callbacks)
           /\ TimerRuns(c) => TimerRuns(d)
           /\ \A g \in Chat : Waits(c, g) => Waits(d, g)
           /\ callbacks = {} => Keeps(c, d)
<1>1. Shape(c) /\ ChatOK(c, h, About(N, h), W)
  BY DEF ClientOK
<1>2. Requested(c, d, h, callbacks)
  BY <1>1, RequestDialogEntryIs DEF ChatOK, ChatBase, WaitsOK
<1>3. /\ Shape(d) /\ At(c, d, h) /\ ChatOK(d, h, About(N, h), W)
      /\ \A g : StateOf(d, g) = StateOf(c, g) /\ (HasState(d, g) <=> HasState(c, g))
      /\ callbacks = {} => Calm(c, d)
  BY <1>1, <1>2, RequestedOK
<1>4. ClientOK(d, N, W)
  BY <1>1, <1>3, AtKeeps DEF ClientOK
<1>5. TimerRuns(c) => TimerRuns(d)
  BY <1>2 DEF TimerRuns, WillRead, Requested
<1>6. \A g : Waits(c, g) => Waits(d, g)
  BY <1>2 DEF Waits, Requested
<1>7. callbacks = {} => Keeps(c, d)
  BY <1>3, AtKeepsEntries
<1> QED BY <1>2, <1>4, <1>5, <1>6, <1>7

LEMMA InboxReadOK ==
    ASSUME NEW c, NEW N, NEW W, ClientOK(c, N, W), TimerRuns(c), NEW h \in Chat,
           NEW upTo \in Int, NEW still \in Int, NEW d, d = InboxRead(c, h, upTo, still)
    PROVE  ReadsOn(c, d, N, W)
<1> DEFINE t == c.chat[h]
           b == RequestDialogEntry(c, h, {})
           x == SetInboxReadTill(t, upTo)
           u == SetUnreadCount(t, still)
           y == SetInboxReadTill(u, upTo)
<1>0. Shape(c) /\ t \in ChatType
  BY DEF ClientOK, Shape
<1>1. CASE t.unread = Unknown
  <2>1. d = [b EXCEPT !.chat[h] = x]
    BY <1>1 DEF InboxRead
  <2>2. ClientOK(b, N, W) /\ Keeps(c, b) /\ TimerRuns(b) /\ Requested(c, b, h, {})
    BY RequestEntryOK
  <2> HIDE DEF b
  <2>3. Raised(b.chat[h], x)
    BY <1>0, <2>2, ReadTillRaises DEF Requested
  <2> HIDE DEF x
  <2>4. ReadsOn(b, d, N, W)
    BY <2>1, <2>2, <2>3, ChatRaisedOK DEF ReadsOn
  <2> QED BY <2>2, <2>4, ReadsOnTwice
<1>2. CASE t.unread # Unknown
  <2>1. d = [c EXCEPT !.chat[h] = y]
    BY <1>2 DEF InboxRead
  <2>2. Raised(t, u) /\ u \in ChatType
    BY <1>0, UnreadRaises DEF Raised
  <2> HIDE DEF u
  <2>3. Raised(t, y)
    BY <1>0, <2>2, ReadTillRaises, RaisedTwice
  <2> HIDE DEF y
  <2> QED BY <2>1, <2>3, ChatRaisedOK DEF ReadsOn
<1> QED BY <1>1, <1>2

\* The read mark that waited for the count moves.
LEMMA ReadCountedOK ==
    ASSUME NEW c, NEW N, NEW W, ClientOK(c, N, W), TimerRuns(c), NEW h \in Chat,
           NEW d, d = ReadCounted(c, h)
    PROVE  ReadsOn(c, d, N, W)
<1> DEFINE s == StateOf(c, h)
           t == [s EXCEPT !.sentTill = 0]
           x == SetInboxReadTill(c.chat[h], s.sentTill)
           Counted == HasState(c, h) /\ s.sentTill # 0 /\ s.done
<1>0. Shape(c) /\ Fields \subseteq DOMAIN c /\ s \in StateType /\ c.chat[h] \in ChatType
  BY DEF ClientOK, Shape
<1>1. CASE ~Counted
  BY <1>1 DEF ReadCounted, ReadsOn, Keeps, StateOf
<1>2. CASE Counted
  <2>a. PICK b : b = [c EXCEPT !.chat[h] = x]
    OBVIOUS
  <2>b. PICK e : e = [b EXCEPT !.states[h] = t]
    OBVIOUS
  <2>1. d = CheckEmptyState(e, h)
    <3>1. s = c.states[h] /\ HasState(c, h)
      BY <1>2 DEF StateOf
    <3>2. d = CheckEmptyState([c EXCEPT !.chat[h] = x, !.states[h].sentTill = 0], h)
      BY <1>2, <3>1 DEF ReadCounted
    <3> HIDE DEF x
    <3>3. [c EXCEPT !.chat[h] = x, !.states[h].sentTill = 0] = e
      BY <1>0, <2>a, <2>b, <3>1 DEF Fields, HasState
    <3> QED BY <3>2, <3>3
  <2>2. s.sentTill \in Nat /\ s.will \in Nat
    BY <1>0 DEF StateType
  <2>c. Raised(c.chat[h], x)
    BY <1>0, <2>2, ReadTillRaises
  <2>3. x.before > s.sentTill
    BY <1>0, <2>2, ReadTillRaises
  <2>4. /\ t \in StateType /\ t.postponed = s.postponed /\ t.sent = s.sent /\ t.will = s.will
        /\ t.sentTill = 0 /\ t.when = s.when /\ t.entry = s.entry
    BY <1>0 DEF StateType
  <2> HIDE DEF x, t
  <2>5. /\ ClientOK(b, N, W) /\ Keeps(c, b) /\ TimerRuns(b)
        /\ b.chat[h] = x /\ b.net = c.net
        /\ \A g : StateOf(b, g) = StateOf(c, g) /\ (HasState(b, g) <=> HasState(c, g))
    <3>1. ReadsOn(c, b, N, W)
      BY <2>c, <2>a, ChatRaisedOK DEF ReadsOn
    <3>2. b.chat[h] = x /\ b.states = c.states /\ b.net = c.net
      BY <1>0, <2>a DEF Fields, Shape
    <3> QED BY <3>1, <3>2 DEF StateOf, HasState, ReadsOn
  <2>6. Shape(b) /\ Fields \subseteq DOMAIN b /\ HasState(b, h) /\ StateOf(b, h) = s
    BY <1>2, <2>5 DEF ClientOK, Shape
  <2>7. OnlyState(b, e, h) /\ HasState(e, h) /\ StateOf(e, h) = t
    BY SMTT(20), <2>6, <2>b, ExceptStateIs
  <2>8. Of(e, h) = Of(b, h) /\ Shape(e)
    BY <2>4, <2>6, <2>7, OnlyStateAt
  <2>9. ReadsOK(b, h) => ReadsOK(e, h)
    <3>1. e.chat[h].before > s.sentTill /\ e.chat[h].before \in Nat
      BY <2>5, <2>c, <2>3, <2>7 DEF OnlyState, Raised, ChatType
    <3>2. \A r \in Of(b, h) : r.type = "ReadInbox" => r.till \in Nat
      BY <2>6 DEF Of, Shape, NetOK
    <3> HIDE DEF s
    <3> QED BY <1>2, <2>2, <2>4, <2>6, <2>7, <2>8, <3>1, <3>2 DEF ReadsOK
  <2>10. Sorted(s)
    BY <2>5, <2>6 DEF ClientOK, ChatOK, ChatBase
  <2>11. (t.when # "none" => t.will # 0) /\ (t.will # 0 => t.will > t.sentTill)
    BY <2>2, <2>4, <2>10 DEF Sorted
  <2> HIDE DEF s
  <2>12. ClientOK(e, N, W) /\ Keeps(b, e) /\ e.timer = b.timer
    BY <2>4, <2>5, <2>6, <2>7, <2>9, <2>11, RewrittenOK
  <2>13. /\ Shape(d) /\ At(e, d, h) /\ Calm(e, d) /\ ChatOK(d, h, About(N, h), W)
         /\ StateOf(d, h).entry = StateOf(e, h).entry
         /\ StateOf(d, h).will = StateOf(e, h).will
    BY <2>1, <2>12, CheckEmptyStateOK DEF ClientOK
  <2>14. ClientOK(d, N, W)
    BY <2>12, <2>13, AtKeeps DEF ClientOK
  <2>15. Keeps(e, d)
    BY <2>13, AtKeepsEntries
  <2>16. TimerRuns(d)
    <3>1. \A g \in Chat : StateOf(d, g).will = StateOf(b, g).will
      BY <2>4, <2>6, <2>7, <2>13 DEF At, Untouched, OnlyState, s
    <3>2. d.timer = b.timer
      BY <2>12, <2>13 DEF Calm
    <3>3. WillRead(d) = WillRead(b)
      BY <2>6, <2>13, <3>1, WillReadIs
    <3> QED BY <2>5, <3>2, <3>3 DEF TimerRuns
  <2> QED BY <2>5, <2>12, <2>14, <2>15, <2>16 DEF ReadsOn, Keeps
<1> QED BY <1>1, <1>2

\* The entry of a chat is taken: nothing waits for it any more, and what waited
\* is called.
Takes(c, d, N, V) ==
    /\ ClientOK(d, N, V) /\ TimerRuns(d) /\ d.calls = c.calls
    /\ CalledOnce(c, {}) => CalledOnce(d, {})
    /\ \A g \in Chat : StateOf(c, g).entry => StateOf(d, g).entry

LEMMA TakesTwice ==
    ASSUME NEW c, NEW d, NEW e, NEW N, NEW M, NEW V, NEW W, Takes(c, d, M, W), Takes(d, e, N, V)
    PROVE  Takes(c, e, N, V)
  BY DEF Takes

LEMMA ReadsOnTakes ==
    ASSUME NEW c, NEW d, NEW N, NEW W, ReadsOn(c, d, N, W)
    PROVE  Takes(c, d, N, W)
<1>1. CalledOnce(c, {}) => CalledOnce(d, {})
  BY DEF ReadsOn, Keeps, CalledOnce
<1> QED BY <1>1 DEF ReadsOn, Keeps, Takes

\* Nothing waits for the entry of h, and its last message may be known.
Unwaited(c, d, h) ==
    /\ DOMAIN d = DOMAIN c /\ d.states = c.states /\ d.byRequest = c.byRequest
    /\ d.next = c.next /\ d.timer = c.timer /\ d.queued = c.queued
    /\ d.ghost = c.ghost /\ d.net = c.net /\ d.calls = c.calls /\ d.called = c.called
    /\ d.dropped = c.dropped /\ d.dangling = c.dangling /\ d.alive = c.alive
    /\ DOMAIN d.dialog = DOMAIN c.dialog \ {h}
    /\ DOMAIN d.pending = DOMAIN c.pending \ {h}
    /\ \A g : g # h => Held(d, g) = Held(c, g)
    /\ Held(d, h) = {}
    /\ d.pending # <<>> => c.pending # <<>>
    /\ d.chat \in [Chat -> ChatType] /\ \A g \in Chat : d.chat[g].before = c.chat[g].before

LEMMA UnwaitedIs ==
    ASSUME NEW c, Shape(c), NEW h \in Chat,
           NEW d, d = [c EXCEPT !.pending = Remove(@, h), !.dialog = Remove(@, h),
                                !.chat[h].last = Max({@, 0})]
    PROVE  Unwaited(c, d, h)
<1> DEFINE p == Remove(c.pending, h)
           q == Remove(c.dialog, h)
           m == Max({c.chat[h].last, 0})
           x == [c.chat[h] EXCEPT !.last = m]
           f == [c.chat EXCEPT ![h] = x]
<1>0. Fields \subseteq DOMAIN c /\ c.chat \in [Chat -> ChatType] /\ c.chat[h] \in ChatType
  BY DEF Shape
<1>1. d = [c EXCEPT !.pending = p, !.dialog = q, !.chat = f]
  BY <1>0 DEF Fields
<1>2. m \in Int
  <2>1. c.chat[h].last \in Int
    BY <1>0 DEF ChatType
  <2>2. m = IF c.chat[h].last >= 0 THEN c.chat[h].last ELSE 0
    BY <2>1, MaxTwo
  <2> QED BY <2>1, <2>2
<1> HIDE DEF m
<1>3. x \in ChatType /\ x.before = c.chat[h].before
  BY <1>0, <1>2 DEF ChatType
<1> HIDE DEF x
<1>4. f \in [Chat -> ChatType] /\ \A g \in Chat : f[g].before = c.chat[g].before
  BY <1>0, <1>3
<1> HIDE DEF f
<1>5. /\ DOMAIN p = DOMAIN c.pending \ {h} /\ \A g \in DOMAIN p : p[g] = c.pending[g]
  BY DEF Remove, Restrict
<1>6. /\ DOMAIN q = DOMAIN c.dialog \ {h} /\ \A g \in DOMAIN q : q[g] = c.dialog[g]
  BY DEF Remove, Restrict
<1>7. p # <<>> => c.pending # <<>>
  <2>1. c.pending = <<>> => p = [g \in {} |-> {}]
    BY DEF Remove, Restrict
  <2>2. <<>> = [g \in {} |-> {}]
    OBVIOUS
  <2> QED BY <2>1, <2>2
<1> HIDE DEF p, q
<1>8. /\ DOMAIN d = DOMAIN c /\ d.states = c.states /\ d.byRequest = c.byRequest
      /\ d.next = c.next /\ d.timer = c.timer /\ d.queued = c.queued
      /\ d.ghost = c.ghost /\ d.net = c.net /\ d.calls = c.calls /\ d.called = c.called
      /\ d.dropped = c.dropped /\ d.dangling = c.dangling /\ d.alive = c.alive
      /\ d.pending = p /\ d.dialog = q /\ d.chat = f
  BY <1>0, <1>1 DEF Fields
<1>9. (\A g : g # h => Held(d, g) = Held(c, g)) /\ Held(d, h) = {}
  BY <1>5, <1>6, <1>8 DEF Held, CallbacksOf
<1> QED BY <1>4, <1>5, <1>6, <1>7, <1>8, <1>9 DEF Unwaited

LEMMA UnwaitedOK ==
    ASSUME NEW c, NEW d, NEW N, NEW V, NEW W, ClientOK(c, N, W), NEW h \in Chat,
           Unwaited(c, d, h), ~StateOf(c, h).entry, W \subseteq V \union {h}
    PROVE  ClientOK(d, N, V) /\ (TimerRuns(c) => TimerRuns(d))
<1> USE DEF Unwaited
<1>1. Shape(c) /\ c.next \in Nat
  BY DEF ClientOK, Shape
<1>2. \A g : /\ StateOf(d, g) = StateOf(c, g) /\ Of(d, g) = Of(c, g)
             /\ ByRequest(d, g) = ByRequest(c, g) /\ (Asked(d, g) <=> Asked(c, g))
  BY DEF StateOf, HasState, Of, ByRequest, Asked, Entries
<1>3. Shape(d)
  BY <1>1, <1>2 DEF Shape
<1>4. \A g \in Chat : c.chat[g].before \in Nat
  BY <1>1 DEF Shape, ChatType
<1>5. ASSUME NEW g \in Chat PROVE ChatOK(d, g, About(N, g), V)
  <2> DEFINE s == StateOf(c, g)
  <2>0. ChatOK(c, g, About(N, g), W) /\ StateOf(d, g) = s
    BY <1>2 DEF ClientOK
  <2>1. TableOK(d, g, About(N, g))
    BY <1>2, <2>0 DEF ChatOK, ChatBase, TableOK, Table, SlicesKept
  <2>2. ReadsOK(d, g)
    BY <1>2, <2>0 DEF ChatOK, ChatBase, ReadsOK
  <2>3. WaitsOK(d, g, V)
    BY <1>2, <2>0 DEF ChatOK, ChatBase, WaitsOK
  <2> QED BY <2>0, <2>1, <2>2, <2>3 DEF ChatOK, ChatBase
<1>6. TimerRuns(c) => TimerRuns(d)
  BY DEF TimerRuns, WillRead
<1> QED BY <1>3, <1>5, <1>6 DEF ClientOK

LEMMA DialogEntryTakenOK ==
    ASSUME IsFiniteSet(Chat), NEW c, NEW N, NEW V, NEW W, ClientOK(c, N, W), TimerRuns(c),
           \A r \in N : r.type # "History", NEW h \in Chat, ~StateOf(c, h).entry,
           W \subseteq V \union {h}, NEW d, d = DialogEntryTaken(c, h)
    PROVE  Takes(c, d, N, V)
<1> DEFINE b == [c EXCEPT !.pending = Remove(@, h), !.dialog = Remove(@, h),
                          !.chat[h].last = Max({@, 0})]
           cb == Held(c, h)
           e == RunCallbacks(b, h, cb)
<1>1. d = IF HasState(c, h) THEN ReadCounted(e, h) ELSE e
  BY DEF DialogEntryTaken, Held
<1>2. Unwaited(c, b, h)
  BY UnwaitedIs DEF ClientOK
<1> HIDE DEF b
<1>3. ClientOK(b, N, V) /\ TimerRuns(b)
  BY <1>2, UnwaitedOK
<1>4. Shape(b) /\ Fields \subseteq DOMAIN b /\ b.chat[h].last \in Int
  BY <1>3 DEF ClientOK, Shape, ChatType
<1> DEFINE x == b.called \union cb
           b1 == [b EXCEPT !.called = x]
<1>5. /\ SameChats(b, b1) /\ b1.timer = b.timer /\ b1.calls = b.calls /\ b1.called = x
      /\ b1.chat = b.chat
  <2> HIDE DEF x
  <2> QED BY <1>4 DEF SameChats, Fields
<1> HIDE DEF x, b1
<1>6. /\ ClientOK(b1, N, V) /\ TimerRuns(b1)
      /\ \A g : StateOf(b1, g) = StateOf(b, g) /\ Held(b1, g) = Held(b, g)
  BY <1>3, <1>5, SameChatsOK DEF TimerRuns
<1>7. Takes(c, b1, N, V)
  <2>1. CalledOnce(c, {}) => CalledOnce(b1, {})
    <3> SUFFICES ASSUME CalledOnce(c, {}) PROVE CalledOnce(b1, {})
      OBVIOUS
    <3>1. /\ \A g \in Chat \ {h} : Held(b1, g) = Held(c, g)
          /\ Held(b1, h) = {} /\ b1.called = c.called \union cb /\ b1.calls = c.calls
      BY <1>2, <1>5, <1>6 DEF Unwaited, x
    <3>2. b1.called \union UNION {Held(b1, g) : g \in Chat}
            = c.called \union UNION {Held(c, g) : g \in Chat}
      BY <3>1
    <3>3. b1.called \union {} \union UNION {Held(b1, g) : g \in Chat} = 1..b1.calls
      BY <3>1, <3>2 DEF CalledOnce
    <3>4. \A g \in Chat : Held(b1, g) \intersect b1.called = {}
      BY <3>1 DEF CalledOnce
    <3>5. \A f, g \in Chat : f # g => Held(b1, f) \intersect Held(b1, g) = {}
      BY <3>1 DEF CalledOnce
    <3> QED BY <3>3, <3>4, <3>5 DEF CalledOnce
  <2>2. \A g : StateOf(b1, g) = StateOf(c, g)
    BY <1>2, <1>6 DEF Unwaited, StateOf, HasState
  <2>3. b1.calls = c.calls
    BY <1>2, <1>5 DEF Unwaited
  <2> QED BY <1>6, <2>1, <2>2, <2>3 DEF Takes
<1>8. Takes(c, e, N, V)
  <2>1. CASE cb = {}
    <3>1. e = b /\ x = b.called
      BY <2>1 DEF RunCallbacks, x
    <3>2. Takes(b1, b, N, V)
      <4>1. CalledOnce(b1, {}) => CalledOnce(b, {})
        BY <1>5, <1>6, <3>1 DEF CalledOnce
      <4> QED BY <1>3, <1>5, <1>6, <4>1 DEF Takes
    <3> QED BY <1>7, <3>1, <3>2, TakesTwice
  <2>2. CASE cb # {}
    <3>1. e = ReadInboxTill(b1, h, b.chat[h].last, FALSE)
      BY <2>2 DEF RunCallbacks, b1, x
    <3> DEFINE no == FALSE
               till == b.chat[h].last
    <3>2. e = ReadInboxTill(b1, h, till, no) /\ till \in Int
      BY <1>4, <3>1
    <3> HIDE DEF no, till, e
    <3>3. ReadsOn(b1, e, N, V)
      BY <1>6, <3>2, ReadInboxTillOK
    <3> QED BY <1>7, <3>3, ReadsOnTakes, TakesTwice
  <2> QED BY <2>1, <2>2
<1> HIDE DEF e
<1>9. CASE HasState(c, h)
  <2>1. d = ReadCounted(e, h)
    BY <1>1, <1>9
  <2>2. ReadsOn(e, d, N, V)
    BY <1>8, <2>1, ReadCountedOK DEF Takes
  <2> QED BY <1>8, <2>2, ReadsOnTakes, TakesTwice
<1>10. CASE ~HasState(c, h)
  BY <1>1, <1>8, <1>10
<1> QED BY <1>9, <1>10

\* An entry that is postponed is on its way all the same.
LEMMA DialogEntryAppliedOK ==
    ASSUME IsFiniteSet(Chat), NEW c, NEW N, NEW V, NEW W, ClientOK(c, N, W), TimerRuns(c),
           \A r \in N : r.type # "History", NEW h \in Chat,
           W \subseteq V \union {h}, NEW d, d = DialogEntryApplied(c, h)
    PROVE  Takes(c, d, N, V)
<1>1. CASE StateOf(c, h).entry
  <2>1. d = c
    BY <1>1 DEF DialogEntryApplied
  <2>2. ASSUME NEW g \in Chat PROVE ChatOK(c, g, About(N, g), V)
    <3>1. ChatOK(c, g, About(N, g), W)
      BY DEF ClientOK
    <3>2. WaitsOK(c, g, V)
      BY <1>1, <3>1 DEF ChatOK, ChatBase, WaitsOK
    <3> QED BY <3>1, <3>2 DEF ChatOK, ChatBase
  <2> QED BY <2>1, <2>2 DEF Takes, ClientOK
<1>2. CASE ~StateOf(c, h).entry
  BY <1>2, DialogEntryTakenOK DEF DialogEntryApplied
<1> QED BY <1>1, <1>2

EntryType(entry) == entry.top \in Nat /\ entry.read \in Nat /\ entry.unread \in Nat

LEMMA FieldsRaise ==
    ASSUME NEW t \in ChatType, NEW entry, EntryType(entry)
    PROVE  Raised(t, [ApplyDialogFields(t, entry) EXCEPT !.last = entry.top])
<1> DEFINE u == SetUnreadCount(t, entry.unread)
           v == SetInboxReadTill(u, entry.read)
           x == ApplyDialogFields(t, entry)
<1>0. entry.top \in Nat /\ entry.read \in Nat /\ entry.unread \in Nat /\ t.before \in Nat
  BY DEF EntryType, ChatType
<1>1. x \in {t, v}
  BY DEF ApplyDialogFields
<1>2. Raised(t, u) /\ u \in ChatType
  <2>1. entry.unread \in Int
    BY <1>0
  <2>2. Raised(t, u)
    BY <2>1, UnreadRaises
  <2> QED BY <2>2 DEF Raised
<1> HIDE DEF u
<1>3. Raised(u, v)
  BY <1>0, <1>2, ReadTillRaises
<1> HIDE DEF v
<1>4. Raised(t, x)
  BY <1>0, <1>1, <1>2, <1>3, RaisedTwice DEF Raised
<1> HIDE DEF x
<1>5. x \in ChatType /\ x.before >= t.before
  BY <1>4 DEF Raised
<1>6. [x EXCEPT !.last = entry.top] \in ChatType /\ [x EXCEPT !.last = entry.top].before = x.before
  BY <1>0, <1>5 DEF ChatType
<1> QED BY <1>5, <1>6 DEF Raised, x

LEMMA ApplyDialogOK ==
    ASSUME IsFiniteSet(Chat), NEW c, NEW N, NEW V, NEW W, ClientOK(c, N, W), TimerRuns(c),
           \A r \in N : r.type # "History", NEW h \in Chat, NEW entry, EntryType(entry),
           W \subseteq V \union {h}, NEW d, d = ApplyDialog(c, h, entry)
    PROVE  Takes(c, d, N, V)
<1> DEFINE x == [ApplyDialogFields(c.chat[h], entry) EXCEPT !.last = entry.top]
           b == [c EXCEPT !.chat[h] = x]
<1>1. d = DialogEntryApplied(b, h)
  BY DEF ApplyDialog
<1>2. c.chat[h] \in ChatType
  BY DEF ClientOK, Shape
<1>3. Raised(c.chat[h], x)
  BY <1>2, FieldsRaise
<1> HIDE DEF x
<1>4. ReadsOn(c, b, N, W)
  BY <1>3, ChatRaisedOK DEF ReadsOn
<1> HIDE DEF b
<1>5. Takes(c, b, N, W)
  BY <1>4, ReadsOnTakes
<1>6. Takes(b, d, N, V)
  BY <1>1, <1>4, DialogEntryAppliedOK DEF ReadsOn
<1> QED BY <1>5, <1>6, TakesTwice

LEMMA FoldTakes ==
    ASSUME IsFiniteSet(Chat), NEW c, NEW N, NEW W, ClientOK(c, N, W), TimerRuns(c),
           \A r \in N : r.type # "History", NEW S, S \subseteq Chat, NEW kind, kind # "read",
           NEW r, kind = "answer" => \A h \in S : EntryType(r.entries[h])
    PROVE  Takes(c, Fold(S, c, kind, r)[S], N, W \ S)
<1> DEFINE f == Fold(S, c, kind, r)
           P == {x \in SUBSET S : Takes(c, f[x], N, W \ x)}
<1>1. IsFiniteSet(S)
  BY FS_Subset
<1>2. /\ f[{}] = c
      /\ \A x \in SUBSET S : x # {} =>
           One(x) \in x /\ f[x] = Each(kind, r, One(x), f[x \ {One(x)}])
  BY <1>1, FoldIs
<1> HIDE DEF f
<1>3. {} \in P
  <2>1. ClientOK(c, N, W \ {})
    <3>1. W \ {} = W
      OBVIOUS
    <3> QED BY <3>1
  <2> QED BY <1>2, <2>1 DEF Takes
<1>4. ASSUME NEW x \in SUBSET S, x # {}, x \ {One(x)} \in P PROVE x \in P
  <2> DEFINE h == One(x)
             e == f[x \ {h}]
             V == W \ (x \ {h})
             U == W \ x
  <2>1. h \in x /\ h \in Chat /\ h \in S /\ f[x] = Each(kind, r, h, e)
    BY <1>2, <1>4
  <2>2. Takes(c, e, N, V)
    BY <1>4
  <2>3. V \subseteq U \union {h}
    OBVIOUS
  <2> HIDE DEF h, e, U, V
  <2>4. ClientOK(e, N, V) /\ TimerRuns(e)
    BY <2>2 DEF Takes
  <2>5. Takes(e, f[x], N, U)
    <3>1. CASE kind = "answer"
      <4>1. f[x] = ApplyDialog(e, h, r.entries[h]) /\ EntryType(r.entries[h])
        BY <2>1, <3>1 DEF Each
      <4> QED BY <2>1, <2>3, <2>4, <4>1, ApplyDialogOK
    <3>2. CASE kind # "answer"
      <4>1. f[x] = DialogEntryApplied(e, h)
        BY <2>1, <3>2 DEF Each
      <4> QED BY <2>1, <2>3, <2>4, <4>1, DialogEntryAppliedOK
    <3> QED BY <3>1, <3>2
  <2>6. Takes(c, f[x], N, U)
    BY <2>2, <2>5, TakesTwice
  <2> QED BY <2>6 DEF U
<1> HIDE DEF P
<1>5. S \in P
  BY <1>1, <1>3, <1>4, BySize
<1> QED BY <1>5 DEF P, f

\* Every chat of the answer counts as having its entry.
LEMMA EntryAnswerOK ==
    ASSUME IsFiniteSet(Chat), NEW c, NEW N, NEW W, ClientOK(c, N, W), TimerRuns(c),
           \A q \in N : q.type # "History", NEW r, r.chats \subseteq Chat,
           \A h \in r.chats : EntryType(r.entries[h]), NEW d, d = EntryAnswer(c, r)
    PROVE  Takes(c, d, N, W \ r.chats)
<1> DEFINE S == r.chats
           b == IF r.answer = "failed" THEN c ELSE Fold(S, c, "answer", r)[S]
<1>1. d = Fold(S, b, "apply", r)[S]
  BY DEF EntryAnswer, FoldSet, MapThenFoldSet, Fold, Folded, Each, One
<1>2. Takes(c, b, N, W)
  <2>1. CASE r.answer = "failed"
    BY <2>1 DEF Takes
  <2>2. CASE r.answer # "failed"
    <3>1. Takes(c, Fold(S, c, "answer", r)[S], N, W \ S)
      BY FoldTakes
    <3>2. ClientOK(b, N, W \ S)
      BY <2>2, <3>1 DEF Takes
    <3>3. ClientOK(b, N, W)
      BY <3>2 DEF ClientOK, ChatOK, ChatBase, WaitsOK
    <3> QED BY <2>2, <3>1, <3>3 DEF Takes
  <2> QED BY <2>1, <2>2
<1> HIDE DEF b
<1>3. Takes(b, d, N, W \ S)
  <2> DEFINE kind == "apply"
  <2>1. ClientOK(b, N, W) /\ TimerRuns(b)
    BY <1>2 DEF Takes
  <2>2. kind # "read" /\ kind # "answer" /\ S \subseteq Chat /\ d = Fold(S, b, kind, r)[S]
    BY <1>1
  <2> HIDE DEF S, kind
  <2>3. kind = "answer" => \A h \in S : EntryType(r.entries[h])
    BY <2>2
  <2>4. Takes(b, Fold(S, b, kind, r)[S], N, W \ S)
    BY <2>1, <2>2, <2>3, FoldTakes
  <2> QED BY <2>2, <2>4
<1> QED BY <1>2, <1>3, TakesTwice

-----------------------------------------------------------------------------
(* sendDialogRequests().                                                     *)

\* What waited for the posted call is asked for, but for the chats in which
\* something is being done: their entries are postponed.
AskedFor(c, d, request) ==
    LET busy == {h \in DOMAIN c.pending : PostponeEntryRequest(StateOf(c, h))}
    IN  /\ DOMAIN d = DOMAIN c /\ d.byRequest = c.byRequest
        /\ d.next = c.next /\ d.timer = c.timer /\ d.chat = c.chat /\ d.ghost = c.ghost
        /\ d.calls = c.calls /\ d.called = c.called /\ d.dropped = c.dropped
        /\ DOMAIN d.states = DOMAIN c.states
        /\ \A h : StateOf(d, h) = IF h \in busy THEN [StateOf(c, h) EXCEPT !.entry = TRUE]
                                  ELSE StateOf(c, h)
        /\ DOMAIN d.dialog = DOMAIN c.dialog \union DOMAIN c.pending /\ d.pending = <<>>
        /\ \A h \in Chat : Held(d, h) = Held(c, h)
        /\ d.net = c.net \union {request}
        /\ {"chats", "id", "type", "answer", "turn", "entries"} \subseteq DOMAIN request
        /\ request.type = "Entry" /\ request.answer = "none"
        /\ request.chats = DOMAIN c.pending \ busy

Called(c) == [c EXCEPT !.queued = FALSE]

LEMMA AskedForIs ==
    ASSUME NEW c, Shape(c), c.pending # <<>>,
           \A h \in DOMAIN c.dialog : h \notin DOMAIN c.pending,
           NEW d, d = SendDialogRequests(Called(c))
    PROVE  \E request : AskedFor(c, d, request)
<1> DEFINE busy == {h \in DOMAIN c.pending : PostponeEntryRequest(StateOf(c, h))}
           asked == {h \in DOMAIN c.pending : ~PostponeEntryRequest(StateOf(c, h))}
           b == Called(c)
           id == FreshEntry(b)
           request == [chats |-> asked, id |-> id, type |-> "Entry",
                       answer |-> "none", turn |-> 0, entries |-> <<>>]
           f == [h \in DOMAIN c.states |->
                   IF h \in DOMAIN c.pending \ asked
                   THEN [c.states[h] EXCEPT !.entry = TRUE] ELSE c.states[h]]
           q == [h \in DOMAIN c.dialog \union DOMAIN c.pending |->
                   IF h \in DOMAIN c.dialog THEN c.dialog[h] ELSE c.pending[h]]
           net == c.net \union {request}
<1>0. Fields \subseteq DOMAIN c
  BY DEF Shape
<1>1. /\ DOMAIN b = DOMAIN c /\ b.byRequest = c.byRequest /\ b.states = c.states
      /\ b.next = c.next /\ b.timer = c.timer /\ b.chat = c.chat /\ b.ghost = c.ghost
      /\ b.calls = c.calls /\ b.called = c.called /\ b.dropped = c.dropped
      /\ b.dialog = c.dialog /\ b.pending = c.pending /\ b.net = c.net
  BY <1>0 DEF Fields, Called
<1>2. \A h : StateOf(b, h) = StateOf(c, h)
  BY <1>1 DEF StateOf, HasState
<1>3. d = [b EXCEPT !.states = f, !.dialog = q, !.pending = <<>>, !.net = net]
  <2>1. {h \in DOMAIN b.pending : ~PostponeEntryRequest(StateOf(b, h))} = asked
    <3> HIDE DEF b
    <3> QED BY <1>1, <1>2
  <2> HIDE DEF id, asked
  <2>2. d = [b EXCEPT
               !.states = [h \in DOMAIN @ |->
                   IF h \in DOMAIN b.pending \ asked
                   THEN [@[h] EXCEPT !.entry = TRUE] ELSE @[h]],
               !.dialog = [h \in DOMAIN @ \union DOMAIN b.pending |->
                   IF h \in DOMAIN @ THEN @[h] ELSE b.pending[h]],
               !.pending = <<>>,
               !.net = @ \union {request}]
    BY <1>1, <2>1, Zenon DEF SendDialogRequests, id
  <2> HIDE DEF b, request
  <2> QED BY <1>1, <2>2
<1> HIDE DEF b, id
<1>4. /\ {"chats", "id", "type", "answer", "turn", "entries"} \subseteq DOMAIN request
      /\ request.type = "Entry" /\ request.answer = "none" /\ request.chats = asked
  OBVIOUS
<1>5. asked = DOMAIN c.pending \ busy /\ DOMAIN c.pending \ asked = busy
  OBVIOUS
<1> HIDE DEF request, net
<1>6. DOMAIN f = DOMAIN c.states
      /\ \A h \in DOMAIN f : f[h] = IF h \in busy THEN [c.states[h] EXCEPT !.entry = TRUE]
                                    ELSE c.states[h]
  <2> HIDE DEF asked, busy
  <2> QED BY <1>5
<1>7. DOMAIN q = DOMAIN c.dialog \union DOMAIN c.pending
      /\ \A h \in DOMAIN q : q[h] = IF h \in DOMAIN c.dialog THEN c.dialog[h] ELSE c.pending[h]
  OBVIOUS
<1> HIDE DEF f, q
<1>8. /\ DOMAIN d = DOMAIN b /\ d.byRequest = b.byRequest
      /\ d.next = b.next /\ d.timer = b.timer /\ d.chat = b.chat /\ d.ghost = b.ghost
      /\ d.calls = b.calls /\ d.called = b.called /\ d.dropped = b.dropped
      /\ d.states = f /\ d.dialog = q /\ d.pending = <<>> /\ d.net = net
  BY <1>0, <1>1, <1>3 DEF Fields
<1>9. \A h \in busy : h \in DOMAIN c.states
  BY DEF StateOf, HasState, NewState, PostponeEntryRequest, OfType
<1>10. \A h : StateOf(d, h) = IF h \in busy THEN [StateOf(c, h) EXCEPT !.entry = TRUE]
                              ELSE StateOf(c, h)
  <2> HIDE DEF busy
  <2> QED BY <1>6, <1>8, <1>9 DEF StateOf, HasState
<1>11. \A h \in Chat : Held(d, h) = Held(c, h)
  BY <1>7, <1>8 DEF Held, CallbacksOf
<1>12. AskedFor(c, d, request)
  BY <1>1, <1>4, <1>5, <1>6, <1>7, <1>8, <1>10, <1>11 DEF AskedFor, net
<1> QED BY <1>12

LEMMA SendDialogRequestsOK ==
    ASSUME NEW c, NEW N, NEW W, ClientOK(c, N, W), TimerRuns(c),
           NEW d, d = SendDialogRequests(Called(c))
    PROVE  ReadsOn(c, d, N, W)
<1>0. Shape(c) /\ Fields \subseteq DOMAIN c /\ c.next \in Nat
  BY DEF ClientOK, Shape
<1>1. CASE c.pending = <<>>
  <2>1. d = Called(c)
    <3>1. Called(c).pending = c.pending
      BY <1>0 DEF Fields, Called
    <3> QED BY <1>1, <3>1, Zenon DEF SendDialogRequests
  <2>2. /\ DOMAIN d = DOMAIN c /\ d.states = c.states /\ d.byRequest = c.byRequest
        /\ d.next = c.next /\ d.timer = c.timer /\ d.dialog = c.dialog /\ d.pending = c.pending
        /\ d.chat = c.chat /\ d.net = c.net /\ d.calls = c.calls /\ d.called = c.called
        /\ d.dropped = c.dropped
    BY <1>0, <2>1 DEF Fields, Called
  <2>3. \A g : /\ StateOf(d, g) = StateOf(c, g) /\ Of(d, g) = Of(c, g)
               /\ ByRequest(d, g) = ByRequest(c, g) /\ (Asked(d, g) <=> Asked(c, g))
               /\ Held(d, g) = Held(c, g) /\ (Waits(d, g) <=> Waits(c, g))
    BY <2>2 DEF StateOf, HasState, Of, ByRequest, Asked, Entries, Held, Waits
  <2>4. Shape(d)
    BY <1>0, <1>1, <2>2, <2>3 DEF Shape
  <2>5. \A g \in Chat : c.chat[g].before \in Nat
    BY <1>0 DEF Shape, ChatType
  <2>6. Further(c, d)
    BY <1>0, <2>2 DEF Further
  <2>a. \A g \in Chat : Untouched(c, d, g)
    BY <2>2, <2>3, <2>5 DEF Untouched
  <2>7. ClientOK(d, N, W)
    BY <1>0, <2>4, <2>6, <2>a, UntouchedKeeps DEF ClientOK
  <2>8. Keeps(c, d) /\ TimerRuns(d)
    BY <2>2, <2>3 DEF Keeps, TimerRuns, WillRead
  <2> QED BY <2>7, <2>8 DEF ReadsOn
<1>2. CASE c.pending # <<>>
  <2>0. \A h \in DOMAIN c.dialog : h \in Chat /\ h \notin DOMAIN c.pending
    BY <1>0 DEF Shape, ClientOK, ChatOK, ChatBase, WaitsOK
  <2>1. PICK request : AskedFor(c, d, request)
    BY <1>0, <1>2, <2>0, AskedForIs
  <2> DEFINE busy == {h \in DOMAIN c.pending : PostponeEntryRequest(StateOf(c, h))}
  <2>2. \A h : StateOf(d, h) = IF h \in busy THEN [StateOf(c, h) EXCEPT !.entry = TRUE]
                               ELSE StateOf(c, h)
    BY <2>1 DEF AskedFor
  <2>3. /\ d.byRequest = c.byRequest /\ d.next = c.next /\ d.timer = c.timer
        /\ d.chat = c.chat /\ d.calls = c.calls /\ d.called = c.called
        /\ d.dropped = c.dropped /\ DOMAIN d.states = DOMAIN c.states
        /\ DOMAIN d.dialog = DOMAIN c.dialog \union DOMAIN c.pending /\ d.pending = <<>>
        /\ d.net = c.net \union {request} /\ request.type = "Entry"
        /\ request.chats = DOMAIN c.pending \ busy /\ request.answer = "none"
    BY <2>1 DEF AskedFor
  <2>4. \A g : Of(d, g) = Of(c, g) /\ ByRequest(d, g) = ByRequest(c, g)
    BY <2>3 DEF Of, ByRequest
  <2>5. \A g : Asked(d, g) <=> Asked(c, g) \/ g \in DOMAIN c.pending \ busy
    BY <2>3 DEF Asked, Entries
  <2> HIDE DEF busy
  <2>6. ASSUME NEW g \in Chat
        PROVE  LET s == StateOf(c, g)
                   t == StateOf(d, g)
               IN  /\ t \in StateType /\ t.postponed = s.postponed /\ t.sent = s.sent
                   /\ t.will = s.will /\ t.sentTill = s.sentTill /\ t.when = s.when
                   /\ t.entry = (s.entry \/ g \in busy)
    <3>1. StateOf(c, g) \in StateType
      BY <1>0 DEF Shape
    <3> QED BY <2>2, <3>1 DEF StateType
  <2>7. Shape(d)
    <3>1. NetOK(request)
      <4>1. {"chats", "id", "type", "answer", "turn", "entries"} \subseteq DOMAIN request
        BY <2>1 DEF AskedFor
      <4>2. DOMAIN c.pending \subseteq Chat
        BY <1>0 DEF Shape
      <4> QED BY <2>3, <4>1, <4>2 DEF NetOK
    <3>2. \A r \in d.net : NetOK(r)
      BY <1>0, <2>3, <3>1 DEF Shape
    <3>3. Fields \subseteq DOMAIN d
      BY <1>0, <2>1 DEF AskedFor
    <3>4. DOMAIN d.states \subseteq Chat /\ DOMAIN d.dialog \subseteq Chat /\ DOMAIN d.pending \subseteq Chat
      <4>1. DOMAIN d.pending = {}
        BY <2>3
      <4> QED BY <1>0, <2>3, <4>1 DEF Shape
    <3> QED BY <1>0, <2>3, <2>6, <3>2, <3>3, <3>4 DEF Shape
  <2>8. ASSUME NEW g \in Chat PROVE ChatOK(d, g, About(N, g), W)
    <3> DEFINE s == StateOf(c, g)
               t == StateOf(d, g)
    <3>0. ChatOK(c, g, About(N, g), W)
      BY DEF ClientOK
    <3>1. /\ t.postponed = s.postponed /\ t.sent = s.sent /\ t.will = s.will
          /\ t.sentTill = s.sentTill /\ t.when = s.when /\ t.entry = (s.entry \/ g \in busy)
      BY <2>6
    <3>2. TableOK(d, g, About(N, g))
      BY <2>3, <2>4, <3>0, <3>1 DEF ChatOK, ChatBase, TableOK, Table, SlicesKept
    <3>3. ReadsOK(d, g)
      BY <2>3, <2>4, <3>0, <3>1 DEF ChatOK, ChatBase, ReadsOK
    <3>4. PostponeEntryRequest(t) <=> PostponeEntryRequest(s)
      BY <3>1 DEF PostponeEntryRequest, OfType
    <3>5. PostponeHistoryRequest(t) <=> PostponeHistoryRequest(s)
      BY <3>1 DEF PostponeHistoryRequest, OfType
    <3>6. g \in busy <=> g \in DOMAIN c.pending /\ PostponeEntryRequest(s)
      BY DEF busy
    <3>7. WaitsOK(d, g, W)
      <4>1. WaitsOK(c, g, W)
        BY <3>0 DEF ChatOK, ChatBase
      <4>2. /\ g \in DOMAIN c.dialog => g \notin DOMAIN c.pending
            /\ s.entry => g \in DOMAIN c.dialog
            /\ g \in DOMAIN c.dialog => s.entry \/ Asked(c, g) \/ g \in W
            /\ g \in DOMAIN c.dialog /\ PostponeEntryRequest(s) => s.entry
        BY <4>1 DEF WaitsOK
      <4>3. /\ g \notin DOMAIN d.pending
            /\ g \in DOMAIN d.dialog <=> g \in DOMAIN c.dialog \/ g \in DOMAIN c.pending
            /\ Asked(d, g) <=> Asked(c, g) \/ (g \in DOMAIN c.pending /\ g \notin busy)
        <5>1. g \notin DOMAIN d.pending
          BY <2>3
        <5> QED BY <2>3, <2>5, <5>1
      <4> HIDE DEF s, t
      <4>4. /\ t.entry => g \in DOMAIN d.dialog
            /\ g \in DOMAIN d.dialog => t.entry \/ Asked(d, g) \/ g \in W
            /\ g \in DOMAIN d.dialog /\ PostponeEntryRequest(t) => t.entry
        BY <3>1, <3>4, <3>6, <4>2, <4>3
      <4> QED BY <4>3, <4>4 DEF WaitsOK, t
    <3>8. Sorted(t) /\ SlicesWait(t)
      BY <3>0, <3>1, <3>5 DEF ChatOK, ChatBase, Sorted, SlicesWait, OfType
    <3>9. EntryWaits(t)
      <4>1. EntryWaits(s)
        BY <3>0 DEF ChatOK
      <4> HIDE DEF s, t
      <4> QED BY <3>1, <3>4, <3>6, <4>1 DEF EntryWaits
    <3>10. \A id \in t.postponed \union Ids(t.sent) : id \in 1..d.next
      BY <2>3, <3>0, <3>1 DEF ChatOK, ChatBase
    <3> QED BY <3>2, <3>3, <3>7, <3>8, <3>9, <3>10 DEF ChatOK, ChatBase
  <2>9. Keeps(c, d)
    <3>1. \A g \in Chat : Held(d, g) = Held(c, g)
      BY <2>1 DEF AskedFor
    <3>2. \A g \in Chat : StateOf(c, g).entry => StateOf(d, g).entry
      BY <2>6
    <3> QED BY <2>3, <3>1, <3>2 DEF Keeps, Waits
  <2>10. TimerRuns(d)
    <3>1. \A g \in Chat : StateOf(d, g).will = StateOf(c, g).will
      BY <2>6
    <3>2. WillRead(d) = WillRead(c)
      BY <1>0, <2>7, <3>1, WillReadIs
    <3> QED BY <2>3, <3>2 DEF TimerRuns
  <2> QED BY <2>7, <2>8, <2>9, <2>10 DEF ReadsOn, ClientOK
<1> QED BY <1>1, <1>2

-----------------------------------------------------------------------------
(* The handlers.                                                             *)

\* What every step does: the client stays in order, and what is done in a chat
\* whose entry is postponed does not end the wait for it.
Proper(c, d) ==
    Good(d) /\ \A h \in Chat : StateOf(c, h).entry => Waits(d, h)

LEMMA EntryIsWaited ==
    ASSUME NEW c, NEW N, NEW W, ClientOK(c, N, W), NEW h \in Chat, StateOf(c, h).entry
    PROVE  Waits(c, h)
  BY DEF ClientOK, ChatOK, ChatBase, WaitsOK, Waits

LEMMA SteadyIsProper ==
    ASSUME NEW c, NEW d, Good(c), ClientOK(d, {}, {}), TimerRuns(d),
           d.called = c.called, d.calls = c.calls,
           \A h \in Chat : Held(d, h) = Held(c, h) /\ (Waits(c, h) => Waits(d, h))
    PROVE  Proper(c, d)
<1>1. CalledOnce(d, {})
  BY DEF Good, CalledOnce
<1>2. \A h \in Chat : StateOf(c, h).entry => Waits(d, h)
  BY EntryIsWaited DEF Good
<1> QED BY <1>1, <1>2 DEF Good, Proper

LEMMA ReadsOnIsProper ==
    ASSUME NEW c, NEW d, Good(c), ReadsOn(c, d, {}, {})
    PROVE  Proper(c, d)
  BY SteadyIsProper DEF ReadsOn, Keeps

LEMMA TakesIsProper ==
    ASSUME NEW c, NEW d, Good(c), Takes(c, d, {}, {})
    PROVE  Proper(c, d)
<1>1. \A h \in Chat : StateOf(c, h).entry => Waits(d, h)
  BY EntryIsWaited DEF Takes
<1> QED BY <1>1 DEF Good, Takes, Proper

\* Something done in one chat.
LEMMA AtIsSteady ==
    ASSUME NEW c, NEW d, NEW h \in Chat, Shape(c), Shape(d), At(c, d, h), Calm(c, d),
           StateOf(d, h).will = StateOf(c, h).will
    PROVE  TimerRuns(c) => TimerRuns(d)
<1>1. \A g \in Chat : StateOf(d, g).will = StateOf(c, g).will
  BY DEF At, Untouched
<1>2. WillRead(d) = WillRead(c)
  BY <1>1, WillReadIs
<1> QED BY <1>2 DEF TimerRuns, Calm

\* The request of a row, which is on the net or answered, ends.
LEMMA AnsweredEnds ==
    ASSUME NEW c, NEW h, NEW N, NEW W, ChatOK(c, h, N, W), NEW r \in Of(c, h) \union N
    PROVE  Ending(c, h, r.id, Without(N, r.id), W)
<1> DEFINE s == StateOf(c, h)
           R == Of(c, h) \union N
           id == r.id
<1>0. /\ Sorted(s) /\ SlicesKept(c, h) /\ Table(c, h) = Rows(R)
      /\ ByRequest(c, h) = s.postponed \union Ids(Table(c, h))
      /\ \A i \in s.postponed \union Ids(s.sent) : i \in 1..c.next
      /\ ReadsOK(c, h) /\ WaitsOK(c, h, W)
  BY DEF ChatOK, ChatBase, TableOK
<1>1. RowOf(r) \in Table(c, h) /\ RowOf(r).id = id
  BY <1>0 DEF Rows, RowOf
<1>2. RowOf(r) \in s.sent
  BY <1>1 DEF Table
<1>3. HasState(c, h)
  BY <1>2 DEF StateOf, NewState
<1>4. id \notin s.postponed
  BY <1>0, <1>1, <1>2 DEF Sorted
<1>5. Without(Table(c, h), id) = Rows(Without(Of(c, h), id) \union Without(N, id))
  <2>1. Rows(Without(Of(c, h), id) \union Without(N, id)) = {RowOf(q) : q \in Without(R, id)}
    BY DEF Rows, Without
  <2>2. \A q : RowOf(q).id = q.id
    BY DEF RowOf
  <2> HIDE DEF R, id
  <2>3. {RowOf(q) : q \in Without(R, id)} = Without(Rows(R), id)
    BY <2>2 DEF Rows, Without
  <2> QED BY <1>0, <2>1, <2>3
<1>6. ByRequest(c, h) \ {id} = s.postponed \union Ids(Without(Table(c, h), id))
  <2>1. Ids(Without(Table(c, h), id)) = Ids(Table(c, h)) \ {id}
    BY DEF Ids, Without
  <2> QED BY <1>0, <1>4, <2>1
<1>7. id \in DOMAIN c.byRequest => c.byRequest[id] = h
  <2>1. id \in Ids(Table(c, h))
    BY <1>1 DEF Ids
  <2>2. id \in ByRequest(c, h)
    BY <1>0, <2>1
  <2> QED BY <2>2 DEF ByRequest
<1> HIDE DEF s, id, R
<1>8. Ending(c, h, id, Without(N, id), W)
  BY <1>0, <1>3, <1>4, <1>5, <1>6, <1>7 DEF Ending, s
<1> QED BY <1>8 DEF id

LEMMA FinishedOK ==
    ASSUME NEW c, Shape(c), NEW h \in Chat, NEW id, NEW M, NEW W,
           \A g \in Chat \ {h} : ChatOK(c, g, About(M, g), W),
           Ending(c, h, id, About(M, h), W), NEW d, d = FinishSentRequest(c, h, id)
    PROVE  ClientOK(d, M, W) /\ Calm(c, d) /\ (TimerRuns(c) => TimerRuns(d))
<1>1. /\ Shape(d) /\ At(c, d, h) /\ Calm(c, d) /\ ChatOK(d, h, About(M, h), W)
      /\ StateOf(d, h).will = StateOf(c, h).will
  BY FinishOK
<1>2. ClientOK(d, M, W)
  BY <1>1, AtKeeps
<1>3. TimerRuns(c) => TimerRuns(d)
  BY <1>1, AtIsSteady
<1> QED BY <1>1, <1>2, <1>3

LEMMA AboutNone ==
    ASSUME NEW h, NEW id
    PROVE  About({}, h) = {} /\ Without({}, id) = {}
  BY DEF About, Without

\* A request for a slice, or one the client only waits for, is answered.
LEMMA RequestEndsOK ==
    ASSUME NEW c, Good(c), NEW r \in c.net, r.type # "Entry",
           NEW d, d = FinishSentRequest(c, r.chat, r.id)
    PROVE  Proper(c, d)
<1> DEFINE h == r.chat
<1>1. ClientOK(c, {}, {}) /\ Shape(c)
  BY DEF Good, ClientOK
<1>2. h \in Chat /\ r \in Of(c, h)
  BY <1>1 DEF Shape, NetOK, Of
<1>3. \A g \in Chat : ChatOK(c, g, {}, {})
  BY <1>1, AboutNone DEF ClientOK
<1>4. Ending(c, h, r.id, {}, {})
  <2>1. r \in Of(c, h) \union {}
    BY <1>2
  <2> QED BY <1>2, <1>3, <2>1, AnsweredEnds, AboutNone
<1> HIDE DEF h
<1>5. ClientOK(d, {}, {}) /\ Calm(c, d) /\ (TimerRuns(c) => TimerRuns(d))
  <2>1. About({}, h) = {} /\ \A g \in Chat \ {h} : ChatOK(c, g, About({}, g), {})
    BY <1>3, AboutNone
  <2>2. Ending(c, h, r.id, About({}, h), {})
    BY <1>4, <2>1
  <2>3. d = FinishSentRequest(c, h, r.id)
    BY DEF h
  <2> QED BY <1>1, <1>2, <2>1, <2>2, <2>3, FinishedOK
<1> QED BY <1>5, SteadyIsProper DEF Good, Calm

Sliced(c, h, top, answer) ==
    IF answer = "failed" THEN c
    ELSE [c EXCEPT !.chat[h].loaded = TRUE, !.chat[h].last = top]

LEMMA SliceAnswerOK ==
    ASSUME NEW c, Good(c), NEW r \in c.net, r.type # "Entry", NEW top \in Int, NEW answer,
           NEW b, b = Sliced(c, r.chat, top, answer),
           NEW d, d = FinishSentRequest(b, r.chat, r.id)
    PROVE  Proper(c, d)
<1>1. CASE answer = "failed"
  BY <1>1, RequestEndsOK DEF Sliced
<1>2. CASE answer # "failed"
  <2> DEFINE h == r.chat
             t == c.chat[h]
             x == [t EXCEPT !.loaded = TRUE, !.last = top]
  <2>1. ClientOK(c, {}, {}) /\ Shape(c) /\ TimerRuns(c)
    BY DEF Good, ClientOK
  <2>2. h \in Chat
    BY <2>1 DEF Shape, NetOK
  <2>3. t \in ChatType /\ c.chat \in [Chat -> ChatType] /\ Fields \subseteq DOMAIN c
    BY <2>1, <2>2 DEF Shape
  <2>4. b = [c EXCEPT !.chat[h] = x]
    BY <1>2, <2>2, <2>3 DEF Fields, Sliced
  <2>5. Raised(t, x)
    <3>1. x \in ChatType /\ x.before = t.before /\ t.before \in Nat
      BY <2>3 DEF ChatType
    <3> QED BY <3>1 DEF Raised
  <2> HIDE DEF x
  <2>6. /\ ReadsOn(c, b, {}, {}) /\ b.net = c.net
        /\ \A g : StateOf(b, g) = StateOf(c, g)
    <3>1. ReadsOn(c, b, {}, {})
      BY <2>1, <2>2, <2>4, <2>5, ChatRaisedOK DEF ReadsOn
    <3>2. b.net = c.net /\ b.states = c.states
      BY <2>3, <2>4 DEF Fields
    <3> QED BY <3>1, <3>2 DEF StateOf, HasState
  <2>7. Good(b)
    BY <2>6, ReadsOnIsProper DEF Proper
  <2>8. Proper(b, d)
    BY <2>6, <2>7, RequestEndsOK
  <2> QED BY <2>6, <2>8 DEF Proper
<1> QED BY <1>1, <1>2

\* Only requests for slices are cancelled.
LEMMA CancelOK ==
    ASSUME NEW c, Good(c), NEW h \in Chat, NEW id, id \in SliceIds(c, h),
           NEW b, b = [c EXCEPT !.byRequest = Remove(@, id), !.states[h].postponed = @ \ {id}],
           NEW d, d = FinishSentRequest(b, h, id)
    PROVE  Proper(c, d)
<1> DEFINE s == StateOf(c, h)
           t == [s EXCEPT !.postponed = @ \ {id}]
           m == Remove(c.byRequest, id)
           f == [c.states EXCEPT ![h] = t]
<1>1. ClientOK(c, {}, {}) /\ Shape(c) /\ TimerRuns(c) /\ Fields \subseteq DOMAIN c
  BY DEF Good, ClientOK, Shape
<1>2. /\ Sorted(s) /\ SlicesKept(c, h) /\ Table(c, h) = Rows(Of(c, h))
      /\ ByRequest(c, h) = s.postponed \union Ids(Table(c, h))
      /\ \A i \in s.postponed \union Ids(s.sent) : i \in 1..c.next
      /\ ReadsOK(c, h) /\ WaitsOK(c, h, {})
  <2>1. ChatOK(c, h, {}, {})
    BY <1>1, AboutNone DEF ClientOK
  <2>2. Of(c, h) \union {} = Of(c, h)
    OBVIOUS
  <2> QED BY <2>1, <2>2 DEF ChatOK, ChatBase, TableOK
<1>3. HasState(c, h) /\ s = c.states[h] /\ s \in StateType
  <2>1. s.postponed # {} \/ s.sent # {}
    BY DEF SliceIds, OfType
  <2> QED BY <1>1, <2>1 DEF StateOf, NewState, Shape
<1>4. id \in ByRequest(c, h)
  <2>1. CASE id \in s.postponed
    BY <1>2, <2>1
  <2>2. CASE \E r \in s.sent : r.type = "History" /\ r.id = id
    BY <1>2, <2>2 DEF SlicesKept, Table, Ids
  <2> QED BY <2>1, <2>2 DEF SliceIds, OfType
<1>5. /\ t \in StateType /\ t.postponed = s.postponed \ {id} /\ t.sent = s.sent
      /\ t.will = s.will /\ t.sentTill = s.sentTill /\ t.when = s.when /\ t.entry = s.entry
  BY <1>3 DEF StateType
<1>6. b = [c EXCEPT !.byRequest = m, !.states = f]
  BY <1>1, <1>3 DEF Fields, HasState
<1>7. DOMAIN m = DOMAIN c.byRequest \ {id} /\ \A i \in DOMAIN m : m[i] = c.byRequest[i]
  BY DEF Remove, Restrict
<1>8. DOMAIN f = DOMAIN c.states /\ f[h] = t /\ \A g \in DOMAIN f : g # h => f[g] = c.states[g]
  BY <1>3 DEF HasState
<1> HIDE DEF t, m, f
<1>9. /\ DOMAIN b = DOMAIN c /\ b.byRequest = m /\ b.next = c.next
      /\ b.timer = c.timer /\ b.dialog = c.dialog /\ b.pending = c.pending
      /\ b.queued = c.queued /\ b.chat = c.chat /\ b.net = c.net
      /\ b.calls = c.calls /\ b.called = c.called /\ b.dropped = c.dropped /\ b.states = f
  BY <1>1, <1>6 DEF Fields
<1>10. /\ HasState(b, h) /\ StateOf(b, h) = t
       /\ \A g : g # h => StateOf(b, g) = StateOf(c, g)
  BY <1>3, <1>8, <1>9 DEF StateOf, HasState
<1>11. \A g : /\ Of(b, g) = Of(c, g) /\ (Asked(b, g) <=> Asked(c, g))
              /\ Held(b, g) = Held(c, g) /\ (Waits(b, g) <=> Waits(c, g))
              /\ ByRequest(b, g) = ByRequest(c, g) \ {id}
  BY <1>7, <1>9 DEF Of, Asked, Entries, Held, Waits, ByRequest
<1>12. \A g : g # h => ByRequest(b, g) = ByRequest(c, g)
  <2>1. \A g : g # h => id \notin ByRequest(c, g)
    BY <1>4 DEF ByRequest
  <2> QED BY <1>11, <2>1
<1>13. Shape(b)
  <2>1. \A g \in Chat : StateOf(b, g) \in StateType
    BY <1>1, <1>5, <1>10 DEF Shape
  <2>2. \A i \in DOMAIN b.byRequest : i \in 1..b.next /\ i \notin b.dropped
    BY <1>1, <1>7, <1>9 DEF Shape
  <2>3. DOMAIN b.states \subseteq Chat
    BY <1>1, <1>8, <1>9 DEF Shape
  <2> QED BY <1>1, <1>9, <2>1, <2>2, <2>3 DEF Shape
<1>14. At(c, b, h)
  <2>1. c.next \in Nat /\ \A g \in Chat : c.chat[g].before \in Nat
    BY <1>1 DEF Shape, ChatType
  <2>2. Further(c, b)
    BY <1>9, <2>1 DEF Further
  <2>3. \A g \in Chat \ {h} : Untouched(c, b, g)
    BY <1>9, <1>10, <1>11, <1>12, <2>1 DEF Untouched
  <2> QED BY <2>2, <2>3 DEF At
<1>15. Calm(c, b)
  BY <1>9, <1>11 DEF Calm
<1>16. Ending(b, h, id, {}, {})
  <2>1. Sorted(t) /\ id \notin t.postponed
    BY <1>2, <1>5 DEF Sorted, PostponeHistoryRequest, OfType
  <2>2. Table(b, h) = Table(c, h) /\ SlicesKept(b, h)
    BY <1>2, <1>5, <1>9, <1>10 DEF Table, SlicesKept
  <2>3. Without(Table(b, h), id) = Rows(Without(Of(b, h), id) \union {})
    <3>1. \A r : RowOf(r).id = r.id
      BY DEF RowOf
    <3>2. Without(Rows(Of(c, h)), id) = Rows(Without(Of(c, h), id))
      BY <3>1 DEF Rows, Without
    <3> QED BY <1>2, <1>11, <2>2, <3>2
  <2>4. ByRequest(b, h) \ {id} = t.postponed \union Ids(Without(Table(b, h), id))
    <3>1. Ids(Without(Table(b, h), id)) = Ids(Table(b, h)) \ {id}
      BY DEF Ids, Without
    <3> QED BY <1>2, <1>5, <1>11, <2>2, <3>1
  <2>5. id \notin DOMAIN b.byRequest
    BY <1>7, <1>9
  <2>6. ReadsOK(b, h)
    BY <1>2, <1>5, <1>9, <1>10, <1>11 DEF ReadsOK
  <2>7. WaitsOK(b, h, {})
    BY <1>2, <1>5, <1>9, <1>10, <1>11 DEF WaitsOK, PostponeEntryRequest, OfType
  <2>8. \A i \in t.postponed \union Ids(t.sent) : i \in 1..b.next
    BY <1>2, <1>5, <1>9
  <2> HIDE DEF s
  <2> QED BY <1>10, <2>1, <2>2, <2>3, <2>4, <2>5, <2>6, <2>7, <2>8 DEF Ending
<1>17. \A g \in Chat \ {h} : ChatOK(b, g, {}, {})
  BY <1>1, <1>13, <1>14, UntouchedKeeps, AboutNone DEF ClientOK, At
<1>18. ClientOK(d, {}, {}) /\ Calm(b, d) /\ (TimerRuns(b) => TimerRuns(d))
  <2>1. About({}, h) = {} /\ \A g \in Chat \ {h} : ChatOK(b, g, About({}, g), {})
    BY <1>17, AboutNone
  <2>2. Ending(b, h, id, About({}, h), {})
    BY <1>16, <2>1
  <2> QED BY <1>13, <2>1, <2>2, FinishedOK
<1>19. TimerRuns(b)
  <2>1. StateOf(b, h).will = StateOf(c, h).will
    BY <1>5, <1>10
  <2> QED BY <1>1, <1>13, <1>14, <1>15, <2>1, AtIsSteady
<1> QED BY <1>15, <1>18, <1>19, SteadyIsProper DEF Calm

-----------------------------------------------------------------------------
(* What the server has to answer.                                            *)

\* The requests of the one set are those of the other, but for what has been
\* answered, and when.
Alike(q, p) ==
    /\ NetOK(p) /\ p.type = q.type
    /\ q.type = "Entry" => p.chats = q.chats
    /\ q.type # "Entry" => p.chat = q.chat /\ p.id = q.id /\ p.till = q.till

SameRequests(net, n) ==
    /\ \A p \in n : \E q \in net : Alike(q, p)
    /\ \A q \in net : \E p \in n : Alike(q, p)

\* The requests L are taken from the net: N, and those for the entries W.
TakenAway(L, N, W) ==
    /\ N = {r \in L : r.type # "Entry"}
    /\ W = {h \in Chat : \E r \in L : r.type = "Entry" /\ h \in r.chats}

LEMMA NetChangedOK ==
    ASSUME NEW c, Good(c), NEW L, L \subseteq c.net, NEW n, SameRequests(c.net \ L, n),
           NEW N, NEW W, TakenAway(L, N, W),
           NEW d, d = [c EXCEPT !.net = n]
    PROVE  /\ ClientOK(d, N, W) /\ TimerRuns(d) /\ d.calls = c.calls /\ d.called = c.called
           /\ \A h : /\ StateOf(d, h) = StateOf(c, h) /\ Held(d, h) = Held(c, h)
                     /\ Waits(d, h) <=> Waits(c, h)
<1>1. ClientOK(c, {}, {}) /\ Shape(c) /\ TimerRuns(c) /\ Fields \subseteq DOMAIN c
  BY DEF Good, ClientOK, Shape
<1>2. /\ DOMAIN d = DOMAIN c /\ d.states = c.states /\ d.byRequest = c.byRequest
      /\ d.next = c.next /\ d.timer = c.timer /\ d.dialog = c.dialog /\ d.pending = c.pending
      /\ d.queued = c.queued /\ d.chat = c.chat /\ d.net = n /\ d.dropped = c.dropped
      /\ d.calls = c.calls /\ d.called = c.called
  BY <1>1 DEF Fields
<1>3. \A h : /\ StateOf(d, h) = StateOf(c, h) /\ Held(d, h) = Held(c, h)
             /\ ByRequest(d, h) = ByRequest(c, h)
             /\ Waits(d, h) <=> Waits(c, h)
  BY <1>2 DEF StateOf, HasState, Held, Waits, ByRequest
<1>4. Shape(d)
  <2>1. \A r \in d.net : NetOK(r)
    BY <1>2 DEF SameRequests, Alike
  <2> QED BY <1>1, <1>2, <1>3, <2>1 DEF Shape
<1>5. ASSUME NEW h \in Chat PROVE ChatOK(d, h, About(N, h), W)
  <2>0. ChatOK(c, h, {}, {})
    BY <1>1, AboutNone DEF ClientOK
  <2>1. \A q \in Of(c, h) : q \in L \/ \E p \in Of(d, h) : Alike(q, p)
    BY <1>2 DEF SameRequests, Of, Alike
  <2>2. \A p \in Of(d, h) : \E q \in Of(c, h) : Alike(q, p)
    BY <1>2 DEF SameRequests, Of, Alike
  <2>3. Rows(Of(d, h) \union About(N, h)) = Rows(Of(c, h))
    <3>1. ASSUME NEW q \in Of(c, h)
          PROVE  RowOf(q) \in Rows(Of(d, h) \union About(N, h))
      <4>1. CASE q \in L
        <5>1. q \in About(N, h)
          BY <4>1 DEF Of, About, TakenAway
        <5> QED BY <5>1 DEF Rows
      <4>2. CASE q \notin L
        <5>1. PICK p \in Of(d, h) : Alike(q, p)
          BY <2>1, <4>2
        <5>2. RowOf(p) = RowOf(q)
          BY <5>1 DEF Alike, RowOf, Of
        <5> QED BY <5>2 DEF Rows
      <4> QED BY <4>1, <4>2
    <3>2. ASSUME NEW p \in Of(d, h) \union About(N, h)
          PROVE  RowOf(p) \in Rows(Of(c, h))
      <4>1. CASE p \in Of(d, h)
        <5>1. PICK q \in Of(c, h) : Alike(q, p)
          BY <2>2, <4>1
        <5>2. RowOf(p) = RowOf(q)
          BY <5>1 DEF Alike, RowOf, Of
        <5> QED BY <5>2 DEF Rows
      <4>2. CASE p \in About(N, h)
        <5>1. p \in Of(c, h)
          BY <4>2 DEF About, Of, TakenAway
        <5> QED BY <5>1 DEF Rows
      <4> QED BY <4>1, <4>2
    <3>3. Rows(Of(c, h)) \subseteq Rows(Of(d, h) \union About(N, h))
      BY <3>1 DEF Rows
    <3>4. Rows(Of(d, h) \union About(N, h)) \subseteq Rows(Of(c, h))
      BY <3>2 DEF Rows
    <3> QED BY <3>3, <3>4
  <2>4. TableOK(d, h, About(N, h))
    <3>1. TableOK(c, h, {}) /\ Of(c, h) \union {} = Of(c, h)
      BY <2>0 DEF ChatOK, ChatBase
    <3>2. Table(d, h) = Table(c, h)
      BY <1>2, <1>3 DEF Table
    <3>3. Table(d, h) = Rows(Of(d, h) \union About(N, h))
      BY <2>3, <3>1, <3>2 DEF TableOK
    <3>4. SlicesKept(d, h)
      BY <1>2, <1>3, <3>1 DEF SlicesKept, TableOK
    <3> QED BY <1>3, <3>1, <3>2, <3>3, <3>4 DEF TableOK
  <2>5. ReadsOK(d, h)
    <3>1. ReadsOK(c, h)
      BY <2>0 DEF ChatOK, ChatBase
    <3>2. \A p \in Of(d, h) : p.type = "ReadInbox" =>
            \E q \in Of(c, h) : q.type = "ReadInbox" /\ q.till = p.till
      BY <2>2 DEF Alike, Of
    <3> QED BY <1>2, <1>3, <3>1, <3>2 DEF ReadsOK
  <2>6. WaitsOK(d, h, W)
    <3>1. Asked(c, h) => Asked(d, h) \/ h \in W
      BY <1>2 DEF SameRequests, Asked, Entries, Alike, TakenAway
    <3> QED BY <1>2, <1>3, <2>0, <3>1 DEF ChatOK, ChatBase, WaitsOK
  <2> QED BY <1>2, <1>3, <2>0, <2>4, <2>5, <2>6 DEF ChatOK, ChatBase
<1>6. TimerRuns(d)
  BY <1>1, <1>2 DEF TimerRuns, WillRead
<1> QED BY <1>2, <1>3, <1>4, <1>5, <1>6 DEF ClientOK

\* Nothing is taken from the net.
LEMMA SameRequestsOK ==
    ASSUME NEW c, Good(c), NEW n, SameRequests(c.net, n), NEW d, d = [c EXCEPT !.net = n]
    PROVE  Proper(c, d)
<1> DEFINE L == {}
           N == {r \in L : r.type # "Entry"}
           W == {h \in Chat : \E r \in L : r.type = "Entry" /\ h \in r.chats}
<1>1. N = {} /\ W = {} /\ c.net \ L = c.net /\ L \subseteq c.net
  OBVIOUS
<1>a. TakenAway(L, N, W)
  BY DEF TakenAway
<1> HIDE DEF L, N, W
<1>2. SameRequests(c.net \ L, n)
  BY <1>1
<1>3. /\ ClientOK(d, N, W) /\ TimerRuns(d) /\ d.calls = c.calls /\ d.called = c.called
      /\ \A h : Held(d, h) = Held(c, h) /\ (Waits(d, h) <=> Waits(c, h))
  BY <1>a, <1>1, <1>2, NetChangedOK
<1> QED BY <1>1, <1>3, SteadyIsProper

\* Turns tell when an answer comes, and nothing of a request.
Turned(q) == [q EXCEPT !.turn = IF @ = 0 THEN 0 ELSE @ - 1]

LEMMA TurnedIsAlike ==
    ASSUME NEW q, NetOK(q)
    PROVE  Alike(q, Turned(q))
<1> DEFINE turn == IF q.turn = 0 THEN 0 ELSE q.turn - 1
           p == [q EXCEPT !.turn = turn]
<1>1. CASE q.type = "Entry"
  <2>1. {"chats", "id", "type", "answer", "turn", "entries"} \subseteq DOMAIN q
    BY <1>1 DEF NetOK
  <2>2. Turned(q) = p
    BY DEF Turned
  <2> HIDE DEF turn
  <2>3. /\ DOMAIN p = DOMAIN q /\ p.chats = q.chats /\ p.type = q.type
        /\ p.answer = q.answer /\ p.entries = q.entries
    BY <2>1
  <2> HIDE DEF p
  <2> QED BY <1>1, <2>1, <2>2, <2>3 DEF Alike, NetOK
<1>2. CASE q.type # "Entry"
  <2>1. {"chat", "id", "type", "till", "answer", "turn"} \subseteq DOMAIN q
    BY <1>2 DEF NetOK
  <2>2. Turned(q) = p
    BY DEF Turned
  <2> HIDE DEF turn
  <2>3. /\ DOMAIN p = DOMAIN q /\ p.chat = q.chat /\ p.type = q.type
        /\ p.id = q.id /\ p.till = q.till
    BY <2>1
  <2> HIDE DEF p
  <2> QED BY <1>2, <2>1, <2>2, <2>3 DEF Alike, NetOK
<1> QED BY <1>1, <1>2

\* A request is answered.
LEMMA ServedOK ==
    ASSUME NEW c, Good(c), NEW r \in c.net, NEW p, Alike(r, p),
           NEW d, d = [c EXCEPT !.net = (@ \ {r}) \union {p}]
    PROVE  Proper(c, d)
<1> DEFINE n == (c.net \ {r}) \union {p}
<1>1. \A q \in c.net : NetOK(q)
  BY DEF Good, ClientOK, Shape
<1>2. \A q \in c.net : Alike(q, q)
  BY <1>1 DEF Alike
<1>3. SameRequests(c.net, n)
  BY <1>2 DEF SameRequests
<1>4. d = [c EXCEPT !.net = n]
  OBVIOUS
<1> HIDE DEF n
<1> QED BY <1>3, <1>4, SameRequestsOK

LEMMA ServedReadIsAlike ==
    ASSUME NEW r, NetOK(r), r.type = "ReadInbox", NEW answer, NEW turn
    PROVE  Alike(r, [r EXCEPT !.answer = answer, !.turn = turn])
<1> DEFINE p == [r EXCEPT !.answer = answer, !.turn = turn]
<1>1. {"chat", "id", "type", "till", "answer", "turn"} \subseteq DOMAIN r
  BY DEF NetOK
<1>2. /\ DOMAIN p = DOMAIN r /\ p.chat = r.chat /\ p.type = r.type
      /\ p.id = r.id /\ p.till = r.till
  BY <1>1
<1> HIDE DEF p
<1>3. Alike(r, p)
  BY <1>1, <1>2 DEF Alike, NetOK
<1> QED BY <1>3 DEF p

LEMMA ServedEntryIsAlike ==
    ASSUME NEW r, NetOK(r), r.type = "Entry", NEW answer, NEW turn, NEW entries,
           \A h \in r.chats : EntryType(entries[h])
    PROVE  Alike(r, [r EXCEPT !.answer = answer, !.turn = turn, !.entries = entries])
<1> DEFINE p == [r EXCEPT !.answer = answer, !.turn = turn, !.entries = entries]
<1>1. {"chats", "id", "type", "answer", "turn", "entries"} \subseteq DOMAIN r
  BY DEF NetOK
<1>2. DOMAIN p = DOMAIN r /\ p.chats = r.chats /\ p.type = r.type /\ p.entries = entries
  BY <1>1
<1> HIDE DEF p
<1>3. Alike(r, p)
  BY <1>1, <1>2 DEF Alike, NetOK, EntryType
<1> QED BY <1>3 DEF p

\* An answer arrives: its request is on the net no more.
Got(c, r) ==
    [c EXCEPT !.net = {[q EXCEPT !.turn = IF @ = 0 THEN 0 ELSE @ - 1] : q \in @ \ {r}}]

LEMMA ReceivedOK ==
    ASSUME NEW c, Good(c), NEW r \in c.net,
           NEW N, NEW W, TakenAway({r}, N, W),
           NEW d, d = Got(c, r)
    PROVE  /\ ClientOK(d, N, W) /\ TimerRuns(d) /\ d.calls = c.calls /\ d.called = c.called
           /\ \A h : /\ StateOf(d, h) = StateOf(c, h) /\ Held(d, h) = Held(c, h)
                     /\ Waits(d, h) <=> Waits(c, h)
<1> DEFINE n == {Turned(q) : q \in c.net \ {r}}
           L == {r}
<1>1. \A q \in c.net : NetOK(q)
  BY DEF Good, ClientOK, Shape
<1>2. \A q \in c.net : Alike(q, Turned(q))
  BY <1>1, TurnedIsAlike
<1>3. SameRequests(c.net \ L, n)
  BY <1>2 DEF SameRequests
<1>4. d = [c EXCEPT !.net = n]
  BY DEF Turned, Got
<1>5. L \subseteq c.net
  OBVIOUS
<1>6. TakenAway(L, N, W)
  OBVIOUS
<1> HIDE DEF n, L
<1> QED BY <1>3, <1>4, <1>5, <1>6, NetChangedOK

\* A read is answered: nothing but its own row keeps the chat's state.
LEMMA ReadAnswerOK ==
    ASSUME IsFiniteSet(Chat), NEW c, Good(c), NEW r \in c.net, r.type = "ReadInbox",
           NEW d, d = ReadAnswer(Got(c, r), r)
    PROVE  Proper(c, d)
<1> DEFINE h == r.chat
           id == r.id
           till == r.till
           N == {r}
           b == Got(c, r)
           e == ReadDone(b, h, till)
           f == SendReadRequests(e)
<1>1. d = FinishSentRequest(f, h, id)
  BY DEF ReadAnswer
<1>2. h \in Chat /\ till \in Nat
  BY DEF Good, ClientOK, Shape, NetOK
<1>3. /\ About(N, h) = N /\ Without(N, id) = {} /\ \A g : g # h => About(N, g) = {}
      /\ \A q \in N : q.type # "History"
  BY DEF About, Without
<1>4. TakenAway({r}, N, {})
  BY DEF TakenAway
<1> HIDE DEF N, id
<1>5. /\ ClientOK(b, N, {}) /\ b.calls = c.calls /\ b.called = c.called
      /\ \A g : Held(b, g) = Held(c, g) /\ (Waits(b, g) <=> Waits(c, g))
  <2> HIDE DEF b
  <2> QED BY <1>4, ReceivedOK DEF b
<1> HIDE DEF b
<1>6. Shape(b) /\ ChatOK(b, h, N, {})
  BY <1>2, <1>3, <1>5 DEF ClientOK
<1>7. r \in N
  BY DEF N
<1>8. HasState(b, h)
  BY <1>6, <1>7, AnsweredEnds DEF Ending
<1>9. /\ Shape(e) /\ At(b, e, h) /\ Calm(b, e) /\ Tweaked(b, e, h)
  <2>1. /\ StateOf(b, h).when # "none" => StateOf(b, h).will # 0
        /\ StateOf(b, h).will # 0 => StateOf(b, h).will > StateOf(b, h).sentTill
        /\ h \in DOMAIN b.dialog => h \notin DOMAIN b.pending
    BY <1>6 DEF ChatOK, ChatBase, Sorted, WaitsOK
  <2> HIDE DEF e, h, till
  <2> QED BY <1>2, <1>6, <1>8, <2>1, ReadDoneOK DEF e
<1> HIDE DEF e, till
<1>10. ClientOK(e, N, {})
  <2>1. ChatOK(e, h, N, {})
    BY <1>6, <1>9, TweakedKeeps
  <2> HIDE DEF h
  <2> QED BY <1>2, <1>3, <1>5, <1>6, <1>9, <2>1, AtKeeps DEF ClientOK
<1>11. ClientOK(f, N, {}) /\ Keeps(e, f) /\ TimerRuns(f)
  <2> HIDE DEF f
  <2> QED BY <1>3, <1>10, SendReadRequestsOK DEF f
<1> HIDE DEF f
<1>12. ClientOK(d, {}, {}) /\ Calm(f, d) /\ TimerRuns(d)
  <2>1. Shape(f) /\ \A g \in Chat : ChatOK(f, g, About(N, g), {})
    BY <1>11 DEF ClientOK
  <2>2. Ending(f, h, id, {}, {})
    <3>1. ChatOK(f, h, N, {})
      BY <1>2, <1>3, <2>1
    <3> QED BY <1>3, <1>7, <3>1, AnsweredEnds DEF id
  <2>3. About({}, h) = {} /\ \A g \in Chat \ {h} : ChatOK(f, g, About({}, g), {})
    BY <1>3, <2>1, AboutNone
  <2>4. Ending(f, h, id, About({}, h), {})
    BY <2>2, <2>3
  <2> HIDE DEF h
  <2> QED BY <1>1, <1>2, <1>11, <2>1, <2>3, <2>4, FinishedOK
<1>13. /\ d.called = c.called /\ d.calls = c.calls
       /\ \A g \in Chat : Held(d, g) = Held(c, g) /\ (Waits(c, g) => Waits(d, g))
  BY <1>5, <1>9, <1>11, <1>12 DEF Calm, Keeps
<1> QED BY <1>12, <1>13, SteadyIsProper

\* The answer with the entries of chats: the wait for them is over, but for
\* those whose entry was postponed meanwhile.
LEMMA EntryAnsweredOK ==
    ASSUME IsFiniteSet(Chat), NEW c, Good(c), NEW r \in c.net, r.type = "Entry",
           r.answer # "none", NEW d, d = EntryAnswer(Got(c, r), r)
    PROVE  Proper(c, d)
<1> DEFINE b == Got(c, r)
           W == r.chats
<1>1. W \subseteq Chat /\ \A h \in W : EntryType(r.entries[h])
  <2>1. NetOK(r)
    BY DEF Good, ClientOK, Shape
  <2> QED BY <2>1 DEF NetOK, EntryType
<1>2. TakenAway({r}, {}, W)
  BY <1>1 DEF TakenAway
<1>3. /\ ClientOK(b, {}, W) /\ TimerRuns(b) /\ b.calls = c.calls /\ b.called = c.called
      /\ \A g : StateOf(b, g) = StateOf(c, g) /\ Held(b, g) = Held(c, g)
  <2> HIDE DEF b, W
  <2> QED BY <1>2, ReceivedOK DEF b
<1> HIDE DEF b
<1>4. CalledOnce(b, {})
  BY <1>3 DEF Good, CalledOnce
<1>5. Takes(b, d, {}, W \ W)
  BY <1>1, <1>3, EntryAnswerOK DEF b
<1>6. W \ W = {}
  OBVIOUS
<1> HIDE DEF W
<1>7. Takes(b, d, {}, {})
  BY <1>5, <1>6
<1>8. Good(d)
  BY <1>3, <1>4, <1>7 DEF Good, Takes
<1>9. \A h \in Chat : StateOf(c, h).entry => Waits(d, h)
  BY <1>3, <1>7, EntryIsWaited DEF Takes
<1> QED BY <1>8, <1>9 DEF Proper

\* The user makes a request.
LEMMA UserRequestOK ==
    ASSUME NEW c, Good(c), NEW h \in Chat, NEW type \in Types,
           NEW d, d = SendRequest(c, h, type, 0)
    PROVE  Proper(c, d)
<1> DEFINE till == 0
<1>1. type \in RowTypes /\ type # "ReadInbox" /\ till \in Nat
  BY DEF Types, RowTypes
<1>2. d = SendRequest(c, h, type, till)
  OBVIOUS
<1> HIDE DEF till
<1>3. Shape(c) /\ ChatOK(c, h, {}, {}) /\ About({}, h) = {}
  BY AboutNone DEF Good, ClientOK
<1>4. /\ Shape(d) /\ At(c, d, h) /\ Calm(c, d) /\ ChatOK(d, h, {}, {})
      /\ StateOf(d, h).will = StateOf(c, h).will
  BY <1>1, <1>2, <1>3, SendRequestOK
<1>5. ClientOK(d, {}, {})
  BY <1>3, <1>4, AtKeeps DEF Good, ClientOK
<1>6. TimerRuns(d)
  BY <1>3, <1>4, AtIsSteady DEF Good
<1> QED BY <1>4, <1>5, <1>6, SteadyIsProper DEF Calm

\* What waits for the entry of a chat to read it.
LEMMA ReadWholeOK ==
    ASSUME NEW c, Good(c), NEW h \in Chat,
           NEW d, d = RequestDialogEntry([c EXCEPT !.calls = @ + 1], h, {c.calls + 1})
    PROVE  Proper(c, d)
<1> DEFINE n == c.calls + 1
           X == {n}
           b == [c EXCEPT !.calls = n]
<1>1. d = RequestDialogEntry(b, h, X)
  OBVIOUS
<1>2. ClientOK(c, {}, {}) /\ TimerRuns(c) /\ Fields \subseteq DOMAIN c /\ c.calls \in Nat
  BY DEF Good, ClientOK, Shape
<1>3. n \in Nat /\ 1..n = (1..c.calls) \union X /\ n \notin 1..c.calls
  BY <1>2
<1> HIDE DEF n
<1>4. SameChats(c, b) /\ b.timer = c.timer /\ b.called = c.called /\ b.calls = n
  BY <1>2 DEF SameChats, Fields
<1> HIDE DEF b, X
<1>5. /\ ClientOK(b, {}, {}) /\ TimerRuns(b)
      /\ \A g : /\ StateOf(b, g) = StateOf(c, g) /\ Held(b, g) = Held(c, g)
                /\ Waits(b, g) <=> Waits(c, g)
  BY <1>2, <1>4, SameChatsOK DEF TimerRuns
<1>6. /\ ClientOK(d, {}, {}) /\ Requested(b, d, h, X) /\ TimerRuns(d)
      /\ \A g \in Chat : Waits(b, g) => Waits(d, g)
  BY <1>1, <1>5, RequestEntryOK
<1>7. CalledOnce(d, {})
  <2>1. /\ Held(d, h) = Held(c, h) \union X /\ \A g : g # h => Held(d, g) = Held(c, g)
        /\ d.called = c.called /\ d.calls = n
    BY <1>4, <1>5, <1>6 DEF Requested
  <2>2. /\ c.called \union {} \union UNION {Held(c, g) : g \in Chat} = 1..c.calls
        /\ \A g \in Chat : Held(c, g) \intersect ({} \union c.called) = {}
        /\ \A f, g \in Chat : f # g => Held(c, f) \intersect Held(c, g) = {}
    BY DEF Good, CalledOnce
  <2> DEFINE H == UNION {Held(c, g) : g \in Chat}
             I == UNION {Held(d, g) : g \in Chat}
             C == 1..c.calls
             D == 1..d.calls
  <2>3. I = H \union X
    <3>1. ASSUME NEW x \in I PROVE x \in H \union X
      BY <2>1
    <3>2. ASSUME NEW x \in H PROVE x \in I
      BY <2>1
    <3>3. \A x \in X : x \in I
      BY <2>1
    <3> QED BY <3>1, <3>2, <3>3
  <2>4. X \intersect c.called = {} /\ \A g \in Chat : X \intersect Held(c, g) = {}
    BY <1>3, <2>2 DEF X
  <2>5. d.called \union {} \union I = D
    <3>1. D = C \union X
      BY <1>3, <2>1
    <3>2. c.called \union {} \union H = C /\ d.called = c.called
      BY <2>1, <2>2
    <3> HIDE DEF C, D, H, I
    <3> QED BY <2>3, <3>1, <3>2
  <2>6. \A g \in Chat : Held(d, g) \intersect ({} \union d.called) = {}
    BY <2>1, <2>2, <2>4
  <2>7. \A f, g \in Chat : f # g => Held(d, f) \intersect Held(d, g) = {}
    BY ZenonT(40), <2>1, <2>2, <2>4
  <2> QED BY <2>5, <2>6, <2>7 DEF CalledOnce
<1>8. \A g \in Chat : StateOf(c, g).entry => Waits(d, g)
  BY <1>2, <1>5, <1>6, EntryIsWaited
<1>9. d.calls \in Nat
  BY <1>3, <1>4, <1>6 DEF Requested
<1> QED BY <1>6, <1>7, <1>8, <1>9 DEF Good, Proper

\* A message comes, which is counted, or its count asked for.
Newer(c, h, top) == [c EXCEPT !.chat[h].last = top]
Counted(c, h, n) == [c EXCEPT !.chat[h] = SetUnreadCount(@, n)]

LEMMA NewMessageOK ==
    ASSUME NEW c, Good(c), NEW h \in Chat, NEW top \in Int,
           NEW b, b = Newer(c, h, top), NEW n \in Int,
           NEW d, d \in {RequestDialogEntry(b, h, {}), b, Counted(b, h, n)}
    PROVE  Proper(c, d)
<1> DEFINE t == c.chat[h]
           x == [t EXCEPT !.last = top]
           y == SetUnreadCount(b.chat[h], n)
<1>1. ClientOK(c, {}, {}) /\ TimerRuns(c) /\ t \in ChatType /\ Fields \subseteq DOMAIN c
  BY DEF Good, ClientOK, Shape
<1>2. x \in ChatType /\ x.before = t.before /\ t.before \in Nat
  BY <1>1 DEF ChatType
<1>3. b = [c EXCEPT !.chat[h] = x]
  BY <1>1 DEF Fields, ClientOK, Shape, Newer
<1>4. Raised(t, x)
  BY <1>2 DEF Raised
<1> HIDE DEF x
<1>5. ReadsOn(c, b, {}, {})
  BY <1>1, <1>3, <1>4, ChatRaisedOK DEF ReadsOn
<1>6. ReadsOn(b, d, {}, {})
  <2>1. CASE d = RequestDialogEntry(b, h, {})
    BY <1>5, <2>1, RequestEntryOK DEF ReadsOn
  <2>2. CASE d = b
    BY <1>5, <2>2 DEF ReadsOn, Keeps
  <2>3. CASE d = Counted(b, h, n)
    <3>1. d = [b EXCEPT !.chat[h] = y]
      BY <2>3 DEF Counted
    <3>2. b.chat[h] \in ChatType
      BY <1>5 DEF ReadsOn, ClientOK, Shape
    <3>3. Raised(b.chat[h], y)
      BY <3>2, UnreadRaises
    <3> HIDE DEF y
    <3> QED BY <1>5, <3>1, <3>3, ChatRaisedOK DEF ReadsOn
  <2> QED BY <2>1, <2>2, <2>3
<1>7. ReadsOn(c, d, {}, {})
  BY <1>5, <1>6, ReadsOnTwice DEF ReadsOn
<1> QED BY <1>7, ReadsOnIsProper

LEMMA EntryIsTyped ==
    ASSUME server \in ServerType, NEW h \in Chat
    PROVE  EntryType(Entry(h))
<1> DEFINE n == Cardinality(Incoming(server[h].read + 1, server[h].top))
<1>1. server[h].top \in Nat /\ server[h].read \in Nat
  BY DEF ServerType
<1>2. n \in Nat
  <2> DEFINE a == server[h].read + 1
             b == server[h].top
  <2>1. a \in Int /\ b \in Int
    BY <1>1
  <2> HIDE DEF a, b
  <2>2. Cardinality(Incoming(a, b)) \in Nat
    BY <2>1, CountIsNat
  <2> QED BY <2>2 DEF a, b
<1> HIDE DEF n
<1>3. Entry(h) = [top |-> server[h].top, read |-> server[h].read, unread |-> n]
  BY DEF Entry, n
<1> QED BY <1>1, <1>2, <1>3 DEF EntryType

LEMMA ChatsAreFinite ==
    ASSUME scene \in Scenes
    PROVE  IsFiniteSet(Chat)
  BY BoundsAssumption DEF Chat

\* A step of a chat's.
LEMMA ChatStep ==
    ASSUME IInv, NEW h \in Chat,
           \/ \E type \in UserTypes : UserRequests(h, type)
           \/ \E id \in DOMAIN client.byRequest : CancelRequest(h, id)
           \/ \E till \in 1..scene.top : ViewMessage(h, till) \/ ReadElsewhere(h, till)
           \/ ViewNewMessage(h) \/ ReadInbox(h) \/ CloseChat(h)
           \/ EntryIsNeeded(h) \/ DeadlinePasses(h)
           \/ NewMessage(h) \/ DialogsLoaded(h)
    PROVE  Proper(client, client')
<1> USE DEF Do
<1>1. /\ Good(client) /\ ClientOK(client, {}, {}) /\ TimerRuns(client)
      /\ client.chat[h] \in ChatType /\ server \in ServerType /\ IsFiniteSet(Chat)
  BY ChatsAreFinite DEF IInv, Good, ClientOK, Shape
<1>2. client.chat[h].last \in Int /\ server[h].top \in Nat /\ server[h].read \in Nat
  BY <1>1 DEF ChatType, ServerType
<1>3. \A till \in Int : \A force : ReadsOn(client, ReadInboxTill(client, h, till, force), {}, {})
  <2>1. \A r \in {} : r.type # "History"
    OBVIOUS
  <2> QED BY <1>1, <2>1, ReadInboxTillOK
<1>4. ASSUME NEW type \in UserTypes, UserRequests(h, type) PROVE Proper(client, client')
  <2>1. type \in Types
    BY BoundsAssumption
  <2> QED BY <1>1, <1>4, <2>1, UserRequestOK DEF UserRequests
<1>5. ASSUME NEW id, CancelRequest(h, id) PROVE Proper(client, client')
  BY <1>1, <1>5, CancelOK DEF CancelRequest
<1>6. ASSUME NEW till \in 1..scene.top, ViewMessage(h, till) PROVE Proper(client, client')
  <2>1. till \in Int
    OBVIOUS
  <2>2. ReadsOn(client, client', {}, {})
    BY <1>3, <1>6, <2>1 DEF ViewMessage
  <2> QED BY <1>1, <2>2, ReadsOnIsProper
<1>7. ASSUME NEW upTo \in 1..scene.top, ReadElsewhere(h, upTo) PROVE Proper(client, client')
  <2> DEFINE still == Cardinality(Incoming(upTo + 1, server[h].top))
  <2>1. upTo \in Int /\ upTo + 1 \in Int
    OBVIOUS
  <2>2. still \in Int
    <3> DEFINE a == upTo + 1
               b == server[h].top
    <3>1. a \in Int /\ b \in Int
      BY <1>2
    <3> HIDE DEF a, b
    <3>2. Cardinality(Incoming(a, b)) \in Nat
      BY <3>1, CountIsNat
    <3>3. Cardinality(Incoming(a, b)) \in Int
      BY <3>2
    <3> QED BY <3>3 DEF a, b
  <2>3. client' = client \/ client' = InboxRead(client, h, upTo, still)
    BY <1>7 DEF ReadElsewhere
  <2> HIDE DEF still
  <2>4. ReadsOn(client, client', {}, {})
    BY <1>1, <2>1, <2>2, <2>3, InboxReadOK DEF ReadsOn, Keeps
  <2> QED BY <1>1, <2>4, ReadsOnIsProper
<1>8. ASSUME ViewNewMessage(h) PROVE Proper(client, client')
  <2>1. ReadsOn(client, client', {}, {})
    BY <1>2, <1>3, <1>8 DEF ViewNewMessage
  <2> QED BY <1>1, <2>1, ReadsOnIsProper
<1>9. ASSUME ReadInbox(h) PROVE Proper(client, client')
  <2>1. CASE client.chat[h].last # Unknown
    <3>1. ReadsOn(client, client', {}, {})
      BY <1>2, <1>3, <1>9, <2>1 DEF ReadInbox
    <3> QED BY <1>1, <3>1, ReadsOnIsProper
  <2>2. CASE client.chat[h].last = Unknown
    BY <1>1, <1>9, <2>2, ReadWholeOK DEF ReadInbox
  <2> QED BY <2>1, <2>2
<1>10. ASSUME CloseChat(h) PROVE Proper(client, client')
  <2>1. \A r \in {} : r.type # "History"
    OBVIOUS
  <2>2. ReadsOn(client, client', {}, {})
    BY <1>1, <1>10, <2>1, SendPendingReadInboxOK DEF CloseChat
  <2> QED BY <1>1, <2>2, ReadsOnIsProper
<1>11. ASSUME EntryIsNeeded(h) PROVE Proper(client, client')
  <2>1. client' = RequestDialogEntry(client, h, {})
    BY <1>11 DEF EntryIsNeeded
  <2>2. ReadsOn(client, client', {}, {})
    BY <1>1, <2>1, RequestEntryOK DEF ReadsOn
  <2> QED BY <1>1, <2>2, ReadsOnIsProper
<1>12. ASSUME DeadlinePasses(h) PROVE Proper(client, client')
  <2> DEFINE w == "passed"
  <2>1. HasState(client, h) /\ client' = [client EXCEPT !.states[h].when = w]
    BY <1>12 DEF DeadlinePasses
  <2>2. StateOf(client, h).will # 0
    <3>1. StateOf(client, h).when = "later"
      BY <1>12 DEF DeadlinePasses, StateOf
    <3> QED BY <1>1, <3>1 DEF ClientOK, ChatOK, ChatBase, Sorted
  <2>3. w \in {"none", "later", "passed"}
    OBVIOUS
  <2> HIDE DEF w
  <2>4. ReadsOn(client, client', {}, {})
    <3>1. /\ ClientOK(client', {}, {}) /\ Keeps(client, client') /\ client'.timer = client.timer
          /\ WillRead(client') = WillRead(client)
      BY <1>1, <2>1, <2>2, <2>3, WhenOK
    <3> QED BY <1>1, <3>1 DEF ReadsOn, TimerRuns
  <2> QED BY <1>1, <2>4, ReadsOnIsProper
<1>13. ASSUME NewMessage(h) PROVE Proper(client, client')
  <2> DEFINE top == server[h].top + 1
             n == client.chat[h].unread + 1
             b == Newer(client, h, top)
  <2>1. top \in Int /\ n \in Int
    BY <1>1, <1>2 DEF ChatType
  <2>2. client' = IF client.chat[h].unread = Unknown THEN RequestDialogEntry(b, h, {})
                  ELSE IF top \in Out THEN b ELSE Counted(b, h, n)
    BY <1>13, Zenon DEF NewMessage, Newer, Counted
  <2> HIDE DEF b, n, top
  <2>3. client' \in {RequestDialogEntry(b, h, {}), b, Counted(b, h, n)}
    BY <2>2
  <2>4. b = Newer(client, h, top)
    BY DEF b
  <2> QED BY <1>1, <2>1, <2>3, <2>4, NewMessageOK
<1>14. ASSUME DialogsLoaded(h) PROVE Proper(client, client')
  <2> DEFINE entry == Entry(h)
  <2>1. EntryType(entry)
    BY <1>1, EntryIsTyped
  <2>2. client' = ApplyDialog(client, h, entry)
    BY <1>14 DEF DialogsLoaded
  <2>3. (\A r \in {} : r.type # "History") /\ {} \subseteq {} \union {h}
    OBVIOUS
  <2> HIDE DEF entry
  <2>4. Takes(client, client', {}, {})
    BY <1>1, <2>1, <2>2, <2>3, ApplyDialogOK
  <2> QED BY <1>1, <2>4, TakesIsProper
<1> QED BY <1>4, <1>5, <1>6, <1>7, <1>8, <1>9, <1>10, <1>11, <1>12, <1>13, <1>14

\* A step of the main loop's, and ghost mode.
LEMMA LoopStep ==
    ASSUME IInv, SetGhost \/ RunPostponedCall \/ ReadTimer \/ Crash
    PROVE  Proper(client, client')
<1> USE DEF Do
<1>1. /\ Good(client) /\ ClientOK(client, {}, {}) /\ TimerRuns(client)
      /\ Fields \subseteq DOMAIN client /\ IsFiniteSet(Chat)
  BY ChatsAreFinite DEF IInv, Good, ClientOK, Shape
<1>2. ASSUME NEW d, SameChats(client, d), d.timer = client.timer, d.calls = client.calls,
             d.called = client.called
      PROVE  ReadsOn(client, d, {}, {})
  <2>1. /\ ClientOK(d, {}, {}) /\ WillRead(d) = WillRead(client)
        /\ \A h : /\ StateOf(d, h) = StateOf(client, h) /\ Held(d, h) = Held(client, h)
                  /\ Waits(d, h) <=> Waits(client, h)
    BY <1>1, <1>2, SameChatsOK
  <2> QED BY <1>1, <1>2, <2>1 DEF ReadsOn, Keeps, TimerRuns
<1>3. ASSUME SetGhost \/ Crash PROVE Proper(client, client')
  <2>1. /\ SameChats(client, client') /\ client'.timer = client.timer
        /\ client'.calls = client.calls /\ client'.called = client.called
    <3>1. CASE SetGhost
      BY <1>1, <3>1 DEF SetGhost, SameChats, Fields
    <3>2. CASE Crash
      BY <1>1, <3>2 DEF Crash, SameChats, Fields
    <3> QED BY <1>3, <3>1, <3>2
  <2> QED BY <1>1, <1>2, <2>1, ReadsOnIsProper
<1>4. ASSUME RunPostponedCall PROVE Proper(client, client')
  <2>1. client' = SendDialogRequests(Called(client))
    BY <1>4 DEF RunPostponedCall, Called
  <2>2. ReadsOn(client, client', {}, {})
    BY <1>1, <2>1, SendDialogRequestsOK
  <2> QED BY <1>1, <2>2, ReadsOnIsProper
<1>5. ASSUME ReadTimer PROVE Proper(client, client')
  <2> DEFINE b == [client EXCEPT !.timer = FALSE]
  <2>1. client' = SendReadRequests(b)
    BY <1>5 DEF ReadTimer
  <2>2. SameChats(client, b) /\ b.calls = client.calls /\ b.called = client.called
    BY <1>1 DEF SameChats, Fields
  <2> HIDE DEF b
  <2>3. /\ ClientOK(b, {}, {})
        /\ \A h : /\ StateOf(b, h) = StateOf(client, h) /\ Held(b, h) = Held(client, h)
                  /\ Waits(b, h) <=> Waits(client, h)
    BY <1>1, <2>2, SameChatsOK
  <2>4. Keeps(client, b)
    BY <2>2, <2>3 DEF Keeps
  <2>5. \A r \in {} : r.type # "History"
    OBVIOUS
  <2>6. ReadsOn(b, client', {}, {})
    BY <1>1, <2>1, <2>3, <2>5, SendReadRequestsOK DEF ReadsOn
  <2> QED BY <1>1, <2>4, <2>6, ReadsOnTwice, ReadsOnIsProper
<1> QED BY <1>3, <1>4, <1>5

\* A step of the server's, or an answer.
LEMMA NetStep ==
    ASSUME IInv, NEW r \in client.net,
           \/ \E answer \in Answers :
                ServeRead(r, answer) \/ ServeEntry(r, answer) \/ SliceAnswered(r, answer)
           \/ ReadAnswered(r) \/ EntryAnswered(r) \/ RequestAnswered(r) \/ ChannelDeletion(r)
    PROVE  Proper(client, client')
<1>1. Good(client) /\ NetOK(r) /\ server \in ServerType /\ IsFiniteSet(Chat)
  BY ChatsAreFinite DEF IInv, Good, ClientOK, Shape
<1>2. ASSUME NEW answer, ServeRead(r, answer) PROVE Proper(client, client')
  <2> DEFINE p == [r EXCEPT !.answer = answer, !.turn = NextTurn]
  <2>1. client' = [client EXCEPT !.net = (@ \ {r}) \union {p}] /\ r.type = "ReadInbox"
    BY <1>2 DEF ServeRead
  <2>2. Alike(r, p)
    <3> DEFINE turn == NextTurn
    <3> HIDE DEF turn
    <3>1. Alike(r, [r EXCEPT !.answer = answer, !.turn = turn])
      BY <1>1, <2>1, ServedReadIsAlike
    <3> QED BY <3>1 DEF turn
  <2> HIDE DEF p
  <2> QED BY <1>1, <2>1, <2>2, ServedOK
<1>3. ASSUME NEW answer, ServeEntry(r, answer) PROVE Proper(client, client')
  <2> DEFINE entries == [h \in r.chats |-> Entry(h)]
             p == [r EXCEPT !.answer = answer, !.turn = NextTurn, !.entries = entries]
  <2>1. client' = [client EXCEPT !.net = (@ \ {r}) \union {p}] /\ r.type = "Entry"
    BY <1>3 DEF ServeEntry, Do
  <2>2. r.chats \subseteq Chat
    BY <1>1, <2>1 DEF NetOK
  <2>3. \A h \in r.chats : EntryType(entries[h])
    <3>1. \A h \in r.chats : EntryType(Entry(h))
      BY <1>1, <2>2, EntryIsTyped
    <3> QED BY <3>1
  <2> HIDE DEF entries
  <2>4. Alike(r, p)
    <3> DEFINE turn == NextTurn
    <3> HIDE DEF turn
    <3>1. Alike(r, [r EXCEPT !.answer = answer, !.turn = turn, !.entries = entries])
      BY <1>1, <2>1, <2>3, ServedEntryIsAlike
    <3> QED BY <3>1 DEF turn
  <2> HIDE DEF p
  <2> QED BY <1>1, <2>1, <2>4, ServedOK
<1>4. ASSUME NEW answer, SliceAnswered(r, answer) PROVE Proper(client, client')
  <2> DEFINE top == server[r.chat].top
             b == Sliced(client, r.chat, top, answer)
  <2>1. r.type # "Entry" /\ client' = FinishSentRequest(b, r.chat, r.id)
    BY <1>4 DEF SliceAnswered, SliceAnswer, Do, Sliced
  <2>2. top \in Int
    BY <1>1, <2>1 DEF NetOK, ServerType
  <2> HIDE DEF top
  <2> QED BY <1>1, <2>1, <2>2, SliceAnswerOK
<1>5. ASSUME ReadAnswered(r) PROVE Proper(client, client')
  BY <1>1, <1>5, ReadAnswerOK DEF ReadAnswered, Do, Received, Got
<1>6. ASSUME EntryAnswered(r) PROVE Proper(client, client')
  BY <1>1, <1>6, EntryAnsweredOK DEF EntryAnswered, Do, Received, Got
<1>7. ASSUME RequestAnswered(r) PROVE Proper(client, client')
  BY <1>1, <1>7, RequestEndsOK DEF RequestAnswered, Do
<1>8. ASSUME ChannelDeletion(r) PROVE Proper(client, client')
  <2> DEFINE answer == "ignored"
             p == [r EXCEPT !.answer = answer]
  <2>1. client' = [client EXCEPT !.net = (@ \ {r}) \union {p}] /\ r.type = "Delete"
    BY <1>8 DEF ChannelDeletion, Do
  <2>2. {"chat", "id", "type", "till", "answer", "turn"} \subseteq DOMAIN r
    BY <1>1, <2>1 DEF NetOK
  <2> HIDE DEF answer
  <2>3. /\ DOMAIN p = DOMAIN r /\ p.chat = r.chat /\ p.type = r.type
        /\ p.id = r.id /\ p.till = r.till
    BY <2>2
  <2> HIDE DEF p
  <2>4. Alike(r, p)
    BY <1>1, <2>1, <2>2, <2>3 DEF Alike, NetOK
  <2> QED BY <1>1, <2>1, <2>4, ServedOK
<1> QED BY <1>2, <1>3, <1>4, <1>5, <1>6, <1>7, <1>8

LEMMA ServerStep ==
    ASSUME IInv, Next
    PROVE  server' \in ServerType
<1>1. server \in ServerType
  BY DEF IInv
<1>2. CASE server' = server
  BY <1>1, <1>2
<1>3. ASSUME NEW r \in client.net, NEW answer, ServeRead(r, answer)
      PROVE  server' \in ServerType
  <2> DEFINE m == Max({server[r.chat].read, r.till})
  <2>1. r.chat \in Chat /\ r.till \in Nat
    BY <1>3 DEF ServeRead, IInv, Good, ClientOK, Shape, NetOK
  <2>2. m \in Nat
    <3>1. server[r.chat].read \in Nat
      BY <1>1, <2>1 DEF ServerType
    <3>2. m = IF server[r.chat].read >= r.till THEN server[r.chat].read ELSE r.till
      BY <2>1, <3>1, MaxTwo
    <3> QED BY <2>1, <3>1, <3>2
  <2>3. server' = server \/ server' = [server EXCEPT ![r.chat].read = m]
    BY <1>3 DEF ServeRead
  <2> HIDE DEF m
  <2> QED BY <1>1, <2>1, <2>2, <2>3 DEF ServerType
<1>4. ASSUME NEW h \in Chat, NewMessage(h) PROVE server' \in ServerType
  BY <1>1, <1>4 DEF NewMessage, ServerType
<1>5. ASSUME NEW h \in Chat, NEW upTo \in 1..scene.top, ReadElsewhere(h, upTo)
      PROVE  server' \in ServerType
  BY <1>1, <1>5 DEF ReadElsewhere, ServerType
<1> QED BY <1>2, <1>3, <1>4, <1>5
   DEF Next, Do, UserRequests, CancelRequest, ViewMessage, ViewNewMessage, ReadInbox, CloseChat,
       EntryIsNeeded, SetGhost, RunPostponedCall, DeadlinePasses, ReadTimer, Crash, ServeEntry,
       ReadAnswered, EntryAnswered, SliceAnswered, RequestAnswered, ChannelDeletion,
       DialogsLoaded

LEMMA NextOK ==
    ASSUME IInv, Next
    PROVE  scene' = scene /\ server' \in ServerType /\ Proper(client, client')
<1>1. scene' = scene
  BY DEF Next, Do, UserRequests, CancelRequest, ViewMessage, ViewNewMessage, ReadInbox, CloseChat,
         EntryIsNeeded, SetGhost, RunPostponedCall, DeadlinePasses, ReadTimer, Crash, ServeRead,
         ServeEntry, ReadAnswered, EntryAnswered, SliceAnswered, RequestAnswered, ChannelDeletion, NewMessage,
         ReadElsewhere, DialogsLoaded
<1>2. Proper(client, client')
  BY ChatStep, LoopStep, NetStep DEF Next
<1> QED BY <1>1, <1>2, ServerStep

LEMMA InitOK ==
    ASSUME Init
    PROVE  IInv
<1>1. PICK ghost : client = [NewClient EXCEPT !.ghost = ghost]
  BY DEF Init
<1>2. scene \in Scenes /\ scene.known \subseteq Chat
  BY BoundsAssumption DEF Init, Chat
<1>3. server \in ServerType
  BY DEF Init, ServerType
<1> DEFINE chat == [h \in Chat |-> IF h \in scene.known THEN KnownChat ELSE NoChat]
<1>4. /\ Fields \subseteq DOMAIN client /\ client.states = <<>> /\ client.byRequest = <<>>
      /\ client.next = 0 /\ client.timer = FALSE /\ client.dialog = <<>> /\ client.pending = <<>>
      /\ client.net = {} /\ client.calls = 0 /\ client.called = {} /\ client.dropped = {}
      /\ client.chat = chat
  BY <1>1 DEF NewClient, Fields
<1>5. chat \in [Chat -> ChatType]
  <2>1. KnownChat \in ChatType /\ NoChat \in ChatType
    BY DEF KnownChat, NoChat, Unknown, ChatType
  <2> QED BY <2>1
<1> HIDE DEF chat
<1>6. DOMAIN <<>> = {}
  OBVIOUS
<1>7. \A h : StateOf(client, h) = NewState /\ Held(client, h) = {}
  BY <1>4, <1>6 DEF StateOf, HasState, Held, CallbacksOf
<1>8. /\ NewState \in StateType /\ NewState.postponed = {} /\ NewState.sent = {}
      /\ ~NewState.entry /\ NewState.will = 0 /\ NewState.sentTill = 0 /\ NewState.when = "none"
  BY DEF NewState, StateType
<1>9. Shape(client)
  <2>1. \A h \in Chat : StateOf(client, h) \in StateType
    BY <1>7, <1>8
  <2> QED BY <1>4, <1>5, <1>6, <2>1 DEF Shape
<1>10. ASSUME NEW h \in Chat PROVE ChatOK(client, h, {}, {})
  <2>1. /\ Sorted(NewState) /\ SlicesWait(NewState) /\ EntryWaits(NewState)
        /\ ~PostponeEntryRequest(NewState)
    BY <1>8 DEF Sorted, SlicesWait, EntryWaits, PostponeHistoryRequest, PostponeEntryRequest, OfType
  <2>2. TableOK(client, h, {})
    <3>1. Table(client, h) = {} /\ Of(client, h) = {} /\ ByRequest(client, h) = {}
      BY <1>4, <1>6, <1>7, <1>8 DEF Table, Of, ByRequest
    <3>2. SlicesKept(client, h)
      BY <1>7, <1>8 DEF SlicesKept
    <3> QED BY <1>7, <1>8, <3>1, <3>2 DEF TableOK, Rows, Ids
  <2>3. ReadsOK(client, h) /\ WaitsOK(client, h, {})
    BY <1>4, <1>6, <1>7, <1>8 DEF ReadsOK, WaitsOK, Of
  <2>4. \A id \in NewState.postponed \union Ids(NewState.sent) : id \in 1..client.next
    BY <1>8 DEF Ids
  <2> QED BY <1>7, <2>1, <2>2, <2>3, <2>4 DEF ChatOK, ChatBase
<1>11. CalledOnce(client, {})
  <2>1. UNION {Held(client, h) : h \in Chat} = {}
    BY <1>7
  <2> QED BY <1>4, <1>7, <2>1 DEF CalledOnce
<1>12. TimerRuns(client)
  BY <1>4, <1>6 DEF TimerRuns, WillRead
<1>13. client.calls \in Nat
  BY <1>4
<1> QED BY <1>2, <1>3, <1>9, <1>10, <1>11, <1>12, <1>13, AboutNone DEF IInv, Good, ClientOK

\* Nothing of the invariant but the chats themselves is about the scene.
LEMMA NextKeeps ==
    ASSUME IInv, [Next]_vars
    PROVE  IInv'
<1>1. CASE UNCHANGED vars
  BY <1>1 DEF vars, IInv, ServerType, Good, ClientOK, Shape, NetOK, CalledOnce, TimerRuns, Chat
<1>2. CASE Next
  <2>1. scene' = scene /\ server' \in ServerType /\ Good(client')
    BY <1>2, NextOK DEF Proper
  <2>2. Chat' = Chat
    BY <2>1 DEF Chat
  <2>3. scene' \in Scenes
    BY <2>1 DEF IInv
  <2>4. (server \in ServerType)'
    BY <2>1, <2>2 DEF ServerType
  <2>5. Good(client)'
    <3>1. \A r : NetOK(r)' <=> NetOK(r)
      BY <2>2 DEF NetOK
    <3>2. Shape(client)'
      BY <2>1, <2>2, <3>1 DEF Good, ClientOK, Shape
    <3>3. (\A h \in Chat : ChatOK(client, h, About({}, h), {}))'
      BY <2>1, <2>2 DEF Good, ClientOK
    <3>4. CalledOnce(client, {})'
      BY <2>1, <2>2 DEF Good, CalledOnce
    <3>5. TimerRuns(client)' /\ client'.calls \in Nat
      BY <2>1 DEF Good
    <3> QED BY <3>2, <3>3, <3>4, <3>5 DEF Good, ClientOK
  <2> QED BY <2>3, <2>4, <2>5 DEF IInv
<1> QED BY <1>1, <1>2

-----------------------------------------------------------------------------
(* What the invariant says of the client.                                    *)

LEMMA ChatIs ==
    ASSUME IInv, NEW h \in Chat
    PROVE  /\ Sorted(StateOf(client, h)) /\ SlicesWait(StateOf(client, h))
           /\ EntryWaits(StateOf(client, h)) /\ TableOK(client, h, {})
           /\ ReadsOK(client, h) /\ WaitsOK(client, h, {})
  BY AboutNone DEF IInv, Good, ClientOK, ChatOK, ChatBase

\* The bookkeeping of requests holds in every reachable state: it is what all
\* the theorems below rest on (data_histories.cpp, whole file).
THEOREM Invariance == Spec => []IInv
<1> QED BY InitOK, NextKeeps, PTL DEF Spec

\* No slice of a chat is on its way while messages of it are being deleted,
\* and none stays postponed when no deletion is left: postponeHistoryRequest()
\* and checkPostponed().
THEOREM SlicesAreExcluded == Spec => []DeletionsExcludeSlices
<1>1. IInv => DeletionsExcludeSlices
  <2> SUFFICES ASSUME IInv, NEW h \in DOMAIN client.states
               PROVE  LET s == client.states[h]
                      IN  /\ PostponeHistoryRequest(s) => OfType(s, {"History"}) = {}
                          /\ s.postponed # {} => PostponeHistoryRequest(s)
    BY DEF DeletionsExcludeSlices
  <2>1. h \in Chat /\ StateOf(client, h) = client.states[h]
    BY DEF IInv, Good, ClientOK, Shape, StateOf, HasState
  <2> QED BY <2>1, ChatIs DEF Sorted, SlicesWait
<1> QED BY <1>1, Invariance, PTL

\* The requests of State::sent are, apart from the reads that ghost mode dropped, the
\* ones the server has to answer and the deletions of channels whose answers nobody
\* takes, and _historyByRequest names those and the postponed ones: sendRequest(),
\* finishSentRequest(), cancelRequest() and deleteAllMessages().
THEOREM RequestsAreInTheTable == Spec => []TableIsTheNet
<1>1. IInv => TableIsTheNet
  <2> SUFFICES ASSUME IInv, NEW h \in Chat
               PROVE  LET s == StateOf(client, h)
                          table == {r \in s.sent : r.id \notin client.dropped}
                          awaited == NetRequests(h) \ Unfinished(h)
                      IN  /\ table = {[id |-> r.id, type |-> r.type] :
                                         r \in awaited \union Unfinished(h)}
                          /\ {id \in DOMAIN client.byRequest : client.byRequest[id] = h} \ client.dropped
                               = s.postponed \union {r.id : r \in table}
    BY DEF TableIsTheNet
  <2>1. Of(client, h) \union {} = NetRequests(h)
    BY DEF Of, NetRequests
  <2>5. (NetRequests(h) \ Unfinished(h)) \union Unfinished(h) = NetRequests(h)
    BY DEF Unfinished
  <2>2. Table(client, h) = Rows(NetRequests(h))
    BY <2>1, ChatIs DEF TableOK
  <2>3. ByRequest(client, h) \ client.dropped = ByRequest(client, h)
    BY DEF IInv, Good, ClientOK, Shape, ByRequest
  <2>4. ByRequest(client, h) = StateOf(client, h).postponed \union Ids(Table(client, h))
    BY ChatIs DEF TableOK
  <2> QED BY <2>2, <2>3, <2>4, <2>5 DEF Table, Rows, RowOf, ByRequest, Ids
<1> QED BY <1>1, Invariance, PTL

\* Whoever waits for a dialog entry has it on its way, and each callback is
\* called once or waits once: requestDialogEntry(), sendDialogRequests() and
\* dialogEntryApplied().
THEOREM EntriesAreComing == Spec => []EntryIsComing
<1>1. IInv => EntryIsComing
  <2> SUFFICES ASSUME IInv PROVE EntryIsComing
    OBVIOUS
  <2>1. /\ DOMAIN client.dialog \subseteq Chat /\ DOMAIN client.pending \subseteq Chat
        /\ DOMAIN client.states \subseteq Chat
        /\ client.pending # <<>> => client.queued
        /\ CalledOnce(client, {})
    BY DEF IInv, Good, ClientOK, Shape
  <2>2. DOMAIN client.dialog \intersect DOMAIN client.pending = {}
    BY <2>1, ChatIs DEF WaitsOK
  <2>3. \A h \in DOMAIN client.dialog :
          \/ StateOf(client, h).entry /\ Busy(h)
          \/ \E r \in Entries(client) : h \in r.chats
    BY <2>1, ChatIs DEF WaitsOK, EntryWaits, Busy, Asked
  <2>4. \A h \in DOMAIN client.states : client.states[h].entry => h \in DOMAIN client.dialog
    BY <2>1, ChatIs DEF WaitsOK, StateOf, HasState
  <2>5. Callbacks = UNION {Held(client, h) : h \in Chat}
    <3> DEFINE H == UNION {Held(client, h) : h \in Chat}
    <3>1. ASSUME NEW x \in Callbacks PROVE x \in H
      BY <2>1 DEF Callbacks, Held, CallbacksOf
    <3>2. ASSUME NEW x \in H PROVE x \in Callbacks
      BY DEF Callbacks, Held, CallbacksOf
    <3> QED BY <3>1, <3>2
  <2>6. client.called \union Callbacks = 1..client.calls
    BY <2>1, <2>5 DEF CalledOnce
  <2>7. client.called \intersect Callbacks = {}
    BY <2>1, <2>5 DEF CalledOnce
  <2> QED BY <2>1, <2>2, <2>3, <2>4, <2>6, <2>7 DEF EntryIsComing
<1> QED BY <1>1, Invariance, PTL

\* The assertions of sendReadRequest() and its `finished' hold, and the timer
\* runs while a read is put off: readInboxTill() and sendReadRequests().
THEOREM ReadsAreOrdered == Spec => []ReadsInOrder
<1>1. IInv => ReadsInOrder
  <2> SUFFICES ASSUME IInv PROVE ReadsInOrder
    OBVIOUS
  <2>1. WillRead(client) # {} => client.timer
    BY DEF IInv, Good, TimerRuns
  <2>2. \A h \in DOMAIN client.states :
          client.states[h].will # 0 => client.states[h].will > client.states[h].sentTill
    <3>1. DOMAIN client.states \subseteq Chat
      BY DEF IInv, Good, ClientOK, Shape
    <3> QED BY <3>1, ChatIs DEF Sorted, StateOf, HasState
  <2>3. ASSUME NEW r \in client.net, r.type = "ReadInbox"
        PROVE  /\ HasState(client, r.chat)
               /\ LET s == client.states[r.chat] IN s.sentTill = 0 \/ s.sentTill >= r.till
    <3> DEFINE h == r.chat
               s == StateOf(client, h)
    <3>1. h \in Chat /\ r \in Of(client, h) /\ r.till \in Nat /\ s.sentTill \in Nat
      BY <2>3 DEF IInv, Good, ClientOK, Shape, NetOK, Of, StateType
    <3>2. RowOf(r) \in Table(client, h)
      <4>1. Table(client, h) = Rows(Of(client, h) \union {})
        BY <3>1, ChatIs DEF TableOK
      <4> QED BY <3>1, <4>1 DEF Rows
    <3>3. HasState(client, h)
      BY <3>2 DEF Table, StateOf, NewState
    <3>4. s.sentTill # 0 => r.till <= s.sentTill
      BY <2>3, <3>1, ChatIs DEF ReadsOK
    <3> QED BY <3>1, <3>3, <3>4 DEF StateOf
  <2> QED BY <2>1, <2>2, <2>3 DEF ReadsInOrder
<1> QED BY <1>1, Invariance, PTL

\* No step ends the wait for the entry of a chat that was asked for while
\* anything but a slice is being done in the chat: the check of
\* postponeRequestDialogEntry in dialogEntryApplied().
THEOREM EntriesWaitForRequests == Spec => EntryWaitsForRequests
<1> DEFINE WaitGoesOn == \A h \in Chat : Waiting(h) /\ ~Waiting(h)' => ~(h \in DOMAIN client.dialog /\ Busy(h))
<1>1. IInv /\ [Next]_vars => [WaitGoesOn]_vars
  <2> SUFFICES ASSUME IInv, Next, NEW h \in Chat, ~Waiting(h)',
                      h \in DOMAIN client.dialog, Busy(h)
               PROVE  FALSE
    OBVIOUS
  <2>1. StateOf(client, h).entry
    BY ChatIs DEF WaitsOK, Busy
  <2>2. Waits(client', h)
    BY <2>1, NextOK DEF Proper
  <2> QED BY <2>2 DEF Waits, Waiting
<1> QED BY <1>1, Invariance, PTL DEF Spec, EntryWaitsForRequests
=============================================================================
