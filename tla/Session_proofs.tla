--------------------------- MODULE Session_proofs ---------------------------
(***************************************************************************)
(* Proofs about Session for every value of its constants: no message of    *)
(* the server is handled twice in a session, a request that has an id goes *)
(* into a container, and a message id stands for one request in every map, *)
(* so that no request is lost on its way between them, as long as          *)
(* _ackedIds still has room for the ids that wait.                         *)
(***************************************************************************)
EXTENDS Session, FiniteSetTheorems, WellFoundedInduction, TLAPS

-----------------------------------------------------------------------------
(* The window of received ids. *)

\* What the window knows of the ids that were accepted: those it has dropped
\* are smaller than all it keeps, and it drops none before it is full.
Window(kept, seen) ==
    /\ IsFiniteSet(kept) /\ kept \subseteq seen /\ seen \subseteq Nat
    /\ \A m \in seen \ kept, n \in kept : m < n
    /\ seen # kept => Cardinality(kept) >= BufferSize

\* An id that fits was not accepted before.
LEMMA FitsIsNew ==
    ASSUME NEW kept, NEW seen, Window(kept, seen), NEW m \in Nat, Fits(kept, m)
    PROVE  m \notin seen
<1>1. CASE Cardinality(kept) < BufferSize
  <2>1. Cardinality(kept) \in Nat /\ BufferSize \in Nat
    BY FS_CardinalityType, BufferSizeAssumption DEF Window
  <2>2. seen = kept
    BY <1>1, <2>1 DEF Window
  <2> QED BY <2>2 DEF Fits
<1>2. CASE \E n \in kept : n < m
  <2>1. PICK n \in kept : n < m
    BY <1>2
  <2>2. n \in Nat
    BY DEF Window
  <2>3. SUFFICES ASSUME m \in seen PROVE FALSE
    OBVIOUS
  <2>4. m < n
    BY <2>3 DEF Fits, Window
  <2> QED BY <2>1, <2>2, <2>4
<1> QED BY <1>1, <1>2 DEF Fits

\* registerMsgId() keeps what the window knows.
LEMMA RegisteredKeeps ==
    ASSUME NEW kept, NEW seen, Window(kept, seen), NEW m \in Nat, Fits(kept, m)
    PROVE  Window(kept \union {m}, seen \union {m})
<1> DEFINE K == kept \union {m}
           S == seen \union {m}
<1>1. IsFiniteSet(K) /\ Cardinality(K) = Cardinality(kept) + 1
  BY FS_AddElement DEF Window, Fits
<1>2. Cardinality(kept) \in Nat /\ BufferSize \in Nat
  BY FS_CardinalityType, BufferSizeAssumption DEF Window
<1>3. K \subseteq S /\ S \subseteq Nat
  BY DEF Window
<1>4. ASSUME NEW a \in S \ K, NEW n \in K PROVE a < n
  <2>1. a \in seen \ kept /\ a \in Nat
    BY <1>4, <1>3
  <2>2. CASE n \in kept
    BY <2>1, <2>2 DEF Window
  <2>3. CASE n = m
    <3>1. ~(Cardinality(kept) < BufferSize)
      BY <2>1, <1>2 DEF Window
    <3>2. PICK k \in kept : k < m
      BY <3>1 DEF Fits
    <3>3. a < k /\ k \in Nat
      BY <2>1 DEF Window
    <3> QED BY <2>1, <2>3, <3>2, <3>3
  <2> QED BY <2>2, <2>3
<1>5. S # K => Cardinality(K) >= BufferSize
  <2>1. S # K => seen # kept
    OBVIOUS
  <2> QED BY <2>1, <1>1, <1>2 DEF Window
<1> QED BY <1>1, <1>3, <1>4, <1>5 DEF Window

\* Every nonempty set of numbers has a least element.
LEMMA LeastNat ==
    ASSUME NEW S, S \subseteq Nat, S # {}
    PROVE  \E l \in S : \A k \in S : l <= k
<1>1. PICK l \in S : \A k \in S : ~(<<k, l>> \in OpToRel(<, Nat))
  BY NatLessThanWellFounded, WFMin
<1>2. \A k \in S : ~(k < l)
  BY <1>1 DEF OpToRel
<1> QED BY <1>2

\* shrink() erases ids below all that it keeps, and keeps BufferSize of them
\* when it erases any.
LEMMA ShrunkKeeps ==
    ASSUME NEW kept, NEW seen, Window(kept, seen)
    PROVE  Window(Shrunk(kept), seen)
<1> DEFINE K == Shrunk(kept)
           Card(m) == Cardinality(Above(kept, m))
<1>1. IsFiniteSet(kept) /\ kept \subseteq Nat /\ BufferSize \in Nat
  BY BufferSizeAssumption DEF Window
<1>2. K \subseteq kept /\ IsFiniteSet(K) /\ Cardinality(K) \in Nat
  <2>1. K \subseteq kept
    BY DEF Shrunk
  <2> QED BY <2>1, <1>1, FS_Subset, FS_CardinalityType
<1>3. ASSUME NEW m \in kept
      PROVE  Above(kept, m) \subseteq kept /\ IsFiniteSet(Above(kept, m)) /\ Card(m) \in Nat
  <2>1. Above(kept, m) \subseteq kept
    BY DEF Above
  <2> QED BY <2>1, <1>1, FS_Subset, FS_CardinalityType
<1>4. \A m \in kept : m \in K <=> Card(m) < BufferSize
  BY DEF Shrunk
<1>5. ASSUME NEW m \in kept, NEW n \in kept, m < n
      PROVE  Card(n) < Card(m)
  <2>0. m \in Nat /\ n \in Nat /\ \A k \in kept : k \in Nat
    BY <1>1
  <2>1. Above(kept, n) \subseteq Above(kept, m)
    <3>1. \A k \in kept : k > n => k > m
      BY <1>5, <2>0
    <3> QED BY <3>1 DEF Above
  <2>2. n \in Above(kept, m) /\ n \notin Above(kept, n)
    BY <1>1, <1>5 DEF Above
  <2>3. Above(kept, n) # Above(kept, m)
    BY <2>2
  <2>4. Card(n) <= Card(m) /\ Card(n) # Card(m)
    BY <1>3, <2>1, <2>3, FS_Subset
  <2>5. Card(n) \in Nat /\ Card(m) \in Nat
    BY <1>3
  <2> HIDE DEF Card
  <2> QED BY <2>4, <2>5
<1>6. ASSUME NEW m \in kept \ K, NEW n \in K PROVE m < n
  <2>1. m \in Nat /\ n \in Nat /\ n \in kept /\ Card(m) \in Nat /\ Card(n) \in Nat
    BY <1>1, <1>2, <1>3
  <2>2. ~(Card(m) < BufferSize) /\ Card(n) < BufferSize
    BY <1>4, <2>1
  <2>3. m # n
    OBVIOUS
  <2>4. ~(n < m)
    <3>1. SUFFICES ASSUME n < m PROVE FALSE
      OBVIOUS
    <3>2. Card(m) < Card(n)
      BY <1>5, <2>1, <3>1
    <3> HIDE DEF Card
    <3> QED BY <1>1, <2>1, <2>2, <3>2
  <2> QED BY <2>1, <2>3, <2>4
<1>7. ASSUME NEW m \in seen \ K, NEW n \in K PROVE m < n
  <2>1. CASE m \in kept
    BY <1>6, <2>1
  <2>2. CASE m \notin kept
    BY <1>2, <2>2 DEF Window
  <2> QED BY <2>1, <2>2
<1>8. ASSUME kept # K PROVE Cardinality(K) >= BufferSize
  <2> DEFINE Sizes == {Card(m) : m \in kept \ K}
  <2>1. Sizes \subseteq Nat /\ Sizes # {}
    BY <1>2, <1>3, <1>8
  <2>2. PICK l \in Sizes : \A k \in Sizes : l <= k
    <3> HIDE DEF Sizes
    <3> QED BY <2>1, LeastNat
  <2>3. PICK e \in kept \ K : l = Card(e)
    BY <2>2
  <2>4. ~(Card(e) < BufferSize) /\ Card(e) \in Nat
    BY <1>3, <1>4, <2>3
  <2>5. ASSUME NEW f \in Above(kept, e) PROVE f \in K
    <3>1. f \in kept /\ e < f
      BY DEF Above
    <3>2. Card(f) < Card(e) /\ Card(f) \in Nat
      BY <1>3, <1>5, <2>3, <3>1
    <3>3. f \notin K => Card(e) <= Card(f)
      BY <2>2, <2>3, <3>1
    <3> HIDE DEF Card
    <3> QED BY <2>4, <3>2, <3>3
  <2>6. Card(e) <= Cardinality(K)
    BY <1>2, <2>5, FS_Subset
  <2> HIDE DEF Card, K
  <2> QED BY <1>1, <1>2, <2>4, <2>6
<1>9. ASSUME seen # K PROVE Cardinality(K) >= BufferSize
  <2>1. CASE kept = K
    BY <1>9, <2>1 DEF Window
  <2> QED BY <1>8, <2>1
<1> QED BY <1>2, <1>7, <1>9 DEF Window

-----------------------------------------------------------------------------
(* What is on its way from the server. *)

\* Messages have numbers, and a new one gets a number.
Numbered(n, s) ==
    /\ "down" \in DOMAIN n /\ {"out", "lastId"} \subseteq DOMAIN s
    /\ s.lastId \in Nat
    /\ n.down \in Seq(Range(n.down))
    /\ \A x \in Range(n.down) \union s.out : x.id \in Nat

\* A sequence is one over its range.
LEMMA SeqOverRange ==
    ASSUME NEW T, NEW f \in Seq(T)
    PROVE  f \in Seq(Range(f)) /\ Range(f) \subseteq T
<1>1. \A i \in 1..Len(f) : f[i] \in T /\ f[i] \in Range(f)
  BY DEF Range
<1>2. Range(f) \subseteq T
  BY <1>1 DEF Range
<1> QED BY <1>1, <1>2

LEMMA SeqWider ==
    ASSUME NEW A, NEW B, NEW f \in Seq(A)
    PROVE  f \in Seq(A \union B)
OBVIOUS

\* The server's messages are numbered from lastId on.
LEMMA MessagesAreNumbered ==
    ASSUME NEW s, s.lastId \in Nat, NEW T, NEW list \in Seq(T)
    PROVE  /\ Messages(s, list) \in Seq(Range(Messages(s, list)))
           /\ \A x \in Range(Messages(s, list)) : x.id \in Nat
<1> DEFINE M == Messages(s, list)
           Message(i) == [id |-> s.lastId + i] ++ list[i]
<1>1. DOMAIN list = 1..Len(list) /\ Len(list) \in Nat
  OBVIOUS
<1>2. M = [i \in 1..Len(list) |-> Message(i)]
  BY <1>1 DEF Messages
<1>3. ASSUME NEW i \in 1..Len(list) PROVE Message(i).id \in Nat
  <2> DEFINE n == s.lastId + i
             r == [id |-> n]
             l == list[i]
  <2>1. n \in Nat
    BY <1>1
  <2>2. (r ++ l).id = n
    <3> HIDE DEF n, l
    <3>1. "id" \in DOMAIN r /\ r.id = n
      OBVIOUS
    <3> HIDE DEF r
    <3> QED BY <3>1 DEF ++
  <2>3. Message(i) = r ++ l
    OBVIOUS
  <2> HIDE DEF n, r, l, Message
  <2> QED BY <2>1, <2>2, <2>3
<1> HIDE DEF M, Message
<1>4. DOMAIN M = 1..Len(list) /\ \A i \in 1..Len(list) : M[i] = Message(i)
  BY <1>2
<1>5. Range(M) = {M[i] : i \in 1..Len(list)}
  BY <1>4 DEF Range
<1>6. M = [i \in 1..Len(list) |-> M[i]] /\ \A i \in 1..Len(list) : M[i] \in Range(M)
  BY <1>2, <1>4, <1>5
<1>7. M \in Seq(Range(M))
  BY <1>1, <1>6
<1>8. \A x \in Range(M) : x.id \in Nat
  BY <1>3, <1>4, <1>5
<1> QED BY <1>7, <1>8 DEF M

\* Sending messages keeps all numbered.
LEMMA SendingNumbered ==
    ASSUME NEW n, NEW s, Numbered(n, s), NEW T, NEW list \in Seq(T),
           NEW m, "down" \in DOMAIN m, m.down = n.down \o Messages(s, list)
    PROVE  Numbered(m, Sending(s, list))
<1> DEFINE M == Messages(s, list)
           d == n.down
           e == Sending(s, list)
<1>1. M \in Seq(Range(M)) /\ \A x \in Range(M) : x.id \in Nat
  BY MessagesAreNumbered DEF Numbered
<1>2. d \in Seq(Range(d)) /\ \A x \in Range(d) \union s.out : x.id \in Nat
  BY DEF Numbered
<1>3. DOMAIN e = DOMAIN s /\ e.lastId = s.lastId + Len(list)
      /\ e.out \subseteq s.out \union Range(M)
  BY DEF Numbered, Sending
<1>4. e.lastId \in Nat
  BY <1>3 DEF Numbered
<1>5. m.down \in Seq(Range(d) \union Range(M))
  <2> HIDE DEF M, d
  <2>1. d \in Seq(Range(d) \union Range(M)) /\ M \in Seq(Range(d) \union Range(M))
    BY <1>1, <1>2
  <2>2. m.down = d \o M
    BY DEF M, d
  <2> HIDE DEF M
  <2> QED BY <2>1, <2>2
<1>6. m.down \in Seq(Range(m.down)) /\ Range(m.down) \subseteq Range(d) \union Range(M)
  <2> DEFINE f == m.down
             R == Range(d) \union Range(M)
  <2>1. f \in Seq(R)
    BY <1>5
  <2> HIDE DEF f, R
  <2>2. f \in Seq(Range(f)) /\ Range(f) \subseteq R
    BY <2>1, SeqOverRange
  <2> QED BY <2>2 DEF f, R
<1> HIDE DEF M, d, e
<1>7. \A x \in Range(m.down) \union e.out : x.id \in Nat
  BY <1>1, <1>2, <1>3, <1>6
<1>8. {"out", "lastId"} \subseteq DOMAIN e
  BY <1>3 DEF Numbered
<1>9. Numbered(m, e)
  BY <1>4, <1>6, <1>7, <1>8 DEF Numbered
<1> QED BY <1>9 DEF e

\* So does a server that has fewer messages to repeat, and a connection that
\* has broken or delivered one.
LEMMA StillNumbered ==
    ASSUME NEW n, NEW s, Numbered(n, s), NEW m, NEW t,
           "down" \in DOMAIN m, m.down \in Seq(Range(n.down) \union s.out),
           DOMAIN t = DOMAIN s, t.lastId = s.lastId, t.out \subseteq s.out
    PROVE  Numbered(m, t)
<1> DEFINE f == m.down
           R == Range(n.down) \union s.out
<1>1. f \in Seq(R)
  OBVIOUS
<1>2. f \in Seq(Range(f)) /\ Range(f) \subseteq R
  <2> HIDE DEF f, R
  <2> QED BY <1>1, SeqOverRange
<1> QED BY <1>2 DEF Numbered

-----------------------------------------------------------------------------
(* HandledOnce. *)

\* What makes HandledOnce inductive.
ReceivedInv == Window(ids, accepted) /\ repeated = FALSE /\ Numbered(net, server)

\* An empty window knows all there is to know.
LEMMA EmptyWindow == Window({}, {})
BY FS_EmptySet DEF Window

LEMMA InitReceived == Init => ReceivedInv
<1> SUFFICES ASSUME Init PROVE ReceivedInv
  OBVIOUS
<1>1. Window(ids, accepted) /\ repeated = FALSE
  BY EmptyWindow DEF Init
<1>2. net.down = <<>> /\ "down" \in DOMAIN net /\ server.out = {} /\ server.lastId = 0
      /\ {"out", "lastId"} \subseteq DOMAIN server
  BY DEF Init, Nothing
<1>3. Range(net.down) = {}
  BY <1>2 DEF Range
<1>4. net.down \in Seq(Range(net.down))
  BY <1>2
<1> QED BY <1>1, <1>2, <1>3, <1>4 DEF ReceivedInv, Numbered

\* Steps that neither receive nor break the connection.
LEMMA UntouchedReceived ==
    ASSUME ReceivedInv, UNCHANGED <<ids, server, accepted, repeated>>,
           DOMAIN net' = DOMAIN net, net'.down = net.down
    PROVE  ReceivedInv'
<1>1. Numbered(net', server')
  BY DEF ReceivedInv, Numbered
<1> QED BY <1>1 DEF ReceivedInv

\* A broken connection has nothing on its way.
LEMMA BrokenNumbered ==
    ASSUME Numbered(net, server), net' = [up |-> Nothing, down |-> Nothing],
           DOMAIN server' = DOMAIN server, server'.lastId = server.lastId,
           server'.out \subseteq server.out
    PROVE  Numbered(net', server')
<1>1. net'.down = <<>> /\ "down" \in DOMAIN net'
  BY DEF Nothing
<1>2. net'.down \in Seq(Range(net.down) \union server.out)
  BY <1>1
<1> QED BY <1>1, <1>2, StillNumbered

LEMMA DisconnectedNumbered ==
    ASSUME Numbered(net, server), Disconnected
    PROVE  Numbered(net', server')
<1>1. DOMAIN server' = DOMAIN server /\ server'.lastId = server.lastId
      /\ server'.out = server.out
  BY DEF Disconnected
<1> QED BY <1>1, BrokenNumbered DEF Disconnected

\* The head of a sequence of messages, and its tail.
LEMMA HeadAndTail ==
    ASSUME NEW n, NEW s, Numbered(n, s), n.down # <<>>
    PROVE  Head(n.down).id \in Nat /\ Tail(n.down) \in Seq(Range(n.down))
<1> DEFINE d == n.down
           R == Range(n.down)
<1>1. d \in Seq(R) /\ d # <<>> /\ \A x \in R : x.id \in Nat
  BY DEF Numbered
<1>2. Head(d) \in R /\ Tail(d) \in Seq(R)
  <2> HIDE DEF d, R
  <2> QED BY <1>1
<1> QED BY <1>1, <1>2

LEMMA HandleReceivedReceived ==
    ASSUME ReceivedInv, HandleReceived
    PROVE  ReceivedInv'
<1> DEFINE m == Head(net.down).id
<1>1. Window(ids, accepted) /\ repeated = FALSE /\ Numbered(net, server)
  BY DEF ReceivedInv
<1>2. net.down # <<>>
  BY DEF HandleReceived, Nothing
<1>3. m \in Nat /\ Tail(net.down) \in Seq(Range(net.down))
  BY <1>1, <1>2, HeadAndTail
<1>4. repeated' = (repeated \/ (Fits(ids, m) /\ m \in accepted))
  BY DEF HandleReceived
<1>5. repeated' = FALSE
  <2>1. Fits(ids, m) => m \notin accepted
    BY <1>1, <1>3, FitsIsNew
  <2> HIDE DEF m
  <2> QED BY <1>1, <1>4, <2>1
<1>6. \/ ids' = {} /\ accepted' = {} /\ Disconnected
      \/ /\ ids' = Shrunk(Registered(ids, m))
         /\ accepted' = accepted \union {y \in {m} : Fits(ids, m)}
         /\ net' = [net EXCEPT !.down = Tail(@)]
         /\ UNCHANGED server
  BY DEF HandleReceived
<1>7. CASE ids' = {} /\ accepted' = {} /\ Disconnected
  BY <1>1, <1>5, <1>7, EmptyWindow, DisconnectedNumbered DEF ReceivedInv
<1>8. CASE /\ ids' = Shrunk(Registered(ids, m))
           /\ accepted' = accepted \union {y \in {m} : Fits(ids, m)}
           /\ net' = [net EXCEPT !.down = Tail(@)]
           /\ UNCHANGED server
  <2>1. Window(Registered(ids, m), accepted')
    <3>1. CASE Fits(ids, m)
      <4>1. accepted' = accepted \union {m} /\ Registered(ids, m) = ids \union {m}
        BY <1>8, <3>1 DEF Registered
      <4> QED BY <1>1, <1>3, <3>1, <4>1, RegisteredKeeps
    <3>2. CASE ~Fits(ids, m)
      <4>1. accepted' = accepted /\ Registered(ids, m) = ids
        BY <1>8, <3>2 DEF Registered
      <4> QED BY <1>1, <4>1
    <3> QED BY <3>1, <3>2
  <2>2. Window(ids', accepted')
    BY <1>8, <2>1, ShrunkKeeps
  <2>3. "down" \in DOMAIN net' /\ net'.down = Tail(net.down)
    BY <1>1, <1>8 DEF Numbered
  <2>4. net'.down \in Seq(Range(net.down) \union server.out)
    BY <1>3, <2>3, SeqWider
  <2>5. Numbered(net', server')
    BY <1>1, <1>8, <2>3, <2>4, StillNumbered
  <2> QED BY <1>5, <2>2, <2>5 DEF ReceivedInv
<1> QED BY <1>6, <1>7, <1>8

\* The server sends a list of messages.
LEMMA SendingReceived ==
    ASSUME ReceivedInv, UNCHANGED <<ids, accepted, repeated>>,
           NEW s, DOMAIN s = DOMAIN server, s.lastId = server.lastId,
           s.out \subseteq server.out,
           NEW T, NEW list \in Seq(T),
           DOMAIN server' = DOMAIN server,
           server'.out = Sending(s, list).out,
           server'.lastId = Sending(s, list).lastId,
           "down" \in DOMAIN net', net'.down = net.down \o Messages(s, list)
    PROVE  ReceivedInv'
<1>1. Numbered(net, server)
  BY DEF ReceivedInv
<1>2. net.down \in Seq(Range(net.down) \union server.out)
  BY <1>1, SeqWider DEF Numbered
<1>3. Numbered(net, s)
  BY <1>1, <1>2, StillNumbered DEF Numbered
<1>4. Numbered(net', Sending(s, list))
  BY <1>3, SendingNumbered
<1>5. Numbered(net', server')
  BY <1>1, <1>4 DEF Numbered
<1> QED BY <1>5 DEF ReceivedInv

\* Sending() changes no other field, and neither does it drop one.
LEMMA SendingFields ==
    ASSUME NEW s, NEW list
    PROVE  DOMAIN Sending(s, list) = DOMAIN s
BY DEF Sending

LEMMA ShortSeq ==
    ASSUME NEW S, NEW x \in S, NEW f, f = <<>> \/ f = <<x>>
    PROVE  f \in Seq(S)
<1>1. CASE f = <<>>
  BY <1>1
<1>2. CASE f = <<x>>
  BY <1>2
<1> QED BY <1>1, <1>2

\* The answers to a packet are a sequence.
LEMMA RepliesAreSequence ==
    ASSUME NEW p, NEW first, NEW acking
    PROVE  \E T : Replies(p, first, acking) \in Seq(T)
<1> DEFINE f  == Created(p, first)
           g  == IF acking THEN Ack(p) ELSE <<>>
           h  == States(p)
           c  == [kind |-> "created", first |-> first]
           a  == [kind |-> "ack", container |-> p.container, ids |-> DOMAIN p.messages]
           st == [kind |-> "states", ids |-> p.states, got |-> p.states \intersect Taken(p).got]
           T  == {c, a, st}
<1>1. f = <<>> \/ f = <<c>>
  BY DEF Created
<1>2. g = <<>> \/ g = <<a>>
  BY DEF Ack
<1>3. h = <<>> \/ h = <<st>>
  BY DEF States
<1>4. c \in T /\ a \in T /\ st \in T
  OBVIOUS
<1>5. Replies(p, first, acking) = f \o g \o h
  BY DEF Replies
<1> HIDE DEF f, g, h, c, a, st, T
<1>6. f \in Seq(T) /\ g \in Seq(T) /\ h \in Seq(T)
  BY <1>1, <1>2, <1>3, <1>4, ShortSeq
<1>7. f \o g \o h \in Seq(T)
  BY <1>6
<1> QED BY <1>5, <1>7

\* A packet changes what is still to be repeated only by its acknowledgements.
LEMMA TakenFields ==
    ASSUME NEW p, {"out", "lastId"} \subseteq DOMAIN server
    PROVE  DOMAIN Taken(p) = DOMAIN server /\ Taken(p).lastId = server.lastId
           /\ Taken(p).out \subseteq server.out
<1> DEFINE s == InSession(p)
<1>1. DOMAIN s = DOMAIN server /\ s.lastId = server.lastId /\ s.out \subseteq server.out
  <2>1. CASE IsNew(p)
    BY <2>1 DEF InSession, NewServer
  <2>2. CASE ~IsNew(p)
    BY <2>2 DEF InSession
  <2> QED BY <2>1, <2>2
<1>2. DOMAIN Taken(p) = DOMAIN s /\ Taken(p).lastId = s.lastId /\ Taken(p).out \subseteq s.out
  <2>1. Taken(p) = [s EXCEPT !.online = TRUE, !.got = @ \union Unseen(p),
                             !.todo = @ ++ Restrict(p.messages, Unseen(p)),
                             !.out = {x \in @ : x.id \notin p.acks}]
    BY DEF Taken
  <2> HIDE DEF s
  <2> QED BY <1>1, <2>1
<1> QED BY <1>1, <1>2

LEMMA ServerReceivesReceived ==
    ASSUME ReceivedInv, ServerReceives
    PROVE  ReceivedInv'
<1> DEFINE p == Head(net.up)
<1>1. UNCHANGED <<ids, accepted, repeated>>
  BY DEF ServerReceives
<1>2. PICK first, acking :
        /\ server' = Sending(Taken(p), Replies(p, first, acking))
        /\ net' = [up |-> Tail(net.up),
                   down |-> net.down \o Messages(Taken(p), Replies(p, first, acking))]
  BY DEF ServerReceives
<1> DEFINE list == Replies(p, first, acking)
           t == Taken(p)
<1>3. PICK T : list \in Seq(T)
  BY RepliesAreSequence
<1>4. DOMAIN t = DOMAIN server /\ t.lastId = server.lastId /\ t.out \subseteq server.out
  BY TakenFields DEF ReceivedInv, Numbered
<1>5. server' = Sending(t, list)
  BY <1>2
<1>6. "down" \in DOMAIN net' /\ net'.down = net.down \o Messages(t, list)
  BY <1>2
<1>7. DOMAIN server' = DOMAIN server
  BY <1>4, <1>5, SendingFields
<1> HIDE DEF t, list
<1> QED BY <1>1, <1>3, <1>4, <1>5, <1>6, <1>7, SendingReceived

LEMMA ServerRefusesReceived ==
    ASSUME ReceivedInv, ServerRefuses
    PROVE  ReceivedInv'
<1> DEFINE p == Head(net.up)
           bad(what) == [kind |-> "bad", what |-> what, container |-> p.container,
                         ids |-> DOMAIN p.messages]
<1>1. UNCHANGED <<ids, accepted, repeated>>
  BY DEF ServerRefuses
<1>2. PICK what : /\ server' = Sending(server, <<bad(what)>>)
                  /\ net' = [up |-> Tail(net.up),
                             down |-> net.down \o Messages(server, <<bad(what)>>)]
  BY DEF ServerRefuses
<1> DEFINE b == bad(what)
           list == <<b>>
<1>3. list \in Seq({b})
  BY ShortSeq
<1>4. server' = Sending(server, list)
  BY <1>2
<1>5. "down" \in DOMAIN net' /\ net'.down = net.down \o Messages(server, list)
  BY <1>2
<1>6. DOMAIN server' = DOMAIN server
  BY <1>4, SendingFields
<1> HIDE DEF list
<1> QED BY <1>1, <1>3, <1>4, <1>5, <1>6, SendingReceived

LEMMA ServerAnswersReceived ==
    ASSUME ReceivedInv, ServerAnswers
    PROVE  ReceivedInv'
<1>1. UNCHANGED <<ids, accepted, repeated>>
  BY DEF ServerAnswers
<1>2. PICK m, ok :
        LET list == <<[kind |-> "result", msgId |-> m, ok |-> ok]>>
            s == [server EXCEPT !.todo = Without(@, {m})]
        IN  server' = Sending(s, list) /\ net' = [net EXCEPT !.down = @ \o Messages(s, list)]
  BY DEF ServerAnswers
<1> DEFINE a    == [kind |-> "result", msgId |-> m, ok |-> ok]
           list == <<a>>
           s    == [server EXCEPT !.todo = Without(@, {m})]
<1>3. list \in Seq({a})
  BY ShortSeq
<1>4. DOMAIN s = DOMAIN server /\ s.lastId = server.lastId /\ s.out = server.out
  OBVIOUS
<1>5. server' = Sending(s, list) /\ net' = [net EXCEPT !.down = @ \o Messages(s, list)]
  BY <1>2
<1> HIDE DEF s, list
<1>6. "down" \in DOMAIN net' /\ net'.down = net.down \o Messages(s, list)
  BY <1>5 DEF ReceivedInv, Numbered
<1>7. DOMAIN server' = DOMAIN server
  BY <1>4, <1>5, SendingFields
<1> QED BY <1>1, <1>3, <1>4, <1>5, <1>6, <1>7, SendingReceived

LEMMA ServerUpdatesReceived ==
    ASSUME ReceivedInv, ServerUpdates
    PROVE  ReceivedInv'
<1> DEFINE u    == [kind |-> "update"]
           list == <<u>>
<1>1. UNCHANGED <<ids, accepted, repeated>>
  BY DEF ServerUpdates
<1>2. list \in Seq({u})
  BY ShortSeq
<1>3. /\ server' = [Sending(server, list) EXCEPT !.updates = @ + 1]
      /\ net' = [net EXCEPT !.down = @ \o Messages(server, list)]
  BY DEF ServerUpdates
<1> HIDE DEF list
<1>4. "down" \in DOMAIN net' /\ net'.down = net.down \o Messages(server, list)
  BY <1>3 DEF ReceivedInv, Numbered
<1>5. DOMAIN server' = DOMAIN Sending(server, list)
      /\ server'.out = Sending(server, list).out
      /\ server'.lastId = Sending(server, list).lastId
  BY <1>3
<1>6. DOMAIN server' = DOMAIN server
  BY <1>5, SendingFields
<1> QED BY <1>1, <1>2, <1>4, <1>5, <1>6, SendingReceived

LEMMA ServerRepeatsReceived ==
    ASSUME ReceivedInv, ServerRepeats
    PROVE  ReceivedInv'
<1>1. UNCHANGED <<ids, accepted, repeated>>
  BY DEF ServerRepeats
<1>2. Numbered(net, server)
  BY DEF ReceivedInv
<1>3. PICK x \in server.out :
        /\ server' = [server EXCEPT !.sent = @ \union {x.id}]
        /\ net' = [net EXCEPT !.down = Append(@, x)]
  BY DEF ServerRepeats
<1>4. "down" \in DOMAIN net' /\ net'.down = Append(net.down, x)
  BY <1>2, <1>3 DEF Numbered
<1>5. net'.down \in Seq(Range(net.down) \union server.out)
  <2> DEFINE R == Range(net.down) \union server.out
             d == net.down
  <2>1. d \in Seq(R) /\ x \in R
    BY <1>2, SeqWider DEF Numbered
  <2>2. Append(d, x) \in Seq(R)
    <3> HIDE DEF d, R
    <3> QED BY <2>1
  <2> QED BY <1>4, <2>2
<1>6. DOMAIN server' = DOMAIN server /\ server'.lastId = server.lastId
      /\ server'.out = server.out
  BY <1>3
<1>7. Numbered(net', server')
  BY <1>2, <1>4, <1>5, <1>6, StillNumbered
<1> QED BY <1>1, <1>7 DEF ReceivedInv

LEMMA ServerForgetsReceived ==
    ASSUME ReceivedInv, ServerForgets
    PROVE  ReceivedInv'
<1>1. DOMAIN server' = DOMAIN server /\ server'.lastId = server.lastId
      /\ server'.out \subseteq server.out
  BY DEF ServerForgets, NewServer, ReceivedInv, Numbered
<1>2. Numbered(net', server')
  BY <1>1, BrokenNumbered DEF ServerForgets, ReceivedInv
<1> QED BY <1>2 DEF ServerForgets, ReceivedInv

\* Each step keeps ReceivedInv.
LEMMA NextReceived == ReceivedInv /\ [Next]_vars => ReceivedInv'
<1> SUFFICES ASSUME ReceivedInv, [Next]_vars PROVE ReceivedInv'
  OBVIOUS
<1>1. CASE MainNext
  <2>1. CASE StopAndStart
    BY <2>1, EmptyWindow, DisconnectedNumbered DEF StopAndStart, ReceivedInv
  <2>2. CASE \/ SendRequest \/ ProcessReply \/ CheckDelayedRequests
             \/ Cancel \/ CancelToSend \/ CancelHaveSent
    <3>1. UNCHANGED <<ids, net, server, accepted, repeated>>
      BY <2>2 DEF SendRequest, ProcessReply, CheckDelayedRequests, Cancel,
                  CancelToSend, CancelHaveSent
    <3> QED BY <3>1, UntouchedReceived
  <2> QED BY <1>1, <2>1, <2>2 DEF MainNext
<1>2. CASE PrivateNext
  <2>1. CASE HandleReceived
    BY <2>1, HandleReceivedReceived
  <2>2. CASE ConnectionBreaks
    BY <2>2, DisconnectedNumbered DEF ConnectionBreaks, ReceivedInv
  <2>3. CASE \/ Connect \/ SaltArrives \/ FinishResend \/ SendSingle
             \/ CheckSentRequests \/ ClearOldContainers
    <3>1. UNCHANGED <<ids, net, server, accepted, repeated>>
      BY <2>3 DEF Connect, SaltArrives, FinishResend, SendSingle,
                  CheckSentRequests, ClearOldContainers
    <3> QED BY <3>1, UntouchedReceived
  <2>4. CASE FinishSingle \/ SendContainer \/ SendService
    <3>1. PICK q : net' = [net EXCEPT !.up = Append(@, q)]
      BY <2>4 DEF FinishSingle, SendContainer, SendService
    <3>2. UNCHANGED <<ids, server, accepted, repeated>>
      BY <2>4 DEF FinishSingle, SendContainer, SendService
    <3>3. DOMAIN net' = DOMAIN net /\ net'.down = net.down
      BY <3>1
    <3> QED BY <3>2, <3>3, UntouchedReceived
  <2> QED BY <1>2, <2>1, <2>2, <2>3, <2>4 DEF PrivateNext
<1>3. CASE ServerNext
  BY <1>3, ServerReceivesReceived, ServerRefusesReceived, ServerAnswersReceived,
     ServerUpdatesReceived, ServerRepeatsReceived, ServerForgetsReceived DEF ServerNext
<1>4. CASE UNCHANGED vars
  <2>1. UNCHANGED <<ids, net, server, accepted, repeated>>
    BY <1>4 DEF vars
  <2> QED BY <2>1, UntouchedReceived
<1> QED BY <1>1, <1>2, <1>3, <1>4 DEF Next

THEOREM ReceivedIsInvariant == Spec => []ReceivedInv
BY InitReceived, NextReceived, PTL DEF Spec

\* No message of the server is handled twice in a session, whatever it
\* repeats, in whichever order messages come, and for every size of the
\* window of received ids.
THEOREM NoneHandledTwice == Spec => []HandledOnce
<1>1. ReceivedInv => HandledOnce
  BY DEF ReceivedInv, HandledOnce
<1> QED BY <1>1, ReceivedIsInvariant, PTL

-----------------------------------------------------------------------------
(* NumberedIsForced. *)

ForcedIn(c) ==
    /\ {"toSend", "msgId", "forced"} \subseteq DOMAIN c
    /\ Request \subseteq DOMAIN c.msgId
    /\ \A r \in Request : r \in c.toSend /\ c.msgId[r] # None => r \in c.forced

\* d may have less to send than c.
Fewer(c, d) ==
    /\ DOMAIN d = DOMAIN c /\ d.msgId = c.msgId /\ d.forced = c.forced
    /\ d.toSend \subseteq c.toSend

LEMMA FewerForced ==
    ASSUME NEW c, ForcedIn(c), NEW d, Fewer(c, d)
    PROVE  ForcedIn(d)
BY DEF ForcedIn, Fewer

LEMMA FewerTransitive ==
    ASSUME NEW c, NEW d, NEW e, Fewer(c, d), Fewer(d, e)
    PROVE  Fewer(c, e)
BY DEF Fewer

LEMMA FewerReflexive == ASSUME NEW c PROVE Fewer(c, c)
BY DEF Fewer

\* What the acknowledgement of requests does to toSend.
LEMMA RequestsAckedFewer ==
    ASSUME NEW c, NEW ms, NEW byResponse
    PROVE  Fewer(c, RequestsAcked(c, ms, byResponse))
<1> DEFINE d == RequestsAcked(c, ms, byResponse)
<1>1. PICK h, r, s, a : d = [c EXCEPT !.haveSent = h, !.resending = r,
                                      !.toSend = @ \ s, !.acked = a]
  BY DEF RequestsAcked
<1> HIDE DEF d
<1>2. DOMAIN d = DOMAIN c /\ d.msgId = c.msgId /\ d.forced = c.forced
  BY <1>1
<1>3. d.toSend \subseteq c.toSend
  BY <1>1
<1>4. Fewer(c, d)
  BY <1>2, <1>3 DEF Fewer
<1> QED BY <1>4 DEF d

\* Resending takes requests out of haveSent, the receiving of answers out of
\* the connection; neither touches what is to be sent.
LEMMA ResendFewer ==
    ASSUME NEW c, NEW ms
    PROVE  /\ Fewer(c, Resend(c, ms)) /\ Fewer(c, ResendAll(c))
           /\ Fewer(c, ResendContainer(c, ms))
<1>1. ASSUME NEW d, NEW k PROVE Fewer(d, Resend(d, k))
  BY DEF Resend, Fewer
<1>2. Fewer(c, ResendAll(c))
  BY <1>1 DEF ResendAll
<1>3. Fewer(c, ResendContainer(c, ms))
  <2> DEFINE d == [c EXCEPT !.containers = @ \ {ms}]
  <2>1. Fewer(c, d)
    BY DEF Fewer
  <2>2. Fewer(d, Resend(d, ms))
    BY <1>1
  <2>3. ResendContainer(c, ms) = Resend(d, ms)
    BY DEF ResendContainer
  <2> HIDE DEF d
  <2> QED BY <2>1, <2>2, <2>3, FewerTransitive
<1> QED BY <1>1, <1>2, <1>3

LEMMA PushFewer ==
    ASSUME NEW c, NEW r, NEW ok
    PROVE  Fewer(c, Push(c, r, ok))
BY DEF Push, Fewer

LEMMA RestartFewer ==
    ASSUME NEW c
    PROVE  Fewer(c, Restart(c))
<1> DEFINE d == [c EXCEPT !.state = "off"]
<1>1. Fewer(c, d)
  BY DEF Fewer
<1>2. CASE c.reset
  <2>1. Restart(c) = [ChangeSessionId(d) EXCEPT !.reset = FALSE]
    BY <1>2 DEF Restart
  <2> HIDE DEF d
  <2>2. Fewer(d, [ChangeSessionId(d) EXCEPT !.reset = FALSE])
    BY DEF ChangeSessionId, Fewer
  <2> QED BY <1>1, <2>1, <2>2, FewerTransitive
<1>3. CASE ~c.reset
  BY <1>1, <1>3 DEF Restart
<1> QED BY <1>2, <1>3

\* The handlers of what the server sends.
LEMMA HandleFewer ==
    ASSUME NEW c, NEW x
    PROVE  Fewer(c, Handle(c, x))
<1>1. Fewer(c, HandleResult(c, x))
  <2> DEFINE d == RequestsAcked(c, {x.msgId}, TRUE)
             r == WasSent(d, x.msgId)
  <2>1. Fewer(c, d)
    BY RequestsAckedFewer
  <2>2. HandleResult(c, x) = IF r # None THEN Push(d, r, x.ok) ELSE d
    BY DEF HandleResult
  <2>3. Fewer(d, Push(d, r, x.ok))
    BY PushFewer
  <2> HIDE DEF d, r
  <2> QED BY <2>1, <2>2, <2>3, FewerTransitive
<1>2. Fewer(c, HandleAck(c, x))
  <2>1. CASE x.container /\ x.ids \in c.containers
    <3> DEFINE d == [c EXCEPT !.containers = @ \ {x.ids}]
    <3>1. Fewer(c, d)
      BY DEF Fewer
    <3>2. HandleAck(c, x) = RequestsAcked(d, x.ids, FALSE)
      BY <2>1 DEF HandleAck, ContainerAcked
    <3> HIDE DEF d
    <3> QED BY <3>1, <3>2, RequestsAckedFewer, FewerTransitive
  <2>2. CASE x.container /\ x.ids \notin c.containers
    BY <2>2, FewerReflexive DEF HandleAck, ContainerAcked
  <2>3. CASE ~x.container
    BY <2>3, RequestsAckedFewer DEF HandleAck
  <2> QED BY <2>1, <2>2, <2>3
<1>3. Fewer(c, HandleStates(c, x))
  <2> DEFINE d     == [c EXCEPT !.stateReqs = @ \ {x.ids}]
             lost  == (x.ids \ x.got) \intersect DOMAIN d.haveSent
             acked == {m \in x.got \intersect x.ids :
                         m \in DOMAIN d.haveSent \/ m \in DOMAIN d.resending}
             e     == RequestsAcked(d, acked, FALSE)
  <2>1. HandleStates(c, x) = IF x.ids \in c.stateReqs THEN Resend(e, lost) ELSE c
    BY DEF HandleStates
  <2>2. Fewer(c, d)
    BY DEF Fewer
  <2> HIDE DEF d, lost, acked
  <2>3. Fewer(d, e) /\ Fewer(e, Resend(e, lost))
    BY RequestsAckedFewer, ResendFewer
  <2> HIDE DEF e
  <2> QED BY <2>1, <2>2, <2>3, FewerTransitive, FewerReflexive
<1>4. Fewer(c, HandleCreated(c, x))
  BY ResendFewer DEF HandleCreated
<1>5. Fewer(c, HandleBad(c, x))
  <2> DEFINE r == WasSent(c, CHOOSE m \in x.ids : TRUE)
  <2>1. \/ HandleBad(c, x) = c
        \/ HandleBad(c, x) = ResendContainer(c, x.ids)
        \/ HandleBad(c, x) = Resend(c, x.ids)
        \/ HandleBad(c, x) = [c EXCEPT !.reset = TRUE]
        \/ HandleBad(c, x) = Push(c, r, FALSE)
    BY DEF HandleBad
  <2>2. Fewer(c, [c EXCEPT !.reset = TRUE])
    BY DEF Fewer
  <2>3. Fewer(c, Push(c, r, FALSE))
    BY PushFewer
  <2> HIDE DEF r
  <2> QED BY <2>1, <2>2, <2>3, ResendFewer, FewerReflexive
<1>6. \/ Handle(c, x) = HandleResult(c, x) \/ Handle(c, x) = HandleAck(c, x)
      \/ Handle(c, x) = HandleBad(c, x) \/ Handle(c, x) = HandleStates(c, x)
      \/ Handle(c, x) = HandleCreated(c, x) \/ Handle(c, x) = c
  BY DEF Handle
<1> QED BY <1>1, <1>2, <1>3, <1>4, <1>5, <1>6, FewerReflexive

LEMMA HandleReceivedFewer ==
    ASSUME HandleReceived
    PROVE  Fewer(client, client')
<1> DEFINE x == Head(net.down)
           success == Fits(ids, x.id)
           tooOld == ~success /\ x.id \notin ids
           c == IF NeedsAck(x) THEN [client EXCEPT !.ackData = @ \union {x.id}] ELSE client
           d == IF success THEN Handle(c, x) ELSE [c EXCEPT !.reset = tooOld]
<1>1. client' = IF d.reset THEN Restart(d) ELSE d
  BY DEF HandleReceived
<1>2. Fewer(client, c)
  BY DEF Fewer
<1> HIDE DEF c, x
<1>3. Fewer(c, Handle(c, x))
  BY HandleFewer
<1>4. Fewer(c, [c EXCEPT !.reset = tooOld])
  BY DEF Fewer
<1>5. Fewer(c, d)
  <2> HIDE DEF tooOld
  <2> QED BY <1>3, <1>4
<1> HIDE DEF d
<1>6. Fewer(d, Restart(d)) /\ Fewer(d, d)
  BY RestartFewer, FewerReflexive
<1>7. Fewer(d, client')
  BY <1>1, <1>6
<1> QED BY <1>2, <1>5, <1>7, FewerTransitive

\* A request that is prepared gets its id; the others keep theirs.
LEMMA PrepareToSendFields ==
    ASSUME NEW c, ForcedIn(c), NEW S, NEW forceNewMsgId
    PROVE  LET d == PrepareToSend(c, S, forceNewMsgId)
           IN  /\ DOMAIN d = DOMAIN c /\ d.toSend = c.toSend /\ d.forced = c.forced
               /\ DOMAIN c.msgId \subseteq DOMAIN d.msgId
               /\ \A r \in DOMAIN c.msgId : r \notin S => d.msgId[r] = c.msgId[r]
<1> DEFINE d == PrepareToSend(c, S, forceNewMsgId)
           fresh == Fresh(c, S, forceNewMsgId)
           id(r) == c.lastId + Cardinality({q \in fresh : q <= r})
           news == [r \in fresh |-> id(r)]
<1>1. PICK l, re, a, h, k : d = [c EXCEPT !.lastId = l, !.msgId = news ++ @,
                                   !.resending = re, !.acked = a, !.haveSent = h,
                                   !.containers = k]
  BY DEF PrepareToSend
<1>2. DOMAIN news \subseteq S
  BY DEF Fresh
<1> HIDE DEF d, news
<1>3. DOMAIN d = DOMAIN c /\ d.toSend = c.toSend /\ d.forced = c.forced
  BY <1>1
<1>4. d.msgId = news ++ c.msgId
  BY <1>1 DEF ForcedIn
<1> DEFINE f == d.msgId
           g == c.msgId
<1>5. f = news ++ g
  BY <1>4
<1> HIDE DEF f, g
<1>6. DOMAIN g \subseteq DOMAIN f /\ \A r \in DOMAIN g : r \notin S => f[r] = g[r]
  BY <1>2, <1>5 DEF ++
<1> QED BY <1>3, <1>6 DEF d, f, g

\* A new SessionPrivate has what is to be sent from SessionData.
LEMMA NewPrivateKeeps ==
    ASSUME NEW c, {"toSend", "msgId", "forced"} \subseteq DOMAIN c
    PROVE  LET d == NewPrivate ++ c
           IN  /\ {"toSend", "msgId", "forced"} \subseteq DOMAIN d
               /\ d.toSend = c.toSend /\ d.msgId = c.msgId /\ d.forced = c.forced
<1> DEFINE n == NewPrivate
           d == n ++ c
<1>1. "toSend" \notin DOMAIN n /\ "msgId" \notin DOMAIN n /\ "forced" \notin DOMAIN n
  BY DEF NewPrivate
<1> HIDE DEF n
<1>2. DOMAIN d = DOMAIN n \union DOMAIN c
  BY DEF ++
<1>3. ASSUME NEW f \in DOMAIN c, f \notin DOMAIN n PROVE d[f] = c[f]
  BY <1>3 DEF ++
<1> HIDE DEF d
<1> QED BY <1>1, <1>2, <1>3 DEF d, n

LEMMA InitForced == Init => ForcedIn(client)
<1> SUFFICES ASSUME Init PROVE ForcedIn(client)
  OBVIOUS
<1> DEFINE d == [session  |-> 1,
                 toSend   |-> {}, haveSent |-> Nothing, received |-> Nothing,
                 msgId    |-> [r \in Request |-> None],
                 forced   |-> {},
                 lastId   |-> 0,
                 since    |-> 0]
<1>1. client = NewPrivate ++ d
  BY DEF Init
<1>2. {"toSend", "msgId", "forced"} \subseteq DOMAIN d /\ d.toSend = {}
      /\ DOMAIN d.msgId = Request
  OBVIOUS
<1> HIDE DEF d
<1>3. {"toSend", "msgId", "forced"} \subseteq DOMAIN client
      /\ client.toSend = {} /\ DOMAIN client.msgId = Request
  BY <1>1, <1>2, NewPrivateKeeps
<1> QED BY <1>3 DEF ForcedIn

LEMMA StopAndStartForced ==
    ASSUME ForcedIn(client), StopAndStart
    PROVE  ForcedIn(client')
<1> DEFINE d == [client EXCEPT !.session = @ + 1, !.since = client.lastId]
<1>1. client' = NewPrivate ++ d
  BY DEF StopAndStart
<1>2. Fewer(client, d)
  BY DEF Fewer
<1> HIDE DEF d
<1>3. ForcedIn(d)
  BY <1>2, FewerForced
<1> QED BY <1>1, <1>3, NewPrivateKeeps DEF ForcedIn

\* A request that is prepared anew has no id.
LEMMA SendPreparedForced ==
    ASSUME NEW c, ForcedIn(c), NEW r
    PROVE  ForcedIn(SendPrepared(c, r))
<1> DEFINE d == SendPrepared(c, r)
           m == [c.msgId EXCEPT ![r] = None]
<1>1. /\ DOMAIN d = DOMAIN c /\ d.forced = c.forced
      /\ d.toSend = c.toSend \union {r}
      /\ d.msgId = m
  BY DEF SendPrepared, ForcedIn
<1>2. DOMAIN m = DOMAIN c.msgId
  OBVIOUS
<1>3. ASSUME NEW q \in Request, q \in d.toSend, d.msgId[q] # None PROVE q \in d.forced
  <2>1. q \in DOMAIN c.msgId
    BY DEF ForcedIn
  <2>2. m[q] # None
    BY <1>1, <1>3
  <2>3. q # r /\ c.msgId[q] # None
    BY <2>1, <2>2
  <2> QED BY <1>1, <1>3, <2>3 DEF ForcedIn
<1> HIDE DEF d, m
<1>4. ForcedIn(d)
  BY <1>1, <1>2, <1>3 DEF ForcedIn
<1> QED BY <1>4 DEF d

\* resend() forces what it puts into toSend.
LEMMA PutMovingForced ==
    ASSUME NEW c, ForcedIn(c)
    PROVE  ForcedIn(PutMoving(c))
<1> DEFINE d == PutMoving(c)
<1>1. PICK m, re, S : d = [c EXCEPT !.moving = m, !.resending = re,
                             !.toSend = @ \union S, !.forced = @ \union S]
  BY DEF PutMoving
<1> HIDE DEF d
<1>2. /\ DOMAIN d = DOMAIN c /\ d.msgId = c.msgId
      /\ d.toSend = c.toSend \union S /\ d.forced = c.forced \union S
  BY <1>1 DEF ForcedIn
<1>3. ForcedIn(d)
  BY <1>2 DEF ForcedIn
<1> QED BY <1>3 DEF d

\* What is sent leaves toSend before it gets its id.
LEMMA SentForced ==
    ASSUME NEW c, ForcedIn(c), NEW S, NEW forceNewMsgId
    PROVE  ForcedIn(PrepareToSend([c EXCEPT !.toSend = @ \ S], S, forceNewMsgId))
<1> DEFINE d == [c EXCEPT !.toSend = @ \ S]
           e == PrepareToSend(d, S, forceNewMsgId)
<1>1. Fewer(c, d) /\ d.toSend = c.toSend \ S
  BY DEF Fewer, ForcedIn
<1> HIDE DEF d
<1>2. ForcedIn(d)
  BY <1>1, FewerForced
<1>3. /\ DOMAIN e = DOMAIN d /\ e.toSend = d.toSend /\ e.forced = d.forced
      /\ DOMAIN d.msgId \subseteq DOMAIN e.msgId
      /\ \A r \in DOMAIN d.msgId : r \notin S => e.msgId[r] = d.msgId[r]
  BY <1>2, PrepareToSendFields
<1> HIDE DEF e
<1>4. ASSUME NEW r \in Request, r \in e.toSend, e.msgId[r] # None PROVE r \in e.forced
  <2>1. r \notin S /\ r \in d.toSend
    BY <1>1, <1>3, <1>4
  <2>2. r \in DOMAIN d.msgId
    BY <1>2 DEF ForcedIn
  <2>3. d.msgId[r] # None
    BY <1>3, <1>4, <2>1, <2>2
  <2> QED BY <1>2, <1>3, <2>1, <2>3 DEF ForcedIn
<1>5. ForcedIn(e)
  BY <1>2, <1>3, <1>4 DEF ForcedIn
<1> QED BY <1>5 DEF d, e

LEMMA ServedFewer == ASSUME NEW c PROVE Fewer(c, Served(c))
BY DEF Served, Fewer

LEMMA MainNextForced ==
    ASSUME ForcedIn(client), MainNext
    PROVE  ForcedIn(client')
<1>1. CASE SendRequest
  BY <1>1, SendPreparedForced DEF SendRequest
<1>2. CASE ProcessReply
  <2>1. Fewer(client, client')
    BY <1>2 DEF ProcessReply, Fewer
  <2> QED BY <2>1, FewerForced
<1>3. CASE CheckDelayedRequests
  <2>1. PICK r : client' = SendPrepared(client, r) \/ client' = client
    BY <1>3 DEF CheckDelayedRequests
  <2> QED BY <2>1, SendPreparedForced
<1>4. CASE Cancel
  BY <1>4 DEF Cancel
<1>5. CASE CancelToSend
  <2>1. Fewer(client, client')
    BY <1>5 DEF CancelToSend, Fewer
  <2> QED BY <2>1, FewerForced
<1>6. CASE CancelHaveSent
  <2>1. Fewer(client, client')
    BY <1>6 DEF CancelHaveSent, Fewer
  <2> QED BY <2>1, FewerForced
<1>7. CASE StopAndStart
  BY <1>7, StopAndStartForced
<1> QED BY <1>1, <1>2, <1>3, <1>4, <1>5, <1>6, <1>7 DEF MainNext

LEMMA SendContainerForced ==
    ASSUME ForcedIn(client), SendContainer
    PROVE  ForcedIn(client')
<1>1. PICK S \in Batches :
        LET c == PrepareToSend([client EXCEPT !.toSend = @ \ S], S, ~client.started)
        IN  client' = [Served(c) EXCEPT
              !.haveSent = @ ++ Sent(c, S),
              !.containers = @ \union {DOMAIN Sent(c, S)},
              !.timer = @ \/ S # {}]
  BY DEF SendContainer
<1> DEFINE c == PrepareToSend([client EXCEPT !.toSend = @ \ S], S, ~client.started)
           d == Served(c)
           h == d.haveSent ++ Sent(c, S)
           k == d.containers \union {DOMAIN Sent(c, S)}
<1>2. client' = [d EXCEPT !.haveSent = h, !.containers = k, !.timer = @ \/ S # {}]
  BY <1>1
<1>3. ForcedIn(c)
  BY SentForced
<1> HIDE DEF c, h, k
<1>4. ForcedIn(d)
  BY <1>3, ServedFewer, FewerForced
<1> HIDE DEF d
<1>5. Fewer(d, client')
  BY <1>2 DEF Fewer
<1> QED BY <1>4, <1>5, FewerForced

LEMMA SendSingleForced ==
    ASSUME ForcedIn(client), SendSingle
    PROVE  ForcedIn(client')
<1>1. PICK r \in client.toSend :
        LET c == PrepareToSend([client EXCEPT !.toSend = @ \ {r}], {r}, ~client.started)
        IN  client' = [c EXCEPT !.started = TRUE, !.sending = Sent(c, {r})]
  BY DEF SendSingle
<1> DEFINE c == PrepareToSend([client EXCEPT !.toSend = @ \ {r}], {r}, ~client.started)
           s == Sent(c, {r})
<1>2. client' = [c EXCEPT !.started = TRUE, !.sending = s]
  BY <1>1
<1>3. ForcedIn(c)
  BY SentForced
<1> HIDE DEF c, s
<1>4. Fewer(c, client')
  BY <1>2 DEF Fewer
<1> QED BY <1>3, <1>4, FewerForced

LEMMA PrivateNextForced ==
    ASSUME ForcedIn(client), PrivateNext
    PROVE  ForcedIn(client')
<1>1. CASE Connect
  <2> DEFINE c == IF client.salt THEN ResendAll(client) ELSE client
  <2>1. Fewer(client, c)
    BY ResendFewer, FewerReflexive
  <2>2. \E x, y : client' = [c EXCEPT !.state = x, !.ping = y]
    BY <1>1 DEF Connect
  <2> HIDE DEF c
  <2>3. Fewer(c, client')
    BY <2>2 DEF Fewer
  <2> QED BY <2>1, <2>3, FewerForced
<1>2. CASE SaltArrives
  <2> DEFINE c == ResendAll(client)
  <2>1. Fewer(client, c)
    BY ResendFewer
  <2>2. client' = [c EXCEPT !.salt = TRUE, !.state = "connected"]
    BY <1>2 DEF SaltArrives
  <2> HIDE DEF c
  <2>3. Fewer(c, client')
    BY <2>2 DEF Fewer
  <2> QED BY <2>1, <2>3, FewerForced
<1>3. CASE FinishResend
  BY <1>3, PutMovingForced DEF FinishResend
<1>4. CASE ConnectionBreaks
  BY <1>4, RestartFewer, FewerForced DEF ConnectionBreaks
<1>5. CASE SendSingle
  BY <1>5, SendSingleForced
<1>6. CASE FinishSingle
  <2> DEFINE h == client.haveSent ++ client.sending
  <2>1. client' = [client EXCEPT !.haveSent = h, !.sending = Nothing]
    BY <1>6 DEF FinishSingle
  <2> HIDE DEF h
  <2>2. Fewer(client, client')
    BY <2>1 DEF Fewer
  <2> QED BY <2>2, FewerForced
<1>7. CASE SendContainer
  BY <1>7, SendContainerForced
<1>8. CASE SendService
  BY <1>8, ServedFewer, FewerForced DEF SendService
<1>9. CASE CheckSentRequests
  <2>1. \E x, y : client' = [client EXCEPT !.stateData = x, !.timer = y]
    BY <1>9 DEF CheckSentRequests
  <2>2. Fewer(client, client')
    BY <2>1 DEF Fewer
  <2> QED BY <2>2, FewerForced
<1>10. CASE ClearOldContainers
  BY <1>10, ResendFewer, FewerForced DEF ClearOldContainers
<1>11. CASE HandleReceived
  BY <1>11, HandleReceivedFewer, FewerForced
<1> QED BY <1>1, <1>2, <1>3, <1>4, <1>5, <1>6, <1>7, <1>8, <1>9, <1>10, <1>11
        DEF PrivateNext

LEMMA ServerNextForced ==
    ASSUME ForcedIn(client), ServerNext
    PROVE  ForcedIn(client')
<1>1. CASE ServerForgets
  BY <1>1, RestartFewer, FewerForced DEF ServerForgets
<1>2. CASE \/ ServerReceives \/ ServerRefuses \/ ServerAnswers
           \/ ServerUpdates \/ ServerRepeats
  <2>1. client' = client
    BY <1>2 DEF ServerReceives, ServerRefuses, ServerAnswers, ServerUpdates, ServerRepeats
  <2> QED BY <2>1
<1> QED BY <1>1, <1>2 DEF ServerNext

\* A request that waits to be sent under an id it has already goes into a
\* container: replaceMsgId() never changes the map of sent requests without
\* its lock, whatever the server answers and the user cancels.
THEOREM NumberedGoIntoContainers == Spec => []NumberedIsForced
<1>1. ForcedIn(client) /\ [Next]_vars => ForcedIn(client)'
  <2> SUFFICES ASSUME ForcedIn(client), [Next]_vars PROVE ForcedIn(client')
    OBVIOUS
  <2>1. CASE UNCHANGED vars
    BY <2>1 DEF vars
  <2> QED BY <2>1, MainNextForced, PrivateNextForced, ServerNextForced DEF Next
<1>2. ForcedIn(client) => NumberedIsForced
  BY DEF ForcedIn, NumberedIsForced
<1> QED BY InitForced, <1>1, <1>2, PTL DEF Spec

-----------------------------------------------------------------------------
(* Ids and the requests they stand for.                                      *)

In(f, m, r) == m \in DOMAIN f /\ f[m] = r

\* The message id m stands for the request r.
Named(c, m, r) ==
    \/ In(c.haveSent, m, r) \/ In(c.resending, m, r) \/ In(c.acked, m, r)
    \/ In(c.moving, m, r) \/ In(c.sending, m, r)
    \/ r \in Request /\ m # None /\ c.msgId[r] = m

\* The main thread has read it in cancel().
Cancelled(mn, m, r) ==
    /\ mn.cancelling # Nothing /\ mn.cancelling.request = r
    /\ mn.cancelling.msgId = m /\ m # None

Names(mn, c, m, r) == Named(c, m, r) \/ Cancelled(mn, m, r)

Fields == {"toSend", "haveSent", "received", "msgId", "lastId", "moving", "sending",
           "resending", "acked"}

\* Ids were given by the counter, and each stands for one request.
IdsOK(mn, c) ==
    /\ Fields \subseteq DOMAIN c /\ c.lastId \in Nat /\ DOMAIN c.msgId = Request
    /\ c.received \in Seq(Range(c.received))
    /\ c.toSend \subseteq Request
    /\ \A m, r : Names(mn, c, m, r) => m \in 1..c.lastId /\ r \in Request
    /\ \A m, r, q : Names(mn, c, m, r) /\ Names(mn, c, m, q) => r = q

\* The request is in one of the maps, or answered.
Held(c, r) ==
    \/ r \in c.toSend
    \/ \E m : In(c.haveSent, m, r) \/ In(c.moving, m, r) \/ In(c.sending, m, r)
    \/ \E i \in DOMAIN c.received : c.received[i].request = r

\* d has got what c had of the requests, under their ids; none that waits for
\* its response is lost.
Passes(c, d) ==
    /\ DOMAIN d = DOMAIN c /\ d.lastId = c.lastId /\ d.msgId = c.msgId
    /\ c.received \in Seq(Range(c.received)) => d.received \in Seq(Range(d.received))
    /\ \A r \in d.toSend : r \in c.toSend \/ \E m : Named(c, m, r)
    /\ \A m, r : Named(d, m, r) => Named(c, m, r)
    /\ \A r \in main.handlers : Held(c, r) => Held(d, r)

LEMMA PassesTwice ==
    ASSUME NEW c, NEW d, NEW e, Passes(c, d), Passes(d, e)
    PROVE  Passes(c, e)
<1>1. \A r \in e.toSend : r \in c.toSend \/ \E m : Named(c, m, r)
  BY DEF Passes
<1> QED BY <1>1 DEF Passes

LEMMA PassesSelf == ASSUME NEW c PROVE Passes(c, c)
  BY DEF Passes

\* A step that leaves the fields with requests alone.
LEMMA PassesSame ==
    ASSUME NEW c, NEW d, DOMAIN d = DOMAIN c,
           d.toSend = c.toSend, d.haveSent = c.haveSent, d.received = c.received,
           d.msgId = c.msgId, d.lastId = c.lastId, d.moving = c.moving,
           d.sending = c.sending, d.resending = c.resending, d.acked = c.acked
    PROVE  Passes(c, d)
<1>1. \A m, r : Named(d, m, r) => Named(c, m, r)
  BY DEF Named
<1>2. \A r : Held(c, r) => Held(d, r)
  BY DEF Held
<1> QED BY <1>1, <1>2 DEF Passes

LEMMA PassesKeeps ==
    ASSUME NEW mn, NEW c, NEW d, IdsOK(mn, c), Passes(c, d)
    PROVE  IdsOK(mn, d)
<1>1. \A m, r : Names(mn, d, m, r) => Names(mn, c, m, r)
  BY DEF Passes, Names
<1>2. d.toSend \subseteq Request
  BY DEF Passes, IdsOK, Names
<1> QED BY <1>1, <1>2 DEF Passes, IdsOK

\* Taking a part of a map, and putting two together.
LEMMA InWithout == ASSUME NEW f, NEW S, NEW m, NEW r, In(Without(f, S), m, r) PROVE In(f, m, r)
  BY DEF In, Without, Restrict

LEMMA InBoth ==
    ASSUME NEW f, NEW g, NEW m, NEW r, In(f ++ g, m, r)
    PROVE  In(f, m, r) \/ In(g, m, r)
  BY DEF In, ++

LEMMA InRestrict ==
    ASSUME NEW f, NEW S, S \subseteq DOMAIN f, NEW m, NEW r, In(Restrict(f, S), m, r)
    PROVE  In(f, m, r)
  BY DEF In, Restrict

\* resend(): from haveSent on the way to toSend.
LEMMA ResendPasses ==
    ASSUME NEW c, Fields \subseteq DOMAIN c, NEW ms, c.moving = Nothing
    PROVE  Passes(c, Resend(c, ms))
<1> DEFINE found == ms \intersect DOMAIN c.haveSent
           f == Restrict(c.haveSent, found) ++ c.moving
           g == Without(c.haveSent, found)
           d == Resend(c, ms)
<1>1. d = [c EXCEPT !.moving = f, !.haveSent = g]
  BY DEF Resend
<1>2. \A m, r : In(f, m, r) => In(c.haveSent, m, r) \/ In(c.moving, m, r)
  BY InBoth, InRestrict
<1>3. \A m, r : In(g, m, r) => In(c.haveSent, m, r)
  BY InWithout
<1>4. \A m, r : In(c.haveSent, m, r) => In(f, m, r) \/ In(g, m, r)
  BY DEF In, Without, Restrict, ++
<1>5. \A m, r : ~In(c.moving, m, r)
  BY DEF In, Nothing
<1> HIDE DEF d, f, g
<1>6. /\ DOMAIN d = DOMAIN c /\ d.toSend = c.toSend /\ d.received = c.received
      /\ d.msgId = c.msgId /\ d.lastId = c.lastId /\ d.sending = c.sending
      /\ d.resending = c.resending /\ d.acked = c.acked
      /\ d.moving = f /\ d.haveSent = g
  BY <1>1 DEF Fields
<1>7. \A m, r : Named(d, m, r) => Named(c, m, r)
  BY <1>2, <1>3, <1>6 DEF Named
<1>8. \A r : Held(c, r) => Held(d, r)
  BY <1>4, <1>5, <1>6 DEF Held
<1>9. Passes(c, d)
  BY <1>6, <1>7, <1>8 DEF Passes
<1> QED BY <1>9 DEF d

LEMMA ResendsPass ==
    ASSUME NEW c, Fields \subseteq DOMAIN c, NEW ms, c.moving = Nothing
    PROVE  Passes(c, ResendAll(c)) /\ Passes(c, ResendContainer(c, ms))
<1>1. Passes(c, ResendAll(c))
  BY ResendPasses DEF ResendAll
<1> DEFINE d == [c EXCEPT !.containers = @ \ {ms}]
<1>2. /\ DOMAIN d = DOMAIN c /\ d.toSend = c.toSend /\ d.haveSent = c.haveSent
      /\ d.received = c.received /\ d.msgId = c.msgId /\ d.lastId = c.lastId
      /\ d.moving = c.moving /\ d.sending = c.sending /\ d.resending = c.resending
      /\ d.acked = c.acked
  OBVIOUS
<1>3. ResendContainer(c, ms) = Resend(d, ms)
  BY DEF ResendContainer
<1> HIDE DEF d
<1>4. Passes(c, d)
  BY <1>2, PassesSame
<1>5. Passes(d, Resend(d, ms))
  BY <1>2, ResendPasses
<1> QED BY <1>1, <1>3, <1>4, <1>5, PassesTwice

\* The end of it: from the way to toSend.
LEMMA PutMovingPasses ==
    ASSUME NEW c, Fields \subseteq DOMAIN c
    PROVE  Passes(c, PutMoving(c))
<1> DEFINE f == c.resending ++ c.moving
           S == Range(c.moving)
           d == PutMoving(c)
<1>1. d = [c EXCEPT !.moving = Nothing, !.resending = f, !.toSend = @ \union S,
                    !.forced = @ \union S]
  BY DEF PutMoving
<1>2. \A m, r : In(f, m, r) => In(c.resending, m, r) \/ In(c.moving, m, r)
  BY InBoth
<1>3. \A r : r \in S <=> \E m : In(c.moving, m, r)
  BY DEF In, Range
<1>4. \A m, r : ~In(Nothing, m, r)
  BY DEF In, Nothing
<1> HIDE DEF d, f, S
<1>5. /\ DOMAIN d = DOMAIN c /\ d.toSend = c.toSend \union S /\ d.received = c.received
      /\ d.msgId = c.msgId /\ d.lastId = c.lastId /\ d.sending = c.sending
      /\ d.resending = f /\ d.acked = c.acked
      /\ d.moving = Nothing /\ d.haveSent = c.haveSent
  BY <1>1 DEF Fields
<1>6. \A m, r : Named(d, m, r) => Named(c, m, r)
  BY <1>2, <1>4, <1>5 DEF Named
<1>7. \A r : Held(c, r) => Held(d, r)
  BY <1>3, <1>5 DEF Held
<1>8. \A r \in d.toSend : r \in c.toSend \/ \E m : Named(c, m, r)
  BY <1>3, <1>5 DEF Named
<1>9. Passes(c, d)
  BY <1>5, <1>6, <1>7, <1>8 DEF Passes
<1> QED BY <1>9 DEF d

LEMMA RestartPasses ==
    ASSUME NEW c
    PROVE  Passes(c, Restart(c))
<1> DEFINE d == [c EXCEPT !.state = "off"]
           e == [ChangeSessionId(d) EXCEPT !.reset = FALSE]
<1>1. Passes(c, d)
  <2>1. /\ DOMAIN d = DOMAIN c /\ d.toSend = c.toSend /\ d.haveSent = c.haveSent
        /\ d.received = c.received /\ d.msgId = c.msgId /\ d.lastId = c.lastId
        /\ d.moving = c.moving /\ d.sending = c.sending /\ d.resending = c.resending
        /\ d.acked = c.acked
    OBVIOUS
  <2> HIDE DEF d
  <2> QED BY <2>1, PassesSame
<1>2. Restart(c) = IF c.reset THEN e ELSE d
  BY DEF Restart
<1> HIDE DEF d
<1>3. Passes(d, e)
  <2>1. /\ DOMAIN e = DOMAIN d /\ e.toSend = d.toSend /\ e.haveSent = d.haveSent
        /\ e.received = d.received /\ e.msgId = d.msgId /\ e.lastId = d.lastId
        /\ e.moving = d.moving /\ e.sending = d.sending /\ e.resending = d.resending
        /\ e.acked = d.acked
    BY DEF ChangeSessionId
  <2> HIDE DEF e
  <2> QED BY <2>1, PassesSame
<1> QED BY <1>1, <1>2, <1>3, PassesTwice

\* A response is queued for the main thread.
LEMMA PushPasses ==
    ASSUME NEW c, Fields \subseteq DOMAIN c, c.received \in Seq(Range(c.received)),
           NEW q, NEW ok
    PROVE  Passes(c, Push(c, q, ok)) /\ Held(Push(c, q, ok), q)
<1> DEFINE x == [request |-> q, ok |-> ok]
           f == c.received
           g == Append(f, x)
           d == Push(c, q, ok)
<1>1. d = [c EXCEPT !.received = g]
  BY DEF Push
<1>2. /\ g \in Seq(Range(g)) /\ DOMAIN f \subseteq DOMAIN g
      /\ \A i \in DOMAIN f : g[i] = f[i]
      /\ \E i \in DOMAIN g : g[i] = x
  <2> DEFINE T == Range(f) \union {x}
  <2>1. f \in Seq(T)
    BY SeqWider
  <2> HIDE DEF x, f, T
  <2>2. x \in T
    BY DEF T
  <2>3. g \in Seq(T) /\ Len(g) = Len(f) + 1 /\ g[Len(f) + 1] = x
        /\ \A i \in 1..Len(f) : g[i] = f[i]
    BY <2>1, <2>2
  <2>4. DOMAIN f = 1..Len(f) /\ DOMAIN g = 1..Len(g) /\ Len(f) \in Nat
    BY <2>1, <2>3
  <2>5. g \in Seq(Range(g))
    BY <2>3, SeqOverRange
  <2> HIDE DEF g
  <2> QED BY <2>3, <2>4, <2>5
<1>3. x.request = q
  OBVIOUS
<1> HIDE DEF d, x, g
<1>4. /\ DOMAIN d = DOMAIN c /\ d.toSend = c.toSend /\ d.received = g
      /\ d.msgId = c.msgId /\ d.lastId = c.lastId /\ d.sending = c.sending
      /\ d.resending = c.resending /\ d.acked = c.acked
      /\ d.moving = c.moving /\ d.haveSent = c.haveSent
  BY <1>1 DEF Fields
<1>5. \A m, r : Named(d, m, r) => Named(c, m, r)
  BY <1>4 DEF Named
<1>6. \A r : Held(c, r) => Held(d, r)
  BY <1>2, <1>4 DEF Held
<1>7. Passes(c, d)
  BY <1>2, <1>4, <1>5, <1>6 DEF Passes
<1>8. Held(d, q)
  BY <1>2, <1>3, <1>4 DEF Held
<1> QED BY <1>7, <1>8 DEF d

-----------------------------------------------------------------------------
(* Acknowledgements and responses.                                           *)

\* What requestsAcked() does to the maps.
AckedOf(c, ms, byResponse) == Done(c.haveSent, ms, byResponse)
ResentOf(c, ms, byResponse) == Done(c.resending, ms, byResponse) \ DOMAIN c.haveSent
FoundOf(c, ms, byResponse) == {m \in ResentOf(c, ms, byResponse) : c.resending[m] \in c.toSend}
RequestsOf(f, ms) == {f[m] : m \in ms}
KeptAcked(c, ms, byResponse) ==
    c.acked ++ Restrict(c.haveSent, AckedOf(c, ms, byResponse))
            ++ Restrict(c.resending, FoundOf(c, ms, byResponse))

LEMMA RequestsAckedFields ==
    ASSUME NEW c, Fields \subseteq DOMAIN c, NEW ms, NEW byResponse,
           NEW d, d = RequestsAcked(c, ms, byResponse)
    PROVE  /\ DOMAIN d = DOMAIN c /\ d.received = c.received /\ d.msgId = c.msgId
           /\ d.lastId = c.lastId /\ d.moving = c.moving /\ d.sending = c.sending
           /\ d.haveSent = Without(c.haveSent, AckedOf(c, ms, byResponse))
           /\ d.resending = Without(c.resending, ResentOf(c, ms, byResponse))
           /\ d.toSend = c.toSend \ RequestsOf(c.resending, FoundOf(c, ms, byResponse))
           /\ d.acked = Trimmed(KeptAcked(c, ms, byResponse))
<1> DEFINE f == Without(c.haveSent, AckedOf(c, ms, byResponse))
           g == Without(c.resending, ResentOf(c, ms, byResponse))
           S == RequestsOf(c.resending, FoundOf(c, ms, byResponse))
           a == Trimmed(KeptAcked(c, ms, byResponse))
<1>1. d = [c EXCEPT !.haveSent = f, !.resending = g, !.toSend = @ \ S, !.acked = a]
  BY DEF RequestsAcked, AckedOf, ResentOf, FoundOf, RequestsOf, KeptAcked
<1> HIDE DEF f, g, S, a
<1>2. /\ DOMAIN d = DOMAIN c /\ d.received = c.received /\ d.msgId = c.msgId
      /\ d.lastId = c.lastId /\ d.moving = c.moving /\ d.sending = c.sending
      /\ d.haveSent = f /\ d.resending = g /\ d.toSend = c.toSend \ S /\ d.acked = a
  BY <1>1 DEF Fields
<1> QED BY <1>2 DEF f, g, S, a

\* Of the requests that wait only the one that got its response leaves, from
\* haveSent, or from toSend where it was to be sent again.
LEMMA RequestsAckedHolds ==
    ASSUME NEW c, Fields \subseteq DOMAIN c, NEW ms, NEW byResponse \in BOOLEAN,
           NEW r, r \in main.handlers, Held(c, r)
    PROVE  LET d == RequestsAcked(c, ms, byResponse)
           IN  \/ Held(d, r)
               \/ byResponse /\ \E m \in ms : In(c.haveSent, m, r)
               \/ byResponse /\ r \in c.toSend /\
                     \E m \in ms : In(c.resending, m, r) /\ m \notin DOMAIN c.haveSent
<1> DEFINE d      == RequestsAcked(c, ms, byResponse)
           sent   == AckedOf(c, ms, byResponse)
           found  == FoundOf(c, ms, byResponse)
<1>1. /\ d.received = c.received /\ d.moving = c.moving /\ d.sending = c.sending
      /\ d.haveSent = Without(c.haveSent, sent)
      /\ d.toSend = c.toSend \ RequestsOf(c.resending, found)
  BY RequestsAckedFields
<1> HIDE DEF d
<1>2. ASSUME NEW m, In(c.haveSent, m, r)
      PROVE  Held(d, r) \/ (byResponse /\ m \in ms)
  <2>1. CASE m \in sent
    BY <1>2, <2>1 DEF AckedOf, Done, In, HasHandler
  <2>2. CASE m \notin sent
    <3>1. In(d.haveSent, m, r)
      BY <1>1, <1>2, <2>2 DEF In, Without, Restrict
    <3> QED BY <3>1 DEF Held
  <2> QED BY <2>1, <2>2
<1>3. ASSUME r \in c.toSend, r \notin d.toSend
      PROVE  byResponse /\ \E m \in ms : In(c.resending, m, r) /\ m \notin DOMAIN c.haveSent
  <2>1. PICK m \in found : r = c.resending[m]
    BY <1>1, <1>3 DEF RequestsOf
  <2> QED BY <2>1 DEF FoundOf, ResentOf, Done, In, HasHandler
<1> QED BY <1>1, <1>2, <1>3 DEF Held, d

\* Ids keep what they stand for.
LEMMA RequestsAckedNames ==
    ASSUME NEW c, Fields \subseteq DOMAIN c, NEW ms, NEW byResponse,
           NEW m, NEW r, Named(RequestsAcked(c, ms, byResponse), m, r)
    PROVE  Named(c, m, r)
<1> DEFINE d      == RequestsAcked(c, ms, byResponse)
           sent   == AckedOf(c, ms, byResponse)
           resent == ResentOf(c, ms, byResponse)
           found  == FoundOf(c, ms, byResponse)
           f == KeptAcked(c, ms, byResponse)
<1>1. /\ d.msgId = c.msgId /\ d.moving = c.moving /\ d.sending = c.sending
      /\ d.haveSent = Without(c.haveSent, sent) /\ d.resending = Without(c.resending, resent)
      /\ d.acked = Trimmed(f)
  BY RequestsAckedFields
<1>2. sent \subseteq DOMAIN c.haveSent /\ found \subseteq DOMAIN c.resending
  BY DEF AckedOf, FoundOf, ResentOf, Done
<1>3. In(d.acked, m, r) => In(f, m, r)
  <2>1. Shrunk(DOMAIN f) \subseteq DOMAIN f
    BY DEF Shrunk
  <2> HIDE DEF f, d
  <2> QED BY <1>1, <2>1, InRestrict DEF Trimmed
<1>4. In(f, m, r) => In(c.acked, m, r) \/ In(c.haveSent, m, r) \/ In(c.resending, m, r)
  <2> DEFINE g == Restrict(c.haveSent, sent)
             h == Restrict(c.resending, found)
  <2>1. In(g, m, r) => In(c.haveSent, m, r)
    BY <1>2, InRestrict
  <2>2. In(h, m, r) => In(c.resending, m, r)
    BY <1>2, InRestrict
  <2>3. f = c.acked ++ g ++ h
    BY DEF KeptAcked
  <2> HIDE DEF f, g, h
  <2> QED BY <2>1, <2>2, <2>3, InBoth
<1> HIDE DEF d, f
<1>5. /\ In(d.haveSent, m, r) => In(c.haveSent, m, r)
      /\ In(d.resending, m, r) => In(c.resending, m, r)
  BY <1>1, InWithout
<1> QED BY <1>1, <1>3, <1>4, <1>5 DEF Named, d

\* An acknowledgement takes no request that waits for its response.
LEMMA RequestsAckedPasses ==
    ASSUME NEW c, Fields \subseteq DOMAIN c, NEW ms
    PROVE  Passes(c, RequestsAcked(c, ms, FALSE))
<1> DEFINE no == FALSE
           d == RequestsAcked(c, ms, no)
<1>0. no \in BOOLEAN /\ ~no
  OBVIOUS
<1> HIDE DEF no
<1>1. /\ DOMAIN d = DOMAIN c /\ d.received = c.received /\ d.msgId = c.msgId
      /\ d.lastId = c.lastId
      /\ d.toSend = c.toSend \ RequestsOf(c.resending, FoundOf(c, ms, no))
  BY RequestsAckedFields
<1>2. \A m, r : Named(d, m, r) => Named(c, m, r)
  BY RequestsAckedNames
<1>3. \A r \in main.handlers : Held(c, r) => Held(d, r)
  BY <1>0, RequestsAckedHolds
<1> HIDE DEF d
<1>4. Passes(c, d)
  BY <1>1, <1>2, <1>3 DEF Passes
<1> QED BY <1>4 DEF d, no

\* _ackedIds has room for every id that waits: fewer than BufferSize later
\* ones are in it.
Roomy(c) ==
    \A m \in DOMAIN c.haveSent \union DOMAIN c.resending :
        Cardinality(Above(DOMAIN c.acked, m)) < BufferSize

\* The id of a response is still known after requestsAcked().
LEMMA StillKnown ==
    ASSUME NEW mn, NEW c, IdsOK(mn, c), Roomy(c), NEW k, NEW byResponse,
           k \in AckedOf(c, {k}, byResponse) \union FoundOf(c, {k}, byResponse)
    PROVE  k \in DOMAIN RequestsAcked(c, {k}, byResponse).acked
<1> DEFINE d == RequestsAcked(c, {k}, byResponse)
           f == KeptAcked(c, {k}, byResponse)
<1>1. d.acked = Trimmed(f)
  BY RequestsAckedFields DEF IdsOK
<1>2. /\ AckedOf(c, {k}, byResponse) \subseteq {k} \intersect DOMAIN c.haveSent
      /\ FoundOf(c, {k}, byResponse) \subseteq {k} \intersect DOMAIN c.resending
  BY DEF AckedOf, FoundOf, ResentOf, Done
<1>3. DOMAIN f = DOMAIN c.acked \union {k}
  BY <1>2 DEF KeptAcked, ++, Restrict
<1>4. k \in DOMAIN c.haveSent \union DOMAIN c.resending
  BY <1>2
<1>5. k \in Nat
  <2>1. \E r : Names(mn, c, k, r)
    BY <1>4 DEF Names, Named, In
  <2> QED BY <2>1 DEF IdsOK
<1>6. Above(DOMAIN f, k) = Above(DOMAIN c.acked, k)
  BY <1>3, <1>5 DEF Above
<1>7. k \in Shrunk(DOMAIN f)
  BY <1>3, <1>4, <1>6 DEF Shrunk, Roomy
<1> HIDE DEF d, f
<1>8. k \in DOMAIN d.acked
  BY <1>1, <1>7 DEF Trimmed, Restrict
<1> QED BY <1>8 DEF d

\* rpc_result: the request is found by the id of the response.
LEMMA HandleResultPasses ==
    ASSUME NEW c, IdsOK(main, c), Roomy(c), NEW x
    PROVE  Passes(c, HandleResult(c, x))
<1> DEFINE yes == TRUE
           k == x.msgId
           d == RequestsAcked(c, {k}, yes)
           q == WasSent(d, k)
           e == HandleResult(c, x)
<1>1. e = IF q # None THEN Push(d, q, x.ok) ELSE d
  BY DEF HandleResult
<1>2. yes \in BOOLEAN /\ yes
  OBVIOUS
<1> HIDE DEF e, yes, k
<1>3. /\ DOMAIN d = DOMAIN c /\ d.received = c.received /\ d.msgId = c.msgId
      /\ d.lastId = c.lastId
      /\ d.toSend = c.toSend \ RequestsOf(c.resending, FoundOf(c, {k}, yes))
  BY RequestsAckedFields DEF IdsOK
<1>4. \A m, r : Named(d, m, r) => Named(c, m, r)
  BY RequestsAckedNames DEF IdsOK
<1>5. \A r \in main.handlers : Held(c, r) =>
         \/ Held(d, r) \/ In(c.haveSent, k, r)
         \/ r \in c.toSend /\ In(c.resending, k, r) /\ k \notin DOMAIN c.haveSent
  <2>1. SUFFICES ASSUME NEW r \in main.handlers, Held(c, r)
                 PROVE  \/ Held(d, r) \/ In(c.haveSent, k, r)
                        \/ r \in c.toSend /\ In(c.resending, k, r) /\ k \notin DOMAIN c.haveSent
    OBVIOUS
  <2>2. Fields \subseteq DOMAIN c
    BY DEF IdsOK
  <2> DEFINE ms == {k}
  <2>3. \/ Held(RequestsAcked(c, ms, yes), r)
        \/ yes /\ \E m \in ms : In(c.haveSent, m, r)
        \/ yes /\ r \in c.toSend /\
              \E m \in ms : In(c.resending, m, r) /\ m \notin DOMAIN c.haveSent
    <3> HIDE DEF ms
    <3> QED BY <1>2, <2>1, <2>2, RequestsAckedHolds
  <2> QED BY <2>3
<1>6. ASSUME NEW r, \/ In(c.haveSent, k, r)
                    \/ r \in c.toSend /\ In(c.resending, k, r) /\ k \notin DOMAIN c.haveSent
      PROVE  q = r /\ q # None
  <2>1. k \in AckedOf(c, {k}, yes) \union FoundOf(c, {k}, yes)
    BY <1>2, <1>6 DEF AckedOf, FoundOf, ResentOf, Done, In
  <2>2. k \in DOMAIN d.acked
    BY <2>1, StillKnown
  <2>3. Names(main, c, k, r)
    BY <1>6 DEF Names, Named
  <2> HIDE DEF d
  <2>4. Named(d, k, q)
    BY <2>2 DEF WasSent, Named, In
  <2>5. Names(main, c, k, q)
    BY <1>4, <2>4 DEF Names
  <2>6. q = r /\ r \in Request
    BY <2>3, <2>5 DEF IdsOK
  <2> QED BY <2>6 DEF Request, None
<1> HIDE DEF d, q
<1>7. /\ Fields \subseteq DOMAIN d /\ d.received \in Seq(Range(d.received))
  BY <1>3 DEF IdsOK
<1>8. Passes(d, Push(d, q, x.ok)) /\ Held(Push(d, q, x.ok), q)
  BY <1>7, PushPasses
<1>9. Passes(d, e) /\ (q # None => Held(e, q))
  BY <1>1, <1>8, PassesSelf
<1>10. /\ DOMAIN e = DOMAIN c /\ e.lastId = c.lastId /\ e.msgId = c.msgId
       /\ e.received \in Seq(Range(e.received))
       /\ \A m, r : Named(e, m, r) => Named(c, m, r)
  BY <1>3, <1>4, <1>7, <1>9 DEF Passes
<1>11. \A r \in e.toSend : r \in c.toSend \/ \E m : Named(c, m, r)
  BY <1>3, <1>4, <1>9 DEF Passes
<1>12. \A r \in main.handlers : Held(c, r) => Held(e, r)
  BY <1>5, <1>6, <1>9 DEF Passes
<1>13. Passes(c, e)
  BY <1>10, <1>11, <1>12 DEF Passes
<1> QED BY <1>13 DEF e

\* The other handlers, and all of them.
LEMMA HandlePasses ==
    ASSUME NEW c, IdsOK(main, c), Roomy(c), c.moving = Nothing, NEW x
    PROVE  Passes(c, Handle(c, x))
<1>0. Fields \subseteq DOMAIN c /\ c.received \in Seq(Range(c.received))
  BY DEF IdsOK
<1>1. Passes(c, HandleResult(c, x))
  BY HandleResultPasses
<1>2. Passes(c, HandleAck(c, x))
  <2>1. CASE x.container /\ x.ids \in c.containers
    <3> DEFINE d == [c EXCEPT !.containers = @ \ {x.ids}]
    <3>1. /\ DOMAIN d = DOMAIN c /\ d.toSend = c.toSend /\ d.haveSent = c.haveSent
          /\ d.received = c.received /\ d.msgId = c.msgId /\ d.lastId = c.lastId
          /\ d.moving = c.moving /\ d.sending = c.sending /\ d.resending = c.resending
          /\ d.acked = c.acked
      OBVIOUS
    <3>2. HandleAck(c, x) = RequestsAcked(d, x.ids, FALSE)
      BY <2>1 DEF HandleAck, ContainerAcked
    <3> HIDE DEF d
    <3>3. Passes(c, d)
      BY <3>1, PassesSame
    <3>4. Passes(d, RequestsAcked(d, x.ids, FALSE))
      BY <1>0, <3>1, RequestsAckedPasses
    <3> QED BY <3>2, <3>3, <3>4, PassesTwice
  <2>2. CASE x.container /\ x.ids \notin c.containers
    BY <2>2, PassesSelf DEF HandleAck, ContainerAcked
  <2>3. CASE ~x.container
    <3>1. HandleAck(c, x) = RequestsAcked(c, x.ids, FALSE)
      BY <2>3 DEF HandleAck
    <3> QED BY <1>0, <3>1, RequestsAckedPasses
  <2> QED BY <2>1, <2>2, <2>3
<1>3. Passes(c, HandleStates(c, x))
  <2> DEFINE d     == [c EXCEPT !.stateReqs = @ \ {x.ids}]
             lost  == (x.ids \ x.got) \intersect DOMAIN d.haveSent
             acked == {m \in x.got \intersect x.ids :
                         m \in DOMAIN d.haveSent \/ m \in DOMAIN d.resending}
             e     == RequestsAcked(d, acked, FALSE)
  <2>1. HandleStates(c, x) = IF x.ids \in c.stateReqs THEN Resend(e, lost) ELSE c
    BY DEF HandleStates
  <2>2. /\ DOMAIN d = DOMAIN c /\ d.toSend = c.toSend /\ d.haveSent = c.haveSent
        /\ d.received = c.received /\ d.msgId = c.msgId /\ d.lastId = c.lastId
        /\ d.moving = c.moving /\ d.sending = c.sending /\ d.resending = c.resending
        /\ d.acked = c.acked
    OBVIOUS
  <2> HIDE DEF d, lost, acked
  <2>3. Passes(c, d)
    BY <2>2, PassesSame
  <2>4. Passes(d, e) /\ e.moving = d.moving
    <3>1. Fields \subseteq DOMAIN d
      BY <1>0, <2>2
    <3> DEFINE no == FALSE
    <3> HIDE DEF no
    <3>2. RequestsAcked(d, acked, no).moving = d.moving
      BY <3>1, RequestsAckedFields
    <3> QED BY <3>1, <3>2, RequestsAckedPasses DEF no
  <2> HIDE DEF e
  <2>5. Passes(e, Resend(e, lost))
    <3>1. Fields \subseteq DOMAIN e /\ e.moving = Nothing
      BY <1>0, <2>2, <2>4 DEF Passes
    <3> QED BY <3>1, ResendPasses
  <2>6. Passes(c, Resend(e, lost))
    BY <2>3, <2>4, <2>5, PassesTwice
  <2> QED BY <2>1, <2>6, PassesSelf
<1>4. Passes(c, HandleCreated(c, x))
  BY <1>0, ResendPasses DEF HandleCreated
<1>5. Passes(c, HandleBad(c, x))
  <2> DEFINE r == WasSent(c, CHOOSE m \in x.ids : TRUE)
             d == [c EXCEPT !.reset = TRUE]
             no == FALSE
  <2>1. \/ HandleBad(c, x) = c
        \/ HandleBad(c, x) = ResendContainer(c, x.ids)
        \/ HandleBad(c, x) = Resend(c, x.ids)
        \/ HandleBad(c, x) = d
        \/ HandleBad(c, x) = Push(c, r, no)
    BY DEF HandleBad
  <2>2. Passes(c, d)
    <3>1. /\ DOMAIN d = DOMAIN c /\ d.toSend = c.toSend /\ d.haveSent = c.haveSent
          /\ d.received = c.received /\ d.msgId = c.msgId /\ d.lastId = c.lastId
          /\ d.moving = c.moving /\ d.sending = c.sending /\ d.resending = c.resending
          /\ d.acked = c.acked
      OBVIOUS
    <3> HIDE DEF d
    <3> QED BY <3>1, PassesSame
  <2> HIDE DEF r, d, no
  <2>3. Passes(c, Push(c, r, no))
    BY <1>0, PushPasses
  <2> QED BY <1>0, <2>1, <2>2, <2>3, ResendPasses, ResendsPass, PassesSelf
<1>6. \/ Handle(c, x) = HandleResult(c, x) \/ Handle(c, x) = HandleAck(c, x)
      \/ Handle(c, x) = HandleBad(c, x) \/ Handle(c, x) = HandleStates(c, x)
      \/ Handle(c, x) = HandleCreated(c, x) \/ Handle(c, x) = c
  BY DEF Handle
<1> QED BY <1>1, <1>2, <1>3, <1>4, <1>5, <1>6, PassesSelf

LEMMA HandleReceivedPasses ==
    ASSUME IdsOK(main, client), Roomy(client), HandleReceived
    PROVE  Passes(client, client')
<1> DEFINE x == Head(net.down)
           success == Fits(ids, x.id)
           tooOld == ~success /\ x.id \notin ids
           c == IF NeedsAck(x) THEN [client EXCEPT !.ackData = @ \union {x.id}] ELSE client
           e == [c EXCEPT !.reset = tooOld]
           d == IF success THEN Handle(c, x) ELSE e
<1>1. client' = IF d.reset THEN Restart(d) ELSE d
  BY DEF HandleReceived
<1>2. /\ DOMAIN c = DOMAIN client /\ c.toSend = client.toSend
      /\ c.haveSent = client.haveSent /\ c.received = client.received
      /\ c.msgId = client.msgId /\ c.lastId = client.lastId /\ c.moving = client.moving
      /\ c.sending = client.sending /\ c.resending = client.resending
      /\ c.acked = client.acked
  OBVIOUS
<1> HIDE DEF c, x
<1>3. Passes(client, c)
  BY <1>2, PassesSame
<1>4. Passes(c, Handle(c, x))
  <2>1. IdsOK(main, c) /\ Roomy(c)
    BY <1>2, <1>3, PassesKeeps DEF Roomy
  <2>2. c.moving = Nothing
    BY <1>2 DEF HandleReceived, Idle
  <2> QED BY <2>1, <2>2, HandlePasses
<1>5. Passes(c, e)
  <2>1. /\ DOMAIN e = DOMAIN c /\ e.toSend = c.toSend /\ e.haveSent = c.haveSent
        /\ e.received = c.received /\ e.msgId = c.msgId /\ e.lastId = c.lastId
        /\ e.moving = c.moving /\ e.sending = c.sending /\ e.resending = c.resending
        /\ e.acked = c.acked
    OBVIOUS
  <2> HIDE DEF e
  <2> QED BY <2>1, PassesSame
<1> HIDE DEF e
<1>6. Passes(c, d)
  BY <1>4, <1>5
<1> HIDE DEF d
<1>7. Passes(d, client')
  BY <1>1, RestartPasses, PassesSelf
<1> QED BY <1>3, <1>6, <1>7, PassesTwice

-----------------------------------------------------------------------------
(* Sending.                                                                  *)

\* The id that a request of a batch gets, and what replaceMsgId() makes of an
\* id and of a map.
NewId(c, fresh, r) == c.lastId + Cardinality({q \in fresh : q <= r})
Old(c, fresh) == {c.msgId[r] : r \in fresh} \ {None}
Moved(c, fresh, m) ==
    IF m \in Old(c, fresh) THEN NewId(c, fresh, CHOOSE r \in fresh : c.msgId[r] = m) ELSE m
Renamed(c, fresh, f) ==
    [m \in {Moved(c, fresh, k) : k \in DOMAIN f} |->
        f[CHOOSE k \in DOMAIN f : Moved(c, fresh, k) = m]]

\* New ids are larger than all before, and no two requests get the same.
LEMMA NewIds ==
    ASSUME NEW c, c.lastId \in Nat, NEW fresh, fresh \subseteq Request
    PROVE  /\ Cardinality(fresh) \in Nat
           /\ \A r \in fresh : /\ NewId(c, fresh, r) \in Nat
                               /\ c.lastId < NewId(c, fresh, r)
                               /\ NewId(c, fresh, r) <= c.lastId + Cardinality(fresh)
           /\ \A r \in fresh, q \in fresh : NewId(c, fresh, r) = NewId(c, fresh, q) => r = q
<1> DEFINE upto(r) == {q \in fresh : q <= r}
           Card(r) == Cardinality(upto(r))
<1>1. IsFiniteSet(fresh) /\ Cardinality(fresh) \in Nat
  <2>1. IsFiniteSet(Request)
    BY FS_Interval, BoundsAssumption DEF Request
  <2> QED BY <2>1, FS_Subset, FS_CardinalityType
<1>2. ASSUME NEW r \in fresh
      PROVE  /\ upto(r) \subseteq fresh /\ IsFiniteSet(upto(r))
             /\ Card(r) \in Nat /\ Card(r) <= Cardinality(fresh) /\ Card(r) > 0
  <2>1. upto(r) \subseteq fresh
    OBVIOUS
  <2>2. IsFiniteSet(upto(r)) /\ Card(r) <= Cardinality(fresh)
    BY <1>1, <2>1, FS_Subset
  <2>3. r \in upto(r)
    BY DEF Request
  <2>4. Card(r) \in Nat /\ Card(r) # 0
    BY <2>2, <2>3, FS_CardinalityType, FS_EmptySet
  <2> HIDE DEF Card, upto
  <2> QED BY <2>1, <2>2, <2>4
<1>3. ASSUME NEW r \in fresh, NEW q \in fresh, r < q
      PROVE  Card(r) # Card(q)
  <2>0. r \in Int /\ q \in Int /\ \A k \in fresh : k \in Int
    BY DEF Request
  <2>1. upto(r) \subseteq upto(q)
    <3>1. \A k \in fresh : k <= r => k <= q
      BY <1>3, <2>0
    <3> QED BY <3>1
  <2>2. q \in upto(q) /\ q \notin upto(r)
    BY <1>3, <2>0
  <2> HIDE DEF upto
  <2>3. IsFiniteSet(upto(q)) /\ upto(r) \in SUBSET upto(q)
    BY <1>2, <2>1
  <2> QED BY <2>2, <2>3, FS_Subset
<1>4. \A r \in fresh : NewId(c, fresh, r) = c.lastId + Card(r)
  BY DEF NewId
<1> HIDE DEF Card
<1>5. ASSUME NEW r \in fresh
      PROVE  /\ NewId(c, fresh, r) \in Nat /\ c.lastId < NewId(c, fresh, r)
             /\ NewId(c, fresh, r) <= c.lastId + Cardinality(fresh)
  <2>1. Card(r) \in Nat /\ Card(r) > 0 /\ Card(r) <= Cardinality(fresh)
    BY <1>2
  <2> QED BY <1>1, <1>4, <2>1
<1>6. ASSUME NEW r \in fresh, NEW q \in fresh, NewId(c, fresh, r) = NewId(c, fresh, q)
      PROVE  r = q
  <2>1. Card(r) \in Nat /\ Card(q) \in Nat
    BY <1>2
  <2>2. Card(r) = Card(q)
    BY <1>4, <1>6, <2>1
  <2>3. r \in Int /\ q \in Int
    BY DEF Request
  <2>4. ~(r < q) /\ ~(q < r)
    BY <1>3, <2>2
  <2> QED BY <2>3, <2>4
<1> QED BY <1>1, <1>5, <1>6

\* Renaming keeps which requests a map has.
LEMMA RenamedHas ==
    ASSUME NEW mn, NEW c, IdsOK(mn, c), NEW fresh, fresh \subseteq Request, NEW f,
           \A m, r : In(f, m, r) => Names(mn, c, m, r)
    PROVE  /\ \A m, r : In(Renamed(c, fresh, f), m, r) =>
                  In(f, m, r) \/ (r \in fresh /\ m = NewId(c, fresh, r))
           /\ \A m, r : In(f, m, r) => \E k : In(Renamed(c, fresh, f), k, r)
<1> DEFINE moved(m) == Moved(c, fresh, m)
           g == Renamed(c, fresh, f)
           id(r) == NewId(c, fresh, r)
<1>1. c.lastId \in Nat /\ DOMAIN c.msgId = Request
  BY DEF IdsOK
<1>2. \A m \in DOMAIN f : Names(mn, c, m, f[m]) /\ m \in Nat /\ m <= c.lastId
  BY DEF In, IdsOK
<1>3. ASSUME NEW m \in DOMAIN f, m \in Old(c, fresh)
      PROVE  f[m] \in fresh /\ moved(m) = id(f[m]) /\ c.msgId[f[m]] = m
  <2> DEFINE q == CHOOSE r \in fresh : c.msgId[r] = m
  <2>1. q \in fresh /\ c.msgId[q] = m /\ m # None
    BY <1>3 DEF Old
  <2>2. moved(m) = id(q)
    BY <1>3 DEF Moved
  <2> HIDE DEF q
  <2>3. Names(mn, c, m, q)
    BY <2>1 DEF Names, Named
  <2>4. q = f[m]
    BY <1>2, <2>3 DEF IdsOK
  <2> QED BY <2>1, <2>2, <2>4
<1>4. ASSUME NEW m \in DOMAIN f, m \notin Old(c, fresh)
      PROVE  moved(m) = m
  BY <1>4 DEF Moved
<1>5. \A r \in fresh : id(r) \in Nat /\ c.lastId < id(r)
  BY <1>1, NewIds
<1>6. \A r \in fresh, q \in fresh : id(r) = id(q) => r = q
  BY <1>1, NewIds
<1> HIDE DEF id, moved
<1>7. ASSUME NEW m \in DOMAIN f, NEW k \in DOMAIN f, moved(m) = moved(k)
      PROVE  m = k
  <2>1. CASE m \in Old(c, fresh) /\ k \in Old(c, fresh)
    BY <1>3, <1>6, <1>7, <2>1
  <2>2. CASE m \in Old(c, fresh) /\ k \notin Old(c, fresh)
    <3>1. id(f[m]) = k /\ f[m] \in fresh
      BY <1>3, <1>4, <1>7, <2>2
    <3>2. id(f[m]) \in Nat /\ c.lastId < id(f[m])
      BY <1>5, <3>1
    <3> QED BY <1>1, <1>2, <3>1, <3>2
  <2>3. CASE m \notin Old(c, fresh) /\ k \in Old(c, fresh)
    <3>1. id(f[k]) = m /\ f[k] \in fresh
      BY <1>3, <1>4, <1>7, <2>3
    <3>2. id(f[k]) \in Nat /\ c.lastId < id(f[k])
      BY <1>5, <3>1
    <3> QED BY <1>1, <1>2, <3>1, <3>2
  <2>4. CASE m \notin Old(c, fresh) /\ k \notin Old(c, fresh)
    BY <1>4, <1>7, <2>4
  <2> QED BY <2>1, <2>2, <2>3, <2>4
<1>8. g = [m \in {moved(k) : k \in DOMAIN f} |-> f[CHOOSE k \in DOMAIN f : moved(k) = m]]
  BY DEF Renamed, moved
<1>9. ASSUME NEW k \in DOMAIN f
      PROVE  moved(k) \in DOMAIN g /\ g[moved(k)] = f[k]
  <2> DEFINE l == CHOOSE n \in DOMAIN f : moved(n) = moved(k)
  <2>1. l \in DOMAIN f /\ moved(l) = moved(k)
    OBVIOUS
  <2>2. g[moved(k)] = f[l] /\ moved(k) \in DOMAIN g
    BY <1>8
  <2> HIDE DEF l, g
  <2> QED BY <1>7, <2>1, <2>2
<1>10. \A m \in DOMAIN g : \E k \in DOMAIN f : m = moved(k)
  BY <1>8
<1> HIDE DEF g
<1>11. ASSUME NEW m, NEW r, In(g, m, r)
       PROVE  In(f, m, r) \/ (r \in fresh /\ m = id(r))
  <2>1. PICK k \in DOMAIN f : m = moved(k)
    BY <1>10, <1>11 DEF In
  <2>2. f[k] = r
    BY <1>9, <1>11, <2>1 DEF In
  <2> QED BY <1>3, <1>4, <2>1, <2>2 DEF In
<1>12. ASSUME NEW m, NEW r, In(f, m, r)
       PROVE  \E k : In(g, k, r)
  BY <1>9, <1>12 DEF In
<1> QED BY <1>11, <1>12 DEF g, id

\* prepareToSend(): ids keep standing for one request each, and all that was
\* in the maps is in them still.
LEMMA PrepareKeeps ==
    ASSUME NEW mn, NEW c, IdsOK(mn, c), NEW S, S \subseteq Request, NEW force,
           NEW d, d = PrepareToSend(c, S, force)
    PROVE  /\ IdsOK(mn, d)
           /\ DOMAIN d = DOMAIN c /\ d.toSend = c.toSend /\ d.received = c.received
           /\ d.moving = c.moving /\ d.sending = c.sending
           /\ \A r : Held(c, r) => Held(d, r)
           /\ \A r \in S : d.msgId[r] # None
<1> DEFINE fresh == Fresh(c, S, force)
           id(r) == NewId(c, fresh, r)
           asked == {c.msgId[r] : r \in S}
           news  == [r \in fresh |-> id(r)] ++ c.msgId
           l     == c.lastId + Cardinality(fresh)
           re    == Renamed(c, fresh, Without(c.resending, asked))
           ac    == Renamed(c, fresh, c.acked)
           hs    == Renamed(c, fresh, c.haveSent)
           ks    == {{Moved(c, fresh, m) : m \in k} : k \in c.containers}
<1>0. fresh \subseteq S /\ fresh \subseteq Request
      /\ \A r \in S : r \notin fresh => c.msgId[r] # None
  BY DEF Fresh
<1>1. d = [c EXCEPT !.lastId = l, !.msgId = news, !.resending = re, !.acked = ac,
                    !.haveSent = hs, !.containers = ks]
  BY DEF PrepareToSend, Renamed, Moved, Old, NewId
<1> HIDE DEF l, news, re, ac, hs, ks
<1>2. /\ DOMAIN d = DOMAIN c /\ d.toSend = c.toSend /\ d.received = c.received
      /\ d.moving = c.moving /\ d.sending = c.sending /\ d.lastId = l /\ d.msgId = news
      /\ d.resending = re /\ d.acked = ac /\ d.haveSent = hs
  BY <1>1 DEF IdsOK, Fields
<1>3. c.lastId \in Nat /\ DOMAIN c.msgId = Request
  BY DEF IdsOK
<1>4. l \in Nat /\ c.lastId <= l
      /\ \A r \in fresh : id(r) \in Nat /\ c.lastId < id(r) /\ id(r) <= l
  <2> HIDE DEF fresh
  <2>1. Cardinality(fresh) \in Nat
        /\ \A r \in fresh : id(r) \in Nat /\ c.lastId < id(r)
                            /\ id(r) <= c.lastId + Cardinality(fresh)
    BY <1>0, <1>3, NewIds
  <2> HIDE DEF id
  <2> QED BY <1>3, <2>1 DEF l
<1>5. \A r \in fresh, q \in fresh : id(r) = id(q) => r = q
  <2> HIDE DEF fresh
  <2> QED BY <1>0, <1>3, NewIds
<1>6. DOMAIN news = Request
      /\ (\A r \in Request : news[r] = IF r \in fresh THEN id(r) ELSE c.msgId[r])
  <2> HIDE DEF fresh, id
  <2> QED BY <1>0, <1>3 DEF news, ++
<1> HIDE DEF fresh, id, asked
<1>7. /\ \A m, r : In(hs, m, r) => In(c.haveSent, m, r) \/ (r \in fresh /\ m = id(r))
      /\ \A m, r : In(c.haveSent, m, r) => \E k : In(hs, k, r)
  <2>1. \A m, r : In(c.haveSent, m, r) => Names(mn, c, m, r)
    BY DEF Names, Named
  <2> QED BY <1>0, <2>1, RenamedHas DEF hs, id
<1>8. \A m, r : In(ac, m, r) => In(c.acked, m, r) \/ (r \in fresh /\ m = id(r))
  <2>1. \A m, r : In(c.acked, m, r) => Names(mn, c, m, r)
    BY DEF Names, Named
  <2> QED BY <1>0, <2>1, RenamedHas DEF ac, id
<1>9. \A m, r : In(re, m, r) => In(c.resending, m, r) \/ (r \in fresh /\ m = id(r))
  <2> DEFINE f == Without(c.resending, asked)
  <2>1. \A m, r : In(f, m, r) => In(c.resending, m, r)
    BY InWithout
  <2>2. \A m, r : In(f, m, r) => Names(mn, c, m, r)
    BY <2>1 DEF Names, Named
  <2>3. re = Renamed(c, fresh, f)
    BY DEF re
  <2> HIDE DEF f
  <2>4. \A m, r : In(re, m, r) => In(f, m, r) \/ (r \in fresh /\ m = id(r))
    BY <1>0, <2>2, <2>3, RenamedHas DEF id
  <2> QED BY <2>1, <2>4
<1>10. ASSUME NEW m, NEW r, Names(mn, d, m, r)
       PROVE  Names(mn, c, m, r) \/ (r \in fresh /\ m = id(r))
  <2>1. CASE Cancelled(mn, m, r)
    BY <2>1 DEF Names
  <2>2. CASE In(d.haveSent, m, r) \/ In(d.resending, m, r) \/ In(d.acked, m, r)
    BY <1>2, <1>7, <1>8, <1>9, <2>2 DEF Names, Named
  <2>3. CASE In(d.moving, m, r) \/ In(d.sending, m, r)
    BY <1>2, <2>3 DEF Names, Named
  <2>4. CASE r \in Request /\ m # None /\ d.msgId[r] = m
    BY <1>2, <1>6, <2>4 DEF Names, Named
  <2> QED BY <1>10, <2>1, <2>2, <2>3, <2>4 DEF Names, Named
<1>11. \A m, r : Names(mn, c, m, r) => m \in Nat /\ 1 <= m /\ m <= c.lastId /\ r \in Request
  BY <1>3 DEF IdsOK
<1>12. ASSUME NEW m, NEW r, Names(mn, d, m, r)
       PROVE  m \in 1..d.lastId /\ r \in Request
  <2>1. CASE Names(mn, c, m, r)
    BY <1>2, <1>3, <1>4, <1>11, <2>1
  <2>2. CASE r \in fresh /\ m = id(r)
    BY <1>0, <1>2, <1>3, <1>4, <2>2
  <2> QED BY <1>10, <1>12, <2>1, <2>2
<1>13. ASSUME NEW m, NEW r, NEW q, Names(mn, d, m, r), Names(mn, d, m, q)
       PROVE  r = q
  <2>1. ~(Names(mn, c, m, r) /\ q \in fresh /\ m = id(q))
    BY <1>3, <1>4, <1>11
  <2>2. ~(Names(mn, c, m, q) /\ r \in fresh /\ m = id(r))
    BY <1>3, <1>4, <1>11
  <2>3. Names(mn, c, m, r) /\ Names(mn, c, m, q) => r = q
    BY DEF IdsOK
  <2>4. r \in fresh /\ m = id(r) /\ q \in fresh /\ m = id(q) => r = q
    BY <1>5
  <2>5. Names(mn, c, m, r) \/ (r \in fresh /\ m = id(r))
    BY <1>10, <1>13
  <2>6. Names(mn, c, m, q) \/ (q \in fresh /\ m = id(q))
    BY <1>10, <1>13
  <2> QED BY <2>1, <2>2, <2>3, <2>4, <2>5, <2>6
<1>14. IdsOK(mn, d)
  BY <1>2, <1>4, <1>6, <1>12, <1>13 DEF IdsOK
<1>15. \A r : Held(c, r) => Held(d, r)
  BY <1>2, <1>7 DEF Held
<1>16. \A r \in S : d.msgId[r] # None
  BY <1>0, <1>2, <1>3, <1>4, <1>6 DEF None
<1> QED BY <1>2, <1>14, <1>15, <1>16

\* What goes into a packet goes under its id.
LEMMA SentHas ==
    ASSUME NEW mn, NEW c, IdsOK(mn, c), NEW S, S \subseteq Request,
           \A r \in S : c.msgId[r] # None
    PROVE  /\ \A m, r : In(Sent(c, S), m, r) => Named(c, m, r)
           /\ \A r \in S : In(Sent(c, S), c.msgId[r], r)
<1> DEFINE s == Sent(c, S)
           of(m) == CHOOSE r \in S : c.msgId[r] = m
<1>1. s = [m \in {c.msgId[r] : r \in S} |-> of(m)]
  BY DEF Sent
<1>2. ASSUME NEW r \in S
      PROVE  of(c.msgId[r]) = r /\ Named(c, c.msgId[r], r)
  <2> DEFINE q == of(c.msgId[r])
  <2>1. q \in S /\ c.msgId[q] = c.msgId[r]
    OBVIOUS
  <2> HIDE DEF q
  <2>2. Named(c, c.msgId[r], r) /\ Named(c, c.msgId[r], q)
    BY <2>1 DEF Named
  <2>3. q = r
    BY <2>2 DEF IdsOK, Names
  <2> QED BY <2>2, <2>3 DEF q
<1> HIDE DEF of
<1>3. DOMAIN s = {c.msgId[r] : r \in S} /\ \A r \in S : s[c.msgId[r]] = of(c.msgId[r])
  BY <1>1
<1> HIDE DEF s
<1>4. \A m, r : In(s, m, r) => Named(c, m, r)
  BY <1>2, <1>3 DEF In
<1>5. \A r \in S : In(s, c.msgId[r], r)
  BY <1>2, <1>3 DEF In
<1> QED BY <1>4, <1>5 DEF s

-----------------------------------------------------------------------------
(* RequestIsKept.                                                            *)

Cancelling(mn, r) == mn.cancelling # Nothing /\ mn.cancelling.request = r

\* A request that waits is known, or is being cancelled.
MainOK(mn) ==
    /\ {"asked", "known", "handlers", "delayed", "cancelling"} \subseteq DOMAIN mn
    /\ mn.asked \in Nat /\ mn.known \subseteq Request
    /\ \A r \in mn.handlers : r \in mn.known \/ Cancelling(mn, r)
    /\ mn.cancelling = Nothing \/ "request" \in DOMAIN mn.cancelling

Kept(mn, c) ==
    \A r \in mn.handlers : Held(c, r) \/ r \in mn.delayed \/ Cancelling(mn, r)

\* What makes RequestIsKept inductive.
KeepInv(mn, c) == MainOK(mn) /\ IdsOK(mn, c) /\ Kept(mn, c)

LEMMA KeptIsKept ==
    ASSUME Kept(main, client)
    PROVE  RequestIsKept
<1>1. \A f, m, r : In(f, m, r) => r \in Range(f)
  BY DEF In, Range
<1> QED BY <1>1 DEF RequestIsKept, Kept, Held, Cancelling

LEMMA InitKeeps == Init => KeepInv(main, client)
<1> SUFFICES ASSUME Init PROVE KeepInv(main, client)
  OBVIOUS
<1> DEFINE n == NewPrivate
           d == [session  |-> 1,
                 toSend   |-> {}, haveSent |-> Nothing, received |-> Nothing,
                 msgId    |-> [r \in Request |-> None],
                 forced   |-> {},
                 lastId   |-> 0,
                 since    |-> 0]
           ds == {"toSend", "haveSent", "received", "msgId", "lastId"}
           ns == {"moving", "sending", "resending", "acked"}
<1>1. client = n ++ d
  BY DEF Init
<1>2. /\ ds \subseteq DOMAIN d /\ d.toSend = {} /\ d.haveSent = Nothing
      /\ d.received = Nothing /\ d.msgId = [r \in Request |-> None] /\ d.lastId = 0
  OBVIOUS
<1>3. /\ ns \subseteq DOMAIN n /\ ds \intersect DOMAIN n = {}
      /\ n.moving = Nothing /\ n.sending = Nothing
      /\ n.resending = Nothing /\ n.acked = Nothing
  BY DEF NewPrivate
<1> HIDE DEF n, d
<1>4. DOMAIN client = DOMAIN n \union DOMAIN d
      /\ \A x \in DOMAIN n \union DOMAIN d : client[x] = IF x \in DOMAIN n THEN n[x] ELSE d[x]
  BY <1>1 DEF ++
<1>5. /\ Fields \subseteq DOMAIN client
      /\ client.toSend = {} /\ client.haveSent = Nothing /\ client.received = Nothing
      /\ client.msgId = [r \in Request |-> None] /\ client.lastId = 0
      /\ client.moving = Nothing /\ client.sending = Nothing
      /\ client.resending = Nothing /\ client.acked = Nothing
  <2>1. \A x \in ds : client[x] = d[x] /\ x \in DOMAIN client
    BY <1>2, <1>3, <1>4
  <2>2. \A x \in ns : client[x] = n[x] /\ x \in DOMAIN client
    BY <1>3, <1>4
  <2> QED BY <1>2, <1>3, <2>1, <2>2 DEF Fields
<1>6. /\ {"asked", "known", "handlers", "delayed", "cancelling"} \subseteq DOMAIN main
      /\ main.asked = 0 /\ main.known = {} /\ main.handlers = {}
      /\ main.cancelling = Nothing
  BY DEF Init
<1>7. MainOK(main) /\ Kept(main, client)
  BY <1>6 DEF MainOK, Kept
<1>8. \A m, r : ~In(Nothing, m, r)
  BY DEF In, Nothing
<1>9. \A m, r : ~Names(main, client, m, r)
  BY <1>5, <1>6, <1>8 DEF Names, Named, Cancelled
<1>10. client.received \in Seq(Range(client.received))
  BY <1>5 DEF Nothing
<1>11. DOMAIN client.msgId = Request /\ client.lastId \in Nat
  BY <1>5
<1>12. IdsOK(main, client)
  BY <1>5, <1>9, <1>10, <1>11 DEF IdsOK
<1> QED BY <1>7, <1>12 DEF KeepInv

\* Steps of SessionPrivate.
LEMMA PassesKeepsAll ==
    ASSUME KeepInv(main, client), main' = main, Passes(client, client')
    PROVE  KeepInv(main', client')
<1>1. IdsOK(main, client')
  BY PassesKeeps DEF KeepInv
<1>2. Kept(main, client')
  BY DEF KeepInv, Kept, Passes
<1> QED BY <1>1, <1>2 DEF KeepInv

\* A new connection sends again what was sent before.
LEMMA ConnectKeeps ==
    ASSUME KeepInv(main, client), Connect \/ SaltArrives
    PROVE  KeepInv(main', client')
<1>1. PICK c, x, y, z : /\ c = client \/ c = ResendAll(client)
                        /\ client' = [c EXCEPT !.state = x, !.ping = y, !.salt = z]
  <2>1. CASE Connect
    <3> DEFINE c == IF client.salt THEN ResendAll(client) ELSE client
               x == IF client.salt THEN "connected" ELSE "connecting"
    <3>1. client' = [c EXCEPT !.state = x, !.ping = client.salt]
      BY <2>1 DEF Connect
    <3>2. c = client \/ c = ResendAll(client)
      OBVIOUS
    <3> HIDE DEF c, x
    <3>3. client' = [c EXCEPT !.state = x, !.ping = client.salt, !.salt = c.salt]
      BY <3>1
    <3> QED BY <3>2, <3>3
  <2>2. CASE SaltArrives
    <3> DEFINE c == ResendAll(client)
    <3>1. client' = [c EXCEPT !.salt = TRUE, !.state = "connected"]
      BY <2>2 DEF SaltArrives
    <3>2. c = client \/ c = ResendAll(client)
      OBVIOUS
    <3> HIDE DEF c
    <3>3. client' = [c EXCEPT !.state = "connected", !.ping = c.ping, !.salt = TRUE]
      BY <3>1
    <3> QED BY <3>2, <3>3
  <2> QED BY <2>1, <2>2
<1>2. client.moving = Nothing /\ Fields \subseteq DOMAIN client /\ main' = main
  BY DEF Connect, SaltArrives, Idle, KeepInv, IdsOK
<1>3. Passes(client, c)
  BY <1>1, <1>2, ResendsPass, PassesSelf
<1>4. Passes(c, client')
  <2> DEFINE d == [c EXCEPT !.state = x, !.ping = y, !.salt = z]
  <2>1. /\ DOMAIN d = DOMAIN c /\ d.toSend = c.toSend /\ d.haveSent = c.haveSent
        /\ d.received = c.received /\ d.msgId = c.msgId /\ d.lastId = c.lastId
        /\ d.moving = c.moving /\ d.sending = c.sending /\ d.resending = c.resending
        /\ d.acked = c.acked
    OBVIOUS
  <2>2. client' = d
    BY <1>1
  <2> HIDE DEF d
  <2> QED BY <2>1, <2>2, PassesSame
<1>5. Passes(client, client')
  BY <1>3, <1>4, PassesTwice
<1> QED BY <1>2, <1>5, PassesKeepsAll

\* Steps that leave main alone, and lose no request of the client.
LEMMA HoldsKeepsAll ==
    ASSUME KeepInv(main, client), main' = main, IdsOK(main, client'),
           \A r : Held(client, r) => Held(client', r)
    PROVE  KeepInv(main', client')
<1>1. Kept(main, client')
  BY DEF KeepInv, Kept
<1> QED BY <1>1 DEF KeepInv

\* tryToSend() with one request.
LEMMA SendSingleKeeps ==
    ASSUME KeepInv(main, client), SendSingle
    PROVE  KeepInv(main', client')
<1>1. PICK r \in client.toSend :
        LET c == PrepareToSend([client EXCEPT !.toSend = @ \ {r}], {r}, ~client.started)
        IN  client' = [c EXCEPT !.started = TRUE, !.sending = Sent(c, {r})]
  BY DEF SendSingle
<1> DEFINE b == [client EXCEPT !.toSend = @ \ {r}]
           S == {r}
           c == PrepareToSend(b, S, ~client.started)
           s == Sent(c, S)
<1>2. client' = [c EXCEPT !.started = TRUE, !.sending = s] /\ main' = main
  BY <1>1 DEF SendSingle
<1>3. IdsOK(main, client) /\ client.sending = Nothing /\ S \subseteq Request
  BY DEF KeepInv, IdsOK, SendSingle, Idle
<1>4. /\ DOMAIN b = DOMAIN client /\ b.toSend = client.toSend \ S
      /\ b.haveSent = client.haveSent
      /\ b.received = client.received /\ b.msgId = client.msgId /\ b.lastId = client.lastId
      /\ b.moving = client.moving /\ b.sending = client.sending
      /\ b.resending = client.resending /\ b.acked = client.acked
  BY <1>3 DEF IdsOK, Fields
<1> HIDE DEF b, S
<1>5. IdsOK(main, b)
  <2>1. \A m, q : Names(main, b, m, q) => Names(main, client, m, q)
    BY <1>4 DEF Names, Named
  <2> QED BY <1>3, <1>4, <2>1 DEF IdsOK
<1>6. \A q : Held(client, q) => Held(b, q) \/ q \in S
  BY <1>4 DEF Held
<1>7. /\ IdsOK(main, c)
      /\ c.sending = b.sending
      /\ \A q : Held(b, q) => Held(c, q)
      /\ \A q \in S : c.msgId[q] # None
  BY <1>3, <1>5, PrepareKeeps
<1> HIDE DEF c
<1>8. /\ \A m, q : In(s, m, q) => Named(c, m, q)
      /\ \A q \in S : In(s, c.msgId[q], q)
  BY <1>3, <1>7, SentHas
<1> HIDE DEF s
<1>9. /\ DOMAIN client' = DOMAIN c /\ client'.toSend = c.toSend
      /\ client'.haveSent = c.haveSent
      /\ client'.received = c.received /\ client'.msgId = c.msgId
      /\ client'.lastId = c.lastId /\ client'.moving = c.moving /\ client'.sending = s
      /\ client'.resending = c.resending /\ client'.acked = c.acked
  BY <1>2, <1>7 DEF IdsOK, Fields
<1>10. \A m, q : Names(main, client', m, q) => Names(main, c, m, q)
  BY <1>8, <1>9 DEF Names, Named
<1>11. IdsOK(main, client')
  BY <1>7, <1>9, <1>10 DEF IdsOK
<1>12. \A m, q : ~In(c.sending, m, q)
  BY <1>3, <1>4, <1>7 DEF In, Nothing
<1>13. \A q : Held(c, q) \/ q \in S => Held(client', q)
  BY <1>8, <1>9, <1>12 DEF Held
<1>14. \A q : Held(client, q) => Held(client', q)
  BY <1>6, <1>7, <1>13
<1> QED BY <1>2, <1>11, <1>14, HoldsKeepsAll

\* Two maps together have the requests of both.
LEMMA BothHave ==
    ASSUME NEW mn, NEW c, IdsOK(mn, c), NEW f, NEW g,
           \A m, r : In(f, m, r) \/ In(g, m, r) => Named(c, m, r)
    PROVE  \A m, r : In(f, m, r) \/ In(g, m, r) => In(f ++ g, m, r)
<1> SUFFICES ASSUME NEW m, NEW r, In(f, m, r) \/ In(g, m, r)
             PROVE  In(f ++ g, m, r)
  OBVIOUS
<1>1. CASE In(f, m, r)
  BY <1>1 DEF In, ++
<1>2. CASE In(g, m, r) /\ m \notin DOMAIN f
  BY <1>2 DEF In, ++
<1>3. CASE In(g, m, r) /\ m \in DOMAIN f
  <2>1. In(f, m, f[m])
    BY <1>3 DEF In
  <2>2. Named(c, m, r) /\ Named(c, m, f[m])
    BY <1>3, <2>1
  <2>3. f[m] = r
    BY <2>2 DEF IdsOK, Names
  <2>4. In(f, m, r)
    BY <2>1, <2>3
  <2> QED BY <2>4 DEF In, ++
<1> QED BY <1>1, <1>2, <1>3

LEMMA FinishSingleKeeps ==
    ASSUME KeepInv(main, client), FinishSingle
    PROVE  KeepInv(main', client')
<1> DEFINE f == client.haveSent
           g == client.sending
           h == f ++ g
<1>1. client' = [client EXCEPT !.haveSent = h, !.sending = Nothing] /\ main' = main
  BY DEF FinishSingle
<1>2. IdsOK(main, client)
  BY DEF KeepInv
<1>3. \A m, q : In(f, m, q) \/ In(g, m, q) => Named(client, m, q)
  BY DEF Named
<1>4. \A m, q : In(h, m, q) <=> In(f, m, q) \/ In(g, m, q)
  BY <1>2, <1>3, InBoth, BothHave
<1> HIDE DEF h
<1>5. /\ DOMAIN client' = DOMAIN client /\ client'.toSend = client.toSend
      /\ client'.haveSent = h
      /\ client'.received = client.received /\ client'.msgId = client.msgId
      /\ client'.lastId = client.lastId /\ client'.moving = client.moving
      /\ client'.sending = Nothing
      /\ client'.resending = client.resending /\ client'.acked = client.acked
  BY <1>1, <1>2 DEF IdsOK, Fields
<1>6. \A m, q : ~In(Nothing, m, q)
  BY DEF In, Nothing
<1>7. \A m, q : Names(main, client', m, q) => Names(main, client, m, q)
  BY <1>4, <1>5, <1>6 DEF Names, Named
<1>8. IdsOK(main, client')
  BY <1>2, <1>5, <1>7 DEF IdsOK
<1>9. \A q : Held(client, q) => Held(client', q)
  BY <1>4, <1>5 DEF Held
<1> QED BY <1>1, <1>8, <1>9, HoldsKeepsAll

\* tryToSend() with a container.
LEMMA SendContainerKeeps ==
    ASSUME KeepInv(main, client), SendContainer
    PROVE  KeepInv(main', client')
<1>1. PICK S \in Batches :
        LET c == PrepareToSend([client EXCEPT !.toSend = @ \ S], S, ~client.started)
        IN  client' = [Served(c) EXCEPT
              !.haveSent = @ ++ Sent(c, S),
              !.containers = @ \union {DOMAIN Sent(c, S)},
              !.timer = @ \/ S # {}]
  BY DEF SendContainer
<1> DEFINE b == [client EXCEPT !.toSend = @ \ S]
           c == PrepareToSend(b, S, ~client.started)
           s == Sent(c, S)
           d == Served(c)
           h == d.haveSent ++ s
           k == d.containers \union {DOMAIN Sent(c, S)}
<1>2. client' = [d EXCEPT !.haveSent = h, !.containers = k, !.timer = @ \/ S # {}]
  BY <1>1
<1>3. main' = main
  BY DEF SendContainer
<1>4. IdsOK(main, client) /\ client.toSend \subseteq Request
  BY DEF KeepInv, IdsOK
<1>5. S \subseteq Request
  <2>1. S \subseteq client.toSend
    BY DEF Batches
  <2> QED BY <1>4, <2>1
<1>6. /\ DOMAIN b = DOMAIN client /\ b.toSend = client.toSend \ S
      /\ b.haveSent = client.haveSent
      /\ b.received = client.received /\ b.msgId = client.msgId /\ b.lastId = client.lastId
      /\ b.moving = client.moving /\ b.sending = client.sending
      /\ b.resending = client.resending /\ b.acked = client.acked
  BY <1>4 DEF IdsOK, Fields
<1> HIDE DEF b, k, h
<1>7. IdsOK(main, b)
  <2>1. \A m, q : Names(main, b, m, q) => Names(main, client, m, q)
    BY <1>6 DEF Names, Named
  <2> QED BY <1>4, <1>6, <2>1 DEF IdsOK
<1>8. \A q : Held(client, q) => Held(b, q) \/ q \in S
  BY <1>6 DEF Held
<1>9. /\ IdsOK(main, c)
      /\ \A q : Held(b, q) => Held(c, q)
      /\ \A q \in S : c.msgId[q] # None
  BY <1>5, <1>7, PrepareKeeps
<1> HIDE DEF c
<1>10. /\ \A m, q : In(s, m, q) => Named(c, m, q)
       /\ \A q \in S : In(s, c.msgId[q], q)
  BY <1>5, <1>9, SentHas
<1> HIDE DEF s
<1>11. /\ DOMAIN d = DOMAIN c /\ d.toSend = c.toSend /\ d.haveSent = c.haveSent
       /\ d.received = c.received /\ d.msgId = c.msgId /\ d.lastId = c.lastId
       /\ d.moving = c.moving /\ d.sending = c.sending /\ d.resending = c.resending
       /\ d.acked = c.acked
  BY DEF Served
<1> HIDE DEF d
<1>12. /\ DOMAIN client' = DOMAIN c /\ client'.toSend = c.toSend
       /\ client'.haveSent = h
       /\ client'.received = c.received /\ client'.msgId = c.msgId
       /\ client'.lastId = c.lastId /\ client'.moving = c.moving
       /\ client'.sending = c.sending
       /\ client'.resending = c.resending /\ client'.acked = c.acked
  BY <1>2, <1>9, <1>11 DEF IdsOK, Fields
<1>13. \A m, q : In(h, m, q) <=> In(c.haveSent, m, q) \/ In(s, m, q)
  <2>1. h = c.haveSent ++ s
    BY <1>11 DEF h
  <2>2. \A m, q : In(c.haveSent, m, q) \/ In(s, m, q) => Named(c, m, q)
    BY <1>10 DEF Named
  <2> QED BY <1>9, <2>1, <2>2, InBoth, BothHave
<1>14. \A m, q : Names(main, client', m, q) => Names(main, c, m, q)
  BY <1>10, <1>12, <1>13 DEF Names, Named
<1>15. IdsOK(main, client')
  BY <1>9, <1>12, <1>14 DEF IdsOK
<1>16. \A q : Held(c, q) \/ q \in S => Held(client', q)
  BY <1>10, <1>12, <1>13 DEF Held
<1>17. \A q : Held(client, q) => Held(client', q)
  BY <1>8, <1>9, <1>16
<1> QED BY <1>3, <1>15, <1>17, HoldsKeepsAll

LEMMA PrivateNextKeeps ==
    ASSUME KeepInv(main, client), Roomy(client), PrivateNext
    PROVE  KeepInv(main', client')
<1>0. IdsOK(main, client) /\ Fields \subseteq DOMAIN client
  BY DEF KeepInv, IdsOK
<1>1. CASE Connect \/ SaltArrives
  BY <1>1, ConnectKeeps
<1>2. CASE FinishResend
  <2>1. Passes(client, client') /\ main' = main
    BY <1>0, <1>2, PutMovingPasses DEF FinishResend
  <2> QED BY <2>1, PassesKeepsAll
<1>3. CASE ConnectionBreaks
  <2>1. Passes(client, client') /\ main' = main
    BY <1>3, RestartPasses DEF ConnectionBreaks
  <2> QED BY <2>1, PassesKeepsAll
<1>4. CASE SendSingle
  BY <1>4, SendSingleKeeps
<1>5. CASE FinishSingle
  BY <1>5, FinishSingleKeeps
<1>6. CASE SendContainer
  BY <1>6, SendContainerKeeps
<1>7. CASE SendService
  <2> DEFINE d == Served(client)
  <2>1. client' = d /\ main' = main
    BY <1>7 DEF SendService
  <2>2. /\ DOMAIN d = DOMAIN client /\ d.toSend = client.toSend
        /\ d.haveSent = client.haveSent
        /\ d.received = client.received /\ d.msgId = client.msgId
        /\ d.lastId = client.lastId
        /\ d.moving = client.moving /\ d.sending = client.sending
        /\ d.resending = client.resending /\ d.acked = client.acked
    BY DEF Served
  <2> HIDE DEF d
  <2>3. Passes(client, client')
    BY <2>1, <2>2, PassesSame
  <2> QED BY <2>1, <2>3, PassesKeepsAll
<1>8. CASE CheckSentRequests
  <2>1. main' = main /\ \E x, y : client' = [client EXCEPT !.stateData = x, !.timer = y]
    BY <1>8 DEF CheckSentRequests
  <2>2. /\ DOMAIN client' = DOMAIN client /\ client'.toSend = client.toSend
        /\ client'.haveSent = client.haveSent
        /\ client'.received = client.received /\ client'.msgId = client.msgId
        /\ client'.lastId = client.lastId
        /\ client'.moving = client.moving /\ client'.sending = client.sending
        /\ client'.resending = client.resending /\ client'.acked = client.acked
    BY <2>1
  <2>3. Passes(client, client')
    BY <2>2, PassesSame
  <2> QED BY <2>1, <2>3, PassesKeepsAll
<1>9. CASE ClearOldContainers
  <2>1. PICK ms : client' = ResendContainer(client, ms)
    BY <1>9 DEF ClearOldContainers
  <2>2. client.moving = Nothing /\ main' = main
    BY <1>9 DEF ClearOldContainers, Idle
  <2>3. Passes(client, client')
    BY <1>0, <2>1, <2>2, ResendsPass
  <2> QED BY <2>2, <2>3, PassesKeepsAll
<1>10. CASE HandleReceived
  <2>1. Passes(client, client')
    BY <1>0, <1>10, HandleReceivedPasses
  <2>2. main' = main
    BY <1>10 DEF HandleReceived
  <2> QED BY <2>1, <2>2, PassesKeepsAll
<1> QED BY <1>1, <1>2, <1>3, <1>4, <1>5, <1>6, <1>7, <1>8, <1>9, <1>10
        DEF PrivateNext

LEMMA ServerNextKeeps ==
    ASSUME KeepInv(main, client), ServerNext
    PROVE  KeepInv(main', client')
<1>1. CASE ServerForgets
  <2>1. Passes(client, client') /\ main' = main
    BY <1>1, RestartPasses DEF ServerForgets
  <2> QED BY <2>1, PassesKeepsAll
<1>2. CASE \/ ServerReceives \/ ServerRefuses \/ ServerAnswers
           \/ ServerUpdates \/ ServerRepeats
  <2>1. client' = client /\ main' = main
    BY <1>2 DEF ServerReceives, ServerRefuses, ServerAnswers, ServerUpdates, ServerRepeats
  <2> QED BY <2>1
<1> QED BY <1>1, <1>2 DEF ServerNext

\* sendPrepared(): the request loses its id and is to be sent.
LEMMA SendPreparedKeeps ==
    ASSUME NEW mn, NEW c, IdsOK(mn, c), NEW r \in Request
    PROVE  /\ IdsOK(mn, SendPrepared(c, r))
           /\ \A q : Held(c, q) \/ q = r => Held(SendPrepared(c, r), q)
<1> DEFINE d  == SendPrepared(c, r)
           ms == [c.msgId EXCEPT ![r] = None]
<1>1. d = [c EXCEPT !.toSend = @ \union {r}, !.msgId = ms]
  BY DEF SendPrepared, IdsOK, Fields
<1>2. DOMAIN ms = DOMAIN c.msgId
      /\ (\A q \in DOMAIN c.msgId : ms[q] = c.msgId[q] \/ ms[q] = None)
  OBVIOUS
<1> HIDE DEF d, ms
<1>3. /\ DOMAIN d = DOMAIN c /\ d.toSend = c.toSend \union {r} /\ d.haveSent = c.haveSent
      /\ d.received = c.received /\ d.msgId = ms /\ d.lastId = c.lastId
      /\ d.moving = c.moving /\ d.sending = c.sending /\ d.resending = c.resending
      /\ d.acked = c.acked
  BY <1>1 DEF IdsOK, Fields
<1>4. \A m, q : Names(mn, d, m, q) => Names(mn, c, m, q)
  BY <1>2, <1>3 DEF Names, Named, IdsOK
<1>5. IdsOK(mn, d)
  BY <1>2, <1>3, <1>4 DEF IdsOK
<1>6. \A q : Held(c, q) \/ q = r => Held(d, q)
  BY <1>3 DEF Held
<1> QED BY <1>5, <1>6 DEF d

\* The client and main know no more ids than before.
LEMMA FewerNames ==
    ASSUME NEW mn, NEW c, IdsOK(mn, c), NEW nn, nn.cancelling = mn.cancelling
    PROVE  IdsOK(nn, c)
<1>1. \A m, r : Names(nn, c, m, r) => Names(mn, c, m, r)
  BY DEF Names, Cancelled
<1> QED BY <1>1 DEF IdsOK

LEMMA SendRequestKeeps ==
    ASSUME KeepInv(main, client), SendRequest
    PROVE  KeepInv(main', client')
<1> DEFINE r == main.asked + 1
           hs == main.handlers \union ({r} \intersect WithHandler)
           ks == main.known \union {r}
<1>0. MainOK(main) /\ IdsOK(main, client) /\ Kept(main, client)
  BY DEF KeepInv
<1>1. main' = [main EXCEPT !.asked = r, !.known = ks, !.handlers = hs]
      /\ client' = SendPrepared(client, r)
  BY DEF SendRequest
<1>2. r \in Request /\ r \in Nat
  BY <1>0, BoundsAssumption DEF MainOK, SendRequest, Request
<1> HIDE DEF r, ks, hs
<1>3. /\ DOMAIN main' = DOMAIN main /\ main'.asked = r /\ main'.known = ks
      /\ main'.handlers = hs /\ main'.delayed = main.delayed
      /\ main'.cancelling = main.cancelling
  BY <1>0, <1>1 DEF MainOK
<1>4. MainOK(main')
  <2>1. \A q \in hs : q \in ks \/ Cancelling(main, q)
    BY <1>0 DEF MainOK, hs, ks
  <2>2. ks \subseteq Request
    BY <1>0, <1>2 DEF MainOK, ks
  <2> QED BY <1>0, <1>2, <1>3, <2>1, <2>2 DEF MainOK, Cancelling
<1>5. IdsOK(main, client') /\ \A q : Held(client, q) \/ q = r => Held(client', q)
  BY <1>0, <1>1, <1>2, SendPreparedKeeps
<1>6. IdsOK(main', client')
  BY <1>3, <1>5, FewerNames
<1>7. Kept(main', client')
  BY <1>0, <1>3, <1>5 DEF Kept, Cancelling, hs
<1> QED BY <1>4, <1>6, <1>7 DEF KeepInv

\* The reply that is processed leaves the queue.
LEMMA TailHas ==
    ASSUME NEW f, f \in Seq(Range(f)), f # Nothing
    PROVE  /\ Tail(f) \in Seq(Range(Tail(f)))
           /\ \A i \in DOMAIN f : f[i] = Head(f) \/ \E j \in DOMAIN Tail(f) : Tail(f)[j] = f[i]
<1> DEFINE T == Range(f)
<1>1. f \in Seq(T) /\ f # <<>>
  BY DEF Nothing
<1> HIDE DEF T
<1>2. /\ Tail(f) \in Seq(T) /\ Len(Tail(f)) = Len(f) - 1
      /\ \A j \in 1..Len(Tail(f)) : Tail(f)[j] = f[j + 1]
      /\ Head(f) = f[1] /\ Len(f) \in Nat /\ DOMAIN f = 1..Len(f)
      /\ DOMAIN Tail(f) = 1..Len(Tail(f))
  BY <1>1
<1>3. ASSUME NEW i \in DOMAIN f, i # 1
      PROVE  \E j \in DOMAIN Tail(f) : Tail(f)[j] = f[i]
  <2>1. i - 1 \in DOMAIN Tail(f)
    BY <1>2, <1>3
  <2>2. Tail(f)[i - 1] = f[i]
    BY <1>2, <1>3, <2>1
  <2> QED BY <2>1, <2>2
<1> QED BY <1>2, <1>3, SeqOverRange

LEMMA ProcessReplyKeeps ==
    ASSUME KeepInv(main, client), ProcessReply
    PROVE  KeepInv(main', client')
<1> DEFINE f == client.received
           reply == Head(client.received)
           r == reply.request
           t == Tail(client.received)
<1>0. MainOK(main) /\ IdsOK(main, client) /\ Kept(main, client)
  BY DEF KeepInv
<1>1. /\ main' = IF HasHandler(r) /\ ~reply.ok
                 THEN [main EXCEPT !.delayed = @ \union {r}]
                 ELSE [main EXCEPT !.handlers = @ \ {r}, !.known = @ \ {r}]
      /\ client' = [client EXCEPT !.received = t]
      /\ f # Nothing
  BY DEF ProcessReply
<1>2. t \in Seq(Range(t))
      /\ \A i \in DOMAIN f : f[i] = reply \/ \E j \in DOMAIN t : t[j] = f[i]
  BY <1>0, <1>1, TailHas DEF IdsOK
<1> HIDE DEF f, t, r
<1>3. /\ DOMAIN client' = DOMAIN client /\ client'.toSend = client.toSend
      /\ client'.haveSent = client.haveSent
      /\ client'.received = t /\ client'.msgId = client.msgId
      /\ client'.lastId = client.lastId
      /\ client'.moving = client.moving /\ client'.sending = client.sending
      /\ client'.resending = client.resending /\ client'.acked = client.acked
  BY <1>0, <1>1 DEF IdsOK, Fields
<1>4. \A q : Held(client, q) => Held(client', q) \/ q = r
  BY <1>2, <1>3 DEF Held, f, r
<1>5. IdsOK(main, client')
  <2>1. \A m, q : Names(main, client', m, q) => Names(main, client, m, q)
    BY <1>3 DEF Names, Named
  <2> QED BY <1>0, <1>2, <1>3, <2>1 DEF IdsOK
<1>6. CASE HasHandler(r) /\ ~reply.ok
  <2>1. /\ DOMAIN main' = DOMAIN main /\ main'.asked = main.asked
        /\ main'.known = main.known /\ main'.handlers = main.handlers
        /\ main'.delayed = main.delayed \union {r} /\ main'.cancelling = main.cancelling
    BY <1>0, <1>1, <1>6 DEF MainOK
  <2>2. MainOK(main')
    BY <1>0, <2>1 DEF MainOK, Cancelling
  <2>3. Kept(main', client')
    BY <1>0, <1>4, <2>1 DEF Kept, Cancelling
  <2> QED BY <1>5, <2>1, <2>2, <2>3, FewerNames DEF KeepInv
<1>7. CASE ~(HasHandler(r) /\ ~reply.ok)
  <2>1. /\ DOMAIN main' = DOMAIN main /\ main'.asked = main.asked
        /\ main'.known = main.known \ {r} /\ main'.handlers = main.handlers \ {r}
        /\ main'.delayed = main.delayed /\ main'.cancelling = main.cancelling
    BY <1>0, <1>1, <1>7 DEF MainOK
  <2>2. MainOK(main')
    BY <1>0, <2>1 DEF MainOK, Cancelling
  <2>3. Kept(main', client')
    BY <1>0, <1>4, <2>1 DEF Kept, Cancelling
  <2> QED BY <1>5, <2>1, <2>2, <2>3, FewerNames DEF KeepInv
<1> QED BY <1>6, <1>7

LEMMA CheckDelayedKeeps ==
    ASSUME KeepInv(main, client), CheckDelayedRequests
    PROVE  KeepInv(main', client')
<1>1. PICK r \in main.delayed :
        /\ main' = [main EXCEPT !.delayed = @ \ {r}]
        /\ client' = IF r \in main.known THEN SendPrepared(client, r) ELSE client
  BY DEF CheckDelayedRequests
<1>0. MainOK(main) /\ IdsOK(main, client) /\ Kept(main, client)
  BY DEF KeepInv
<1>2. /\ DOMAIN main' = DOMAIN main /\ main'.asked = main.asked
      /\ main'.known = main.known /\ main'.handlers = main.handlers
      /\ main'.delayed = main.delayed \ {r} /\ main'.cancelling = main.cancelling
  BY <1>0, <1>1 DEF MainOK
<1>3. MainOK(main')
  BY <1>0, <1>2 DEF MainOK, Cancelling
<1>4. IdsOK(main, client')
      /\ \A q : Held(client, q) \/ (r \in main.known /\ q = r) => Held(client', q)
  <2>1. CASE r \in main.known
    <3>1. r \in Request /\ client' = SendPrepared(client, r)
      BY <1>0, <1>1, <2>1 DEF MainOK
    <3> QED BY <1>0, <3>1, SendPreparedKeeps
  <2>2. CASE r \notin main.known
    BY <1>0, <1>1, <2>2
  <2> QED BY <2>1, <2>2
<1>5. Kept(main', client')
  BY <1>0, <1>2, <1>4 DEF Kept, MainOK, Cancelling
<1> QED BY <1>2, <1>3, <1>4, <1>5, FewerNames DEF KeepInv

\* cancel(): the id that is read stands for the request that is cancelled, so
\* that no other is erased with it.
LEMMA CancelKeeps ==
    ASSUME KeepInv(main, client), Cancel
    PROVE  KeepInv(main', client')
<1>1. PICK r \in main.known :
        main' = [main EXCEPT !.known = @ \ {r},
                   !.cancelling = [request |-> r, msgId |-> client.msgId[r], next |-> "toSend"]]
  BY DEF Cancel
<1> DEFINE x == [request |-> r, msgId |-> client.msgId[r], next |-> "toSend"]
<1>0. MainOK(main) /\ IdsOK(main, client) /\ Kept(main, client)
      /\ client' = client /\ main.cancelling = Nothing
  BY DEF KeepInv, Cancel, MainIdle
<1>2. x # Nothing /\ "request" \in DOMAIN x
  <2>1. "request" \in DOMAIN x /\ DOMAIN Nothing = {}
    BY DEF Nothing
  <2> HIDE DEF x
  <2> QED BY <2>1
<1>3. x.request = r /\ x.msgId = client.msgId[r]
  OBVIOUS
<1>4. main' = [main EXCEPT !.known = @ \ {r}, !.cancelling = x]
  BY <1>1
<1> HIDE DEF x
<1>5. /\ DOMAIN main' = DOMAIN main /\ main'.asked = main.asked
      /\ main'.known = main.known \ {r} /\ main'.handlers = main.handlers
      /\ main'.delayed = main.delayed /\ main'.cancelling = x
  BY <1>0, <1>4 DEF MainOK
<1>6. \A q \in main.handlers : q \in main.known
  BY <1>0 DEF MainOK, Cancelling
<1>7. MainOK(main')
  BY <1>0, <1>2, <1>3, <1>5, <1>6 DEF MainOK, Cancelling
<1>8. r \in Request
  BY <1>0 DEF MainOK
<1>9. \A m, q : Names(main', client, m, q) => Names(main, client, m, q)
  BY <1>3, <1>5, <1>8 DEF Names, Named, Cancelled
<1>10. IdsOK(main', client)
  BY <1>0, <1>9 DEF IdsOK
<1>11. Kept(main', client)
  BY <1>0, <1>5 DEF Kept, Cancelling
<1> QED BY <1>0, <1>7, <1>10, <1>11 DEF KeepInv

LEMMA CancelToSendKeeps ==
    ASSUME KeepInv(main, client), CancelToSend
    PROVE  KeepInv(main', client')
<1> DEFINE r == main.cancelling.request
           x == [main.cancelling EXCEPT !.next = "haveSent"]
           S == client.toSend \ {r}
<1>0. MainOK(main) /\ IdsOK(main, client) /\ Kept(main, client)
      /\ main.cancelling # Nothing
  BY DEF KeepInv, CancelToSend, MainIdle
<1>1. main' = [main EXCEPT !.cancelling = x] /\ client' = [client EXCEPT !.toSend = S]
      /\ main.cancelling.next = "toSend"
  BY DEF CancelToSend
<1>2. /\ x.request = r /\ x.msgId = main.cancelling.msgId
      /\ "request" \in DOMAIN x /\ x # Nothing
  <2>1. DOMAIN x = DOMAIN main.cancelling
        /\ x.request = r /\ x.msgId = main.cancelling.msgId
    OBVIOUS
  <2>2. "request" \in DOMAIN main.cancelling
    BY <1>0 DEF MainOK
  <2>3. DOMAIN Nothing = {}
    BY DEF Nothing
  <2> HIDE DEF x, r
  <2> QED BY <2>1, <2>2, <2>3
<1> HIDE DEF x, r, S
<1>3. /\ DOMAIN main' = DOMAIN main /\ main'.asked = main.asked
      /\ main'.known = main.known /\ main'.handlers = main.handlers
      /\ main'.delayed = main.delayed /\ main'.cancelling = x
  BY <1>0, <1>1 DEF MainOK
<1>4. /\ DOMAIN client' = DOMAIN client /\ client'.toSend = S
      /\ client'.haveSent = client.haveSent
      /\ client'.received = client.received /\ client'.msgId = client.msgId
      /\ client'.lastId = client.lastId
      /\ client'.moving = client.moving /\ client'.sending = client.sending
      /\ client'.resending = client.resending /\ client'.acked = client.acked
  BY <1>0, <1>1 DEF IdsOK, Fields
<1>5. \A q : Cancelling(main', q) <=> Cancelling(main, q)
  BY <1>0, <1>2, <1>3 DEF Cancelling, r
<1>6. MainOK(main')
  BY <1>0, <1>2, <1>3, <1>5 DEF MainOK
<1>7. \A m, q : Names(main', client', m, q) => Names(main, client, m, q)
  BY <1>0, <1>2, <1>3, <1>4 DEF Names, Named, Cancelled, r
<1>8. IdsOK(main', client')
  BY <1>0, <1>4, <1>7 DEF IdsOK, S
<1>9. \A q : Held(client, q) => Held(client', q) \/ Cancelling(main, q)
  BY <1>0, <1>4 DEF Held, Cancelling, S, r
<1>10. Kept(main', client')
  BY <1>0, <1>3, <1>5, <1>9 DEF Kept
<1> QED BY <1>6, <1>8, <1>10 DEF KeepInv

LEMMA CancelHaveSentKeeps ==
    ASSUME KeepInv(main, client), CancelHaveSent
    PROVE  KeepInv(main', client')
<1> DEFINE r == main.cancelling.request
           k == main.cancelling.msgId
           f == Without(client.haveSent, {k})
           hs == main.handlers \ {r}
<1>0. MainOK(main) /\ IdsOK(main, client) /\ Kept(main, client)
      /\ main.cancelling # Nothing
  BY DEF KeepInv, CancelHaveSent, MainIdle
<1>1. main' = [main EXCEPT !.handlers = hs, !.cancelling = Nothing]
      /\ client' = [client EXCEPT !.haveSent = f]
  BY DEF CancelHaveSent
<1>2. \A m, q : In(f, m, q) => In(client.haveSent, m, q)
  BY InWithout
<1>3. \A m, q : In(client.haveSent, m, q) => In(f, m, q) \/ m = k
  BY DEF In, Without, Restrict
<1> HIDE DEF r, k, f, hs
<1>4. /\ DOMAIN main' = DOMAIN main /\ main'.asked = main.asked
      /\ main'.known = main.known /\ main'.handlers = hs
      /\ main'.delayed = main.delayed /\ main'.cancelling = Nothing
  BY <1>0, <1>1 DEF MainOK
<1>5. /\ DOMAIN client' = DOMAIN client /\ client'.toSend = client.toSend
      /\ client'.haveSent = f
      /\ client'.received = client.received /\ client'.msgId = client.msgId
      /\ client'.lastId = client.lastId
      /\ client'.moving = client.moving /\ client'.sending = client.sending
      /\ client'.resending = client.resending /\ client'.acked = client.acked
  BY <1>0, <1>1 DEF IdsOK, Fields
<1>6. ASSUME NEW q, In(client.haveSent, k, q) PROVE q = r
  <2>1. Names(main, client, k, q)
    BY <1>6 DEF Names, Named
  <2>2. k # None
    BY <1>0, <2>1 DEF IdsOK, None
  <2>3. Names(main, client, k, r)
    BY <1>0, <2>2 DEF Names, Cancelled, k, r
  <2> QED BY <1>0, <2>1, <2>3 DEF IdsOK
<1>7. MainOK(main')
  BY <1>0, <1>4 DEF MainOK, Cancelling, hs, r
<1>8. \A m, q : Names(main', client', m, q) => Names(main, client, m, q)
  BY <1>2, <1>4, <1>5 DEF Names, Named, Cancelled
<1>9. IdsOK(main', client')
  BY <1>0, <1>5, <1>8 DEF IdsOK
<1>10. \A q : Held(client, q) => Held(client', q) \/ q = r
  BY <1>3, <1>5, <1>6 DEF Held
<1>11. Kept(main', client')
  BY <1>0, <1>4, <1>10 DEF Kept, Cancelling, hs, r
<1> QED BY <1>7, <1>9, <1>11 DEF KeepInv

\* stop() and start(): SessionData has all that waits.
LEMMA StopAndStartKeeps ==
    ASSUME KeepInv(main, client), StopAndStart
    PROVE  KeepInv(main', client')
<1> DEFINE n == NewPrivate
           d == [client EXCEPT !.session = @ + 1, !.since = client.lastId]
           ds == {"toSend", "haveSent", "received", "msgId", "lastId"}
           ns == {"moving", "sending", "resending", "acked"}
<1>0. IdsOK(main, client) /\ main' = main
      /\ client.moving = Nothing /\ client.sending = Nothing
  BY DEF KeepInv, StopAndStart, Idle
<1>1. client' = n ++ d
  BY DEF StopAndStart
<1>2. /\ DOMAIN d = DOMAIN client /\ d.toSend = client.toSend
      /\ d.haveSent = client.haveSent
      /\ d.received = client.received /\ d.msgId = client.msgId
      /\ d.lastId = client.lastId
  OBVIOUS
<1>3. /\ ns \subseteq DOMAIN n /\ ds \intersect DOMAIN n = {}
      /\ n.moving = Nothing /\ n.sending = Nothing
      /\ n.resending = Nothing /\ n.acked = Nothing
  BY DEF NewPrivate
<1> HIDE DEF n, d
<1>4. DOMAIN client' = DOMAIN n \union DOMAIN d
      /\ \A x \in DOMAIN n \union DOMAIN d : client'[x] = IF x \in DOMAIN n THEN n[x] ELSE d[x]
  BY <1>1 DEF ++
<1>5. /\ Fields \subseteq DOMAIN client'
      /\ client'.toSend = client.toSend /\ client'.haveSent = client.haveSent
      /\ client'.received = client.received
      /\ client'.msgId = client.msgId /\ client'.lastId = client.lastId
      /\ client'.moving = Nothing /\ client'.sending = Nothing
      /\ client'.resending = Nothing /\ client'.acked = Nothing
  <2>1. ds \subseteq DOMAIN d
    BY <1>0, <1>2 DEF IdsOK, Fields
  <2>2. \A x \in ds : client'[x] = d[x] /\ x \in DOMAIN client'
    BY <1>3, <1>4, <2>1
  <2>3. \A x \in ns : client'[x] = n[x] /\ x \in DOMAIN client'
    BY <1>3, <1>4
  <2> QED BY <1>2, <1>3, <2>2, <2>3 DEF Fields
<1>6. \A m, r : ~In(Nothing, m, r)
  BY DEF In, Nothing
<1>7. \A m, r : Names(main, client', m, r) => Names(main, client, m, r)
  BY <1>5, <1>6 DEF Names, Named
<1>8. IdsOK(main, client')
  BY <1>0, <1>5, <1>7 DEF IdsOK
<1>9. \A r : Held(client, r) => Held(client', r)
  BY <1>0, <1>5, <1>6 DEF Held
<1> QED BY <1>0, <1>8, <1>9, HoldsKeepsAll

LEMMA MainNextKeeps ==
    ASSUME KeepInv(main, client), MainNext
    PROVE  KeepInv(main', client')
  BY SendRequestKeeps, ProcessReplyKeeps, CheckDelayedKeeps, CancelKeeps,
     CancelToSendKeeps, CancelHaveSentKeeps, StopAndStartKeeps DEF MainNext

\* No request that waits for its answer is forgotten, as long as _ackedIds
\* has room for the ids that wait: whatever the connection, the server and
\* the user do, it is to be sent, was sent, is on its way between the two
\* maps, was answered, or was put off.
THEOREM RequestsAreKept == Spec /\ []Roomy(client) => []RequestIsKept
<1>1. KeepInv(main, client) /\ Roomy(client) /\ [Next]_vars => KeepInv(main, client)'
  <2> SUFFICES ASSUME KeepInv(main, client), Roomy(client), [Next]_vars
               PROVE  KeepInv(main', client')
    OBVIOUS
  <2>1. CASE UNCHANGED vars
    BY <2>1 DEF vars
  <2> QED BY <2>1, MainNextKeeps, PrivateNextKeeps, ServerNextKeeps DEF Next
<1>2. KeepInv(main, client) => RequestIsKept
  BY KeptIsKept DEF KeepInv
<1> QED BY InitKeeps, <1>1, <1>2, PTL DEF Spec
=============================================================================
