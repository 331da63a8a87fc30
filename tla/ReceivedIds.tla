---------------------------- MODULE ReceivedIds ----------------------------
(***************************************************************************)
(* MTP::details::ReceivedIdsManager: the window of the ids of messages     *)
(* received in a session.  A message is handled when its id is registered  *)
(* with success.  The window keeps the largest BufferSize ids, and refuses *)
(* an id below all of them, because it cannot tell whether it has seen it. *)
(***************************************************************************)
EXTENDS Naturals, FiniteSets

CONSTANT BufferSize \* kIdsBufferSize

ASSUME BufferSizeAssumption == BufferSize \in Nat \ {0}

\* Faulty variant: an id below the window is a new one.
FitsBelow(ids, m) == m \notin ids

\* Result::Success of registerMsgId().  Otherwise it is Duplicate for an id
\* of the window, TooOld for another.
Fits(ids, m) ==
    /\ m \notin ids
    /\ Cardinality(ids) < BufferSize \/ \E n \in ids : n < m

Registered(ids, m) == IF Fits(ids, m) THEN ids \union {m} ELSE ids

Above(ids, m) == {n \in ids : n > m}

\* shrink(): the smallest are erased.
Shrunk(ids) == {m \in ids : Cardinality(Above(ids, m)) < BufferSize}
=============================================================================
