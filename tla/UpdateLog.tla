----------------------------- MODULE UpdateLog -----------------------------
(***************************************************************************)
(* What the update machinery promises, whatever the box is: the server     *)
(* makes updates with a rising pts, the client learns them, and the pts it *)
(* claims to have reached only rises and never passes an update it has not *)
(* learnt.  ChannelUpdates and Updates implement it: in the code the claim *)
(* is PtsWaiter::current(), the pts of the next difference request.        *)
(***************************************************************************)
EXTENDS Integers

VARIABLES
    log,     \* the updates the server has made
    known,   \* those the client has learnt
    claimed  \* the pts the client claims to have reached

logVars == <<log, known, claimed>>

Complete(l, k, pts) == \A u \in l : u.pts <= pts => u \in k

Init == log = {} /\ known = {} /\ claimed \in Nat

\* The server makes an update beyond everything claimed so far.
Make ==
    /\ \E u \in log' \ log :
          /\ u.pts > claimed /\ \A v \in log : u.pts > v.pts
          /\ log' = log \union {u}
    /\ UNCHANGED <<known, claimed>>

\* The client learns updates, in any order, and may move its claim forward.
Learn ==
    /\ known \subseteq known' /\ known' \subseteq log /\ log' = log
    /\ claimed' \in Nat /\ claimed' >= claimed
    /\ Complete(log, known', claimed')

Next == Make \/ Learn

Spec == Init /\ [][Next]_logVars
=============================================================================
