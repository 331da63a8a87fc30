----------------------------- MODULE MCUpdates -----------------------------
(* Model values for Updates. *)
EXTENDS Updates

MCCounts == {1, 2}
MCOne == {1}
MCSeqKinds == Kinds \ {"short"}
MCPlainKinds == Kinds \ {"combined"}
MCNone == {}
=============================================================================
