----------------------------- MODULE MCSession -----------------------------
(* Sets for Session. *)
EXTENDS Session

MCAll == Request
MCNone == {}
MCEverything == FaultKinds
MCNotFatal == FaultKinds \ {"fatal"}
=============================================================================
