----------------------------- MODULE PtsWaiter -----------------------------
(***************************************************************************)
(* The counting box of data/data_pts_waiter.{h,cpp}.  One box orders the   *)
(* updates of the account (owned by Api::Updates) or of one channel (owned *)
(* by ChannelData).  An update u = [pts, count] moves the server's counter *)
(* from u.pts - u.count to u.pts: it stands for the points of the interval *)
(* Points(u).  The box adds up the counts it is given and compares the sum *)
(* with the largest pts it has seen; while the two differ an update is     *)
(* missing, later ones are kept in the skipped queue and a timer is armed  *)
(* after which the owner asks the server for the difference.               *)
(*                                                                         *)
(* The module has no variables: the operators are the methods, applied to  *)
(* a box record by the state machines of Updates and ChannelUpdates.  The  *)
(* payload of an update is abstracted to its identity; the skipped queue   *)
(* is a set, which the code walks in pts order (its key starts with the    *)
(* pts).  `timer' says whether the owner's difference timer runs for this  *)
(* box (_getDifferenceTimeByPts or the channel's entry of                  *)
(* _whenGetDiffByPts); when it expires is left open.                       *)
(***************************************************************************)
EXTENDS Integers

\* The larger of two numbers (qMax).
Larger(a, b) == IF a > b THEN a ELSE b

\* The values of the server's counter an update accounts for, the one before
\* them, and those of a set of updates.
Points(u) == (u.pts - u.count + 1) .. u.pts
Before(u) == u.pts - u.count
Covered(S) == UNION {Points(u) : u \in S}

NewBox ==
    [good |-> 0, last |-> 0, count |-> 0, queue |-> {}, requesting |-> FALSE,
     waitSkipped |-> FALSE, waitShortPoll |-> FALSE, timer |-> FALSE]

BoxType(Pts, Upd) ==
    [good : Pts, last : Pts, count : Nat, queue : SUBSET Upd,
     requesting : BOOLEAN, waitSkipped : BOOLEAN, waitShortPoll : BOOLEAN,
     timer : BOOLEAN]

Inited(b) == b.good > 0

\* The sum of the counts and the largest pts differ: an update is missing.
Gap(b) == b.last # b.count

\* init(): the wait flags and the timer keep what they were.
InitPts(b, pts) ==
    [b EXCEPT !.good = pts, !.last = pts, !.count = pts, !.queue = {}]

SetRequesting(b, isRequesting) ==
    [b EXCEPT !.requesting = isRequesting,
              !.queue = IF isRequesting THEN {} ELSE @]

\* ptsWaiterStartTimerFor(ms > 0).  The owner looks at the clock once more
\* after it has computed the deadline; when that is then over it asks for
\* the difference before the call returns.
Deadlines == {"ahead", "over"}

StartTimer(b, deadline) ==
    IF deadline = "over"
    THEN [SetRequesting(b, TRUE) EXCEPT !.timer = FALSE]
    ELSE [b EXCEPT !.timer = TRUE]

\* Faulty variant: hiding the channel ends the wait for a missing update.
CheckForWaitingNotForSkipped(b) == [b EXCEPT !.timer = @ /\ b.waitShortPoll]

\* checkForWaiting(): the timer stops when neither reason to wait is left.
CheckForWaiting(b) ==
    [b EXCEPT !.timer = @ /\ (b.waitSkipped \/ b.waitShortPoll)]

StartWaitingForSkipped(b, deadline) ==
    [StartTimer(b, deadline) EXCEPT !.waitSkipped = TRUE]

StopWaitingForSkipped(b) == CheckForWaiting([b EXCEPT !.waitSkipped = FALSE])

StartWaitingForShortPoll(b) ==
    [b EXCEPT !.timer = TRUE, !.waitShortPoll = TRUE]

StopWaitingForShortPoll(b) == CheckForWaiting([b EXCEPT !.waitShortPoll = FALSE])

Counted(b, u) ==
    [b EXCEPT !.last = Larger(@, u.pts), !.count = @ + u.count]

\* Faulty variant: the update that ends at the box's pts is not seen as old.
OldOffByOne(b, u) == u.pts < b.good /\ u.count > 0

\* An update the box has already moved past.
Old(b, u) == u.pts <= b.good /\ u.count > 0

Skipped(b, u) == [b EXCEPT !.queue = @ \union {u}]

\* Faulty variant: an update is applied though one before it is missing.
CheckPassesAlways(b, u) == TRUE

\* check(): whether u may be applied now, and the box after u is counted.
CheckPasses(b, u) == ~Inited(b) \/ ~Gap(Counted(b, u)) \/ u.count = 0

Check(b, u, deadline) ==
    LET c == Counted(b, u) IN
    IF ~Inited(b) THEN InitPts(b, u.pts)
    ELSE IF Gap(c) THEN StartWaitingForSkipped(c, deadline)
    ELSE [c EXCEPT !.good = c.last]

\* Faulty variant: results are counted while the difference is requested.
UpdatedCountWhileRequesting(b, u, deadline) ==
    IF Old(b, u) THEN b ELSE Check(b, u, deadline)

\* updated(): without a payload there is nothing to queue; with one, an
\* update that was counted and may not be applied yet is queued.
UpdatedPasses(b, u) == b.requesting \/ (~Old(b, u) /\ CheckPasses(b, u))

UpdatedCount(b, u, deadline) ==
    IF b.requesting \/ Old(b, u) THEN b ELSE Check(b, u, deadline)

Updated(b, u, deadline) ==
    LET c == UpdatedCount(b, u, deadline)
    IN  IF UpdatedPasses(b, u) \/ Old(b, u) THEN c ELSE Skipped(c, u)

\* Faulty variant: the queue keeps what was applied.
ApplySkippedKeepsQueue(b) ==
    IF b.waitSkipped THEN [box |-> StopWaitingForSkipped(b), applied |-> b.queue]
    ELSE [box |-> b, applied |-> {}]

\* applySkippedUpdates(): `applied' is what is fed to the owner.
ApplySkipped(b) ==
    IF b.waitSkipped
    THEN [box |-> [StopWaitingForSkipped(b) EXCEPT !.queue = {}],
          applied |-> b.queue]
    ELSE [box |-> b, applied |-> {}]

\* Faulty variant: the update that closes the gap is applied without those
\* that were waiting for it.
UpdateAndApplyDirectly(b, u, deadline) ==
    LET c == Updated(b, u, deadline) IN
    IF ~UpdatedPasses(b, u) THEN [box |-> c, applied |-> {}]
    ELSE [box |-> c, applied |-> {u}]

\* updateAndApply() with a payload.
UpdateAndApply(b, u, deadline) ==
    LET c == Updated(b, u, deadline) IN
    IF ~UpdatedPasses(b, u) THEN [box |-> c, applied |-> {}]
    ELSE IF ~c.waitSkipped \/ c.queue = {} THEN [box |-> c, applied |-> {u}]
    ELSE ApplySkipped(Skipped(c, u))

\* updateAndApply() without one: the caller has applied the effect itself.
UpdateAndApplyCount(b, u, deadline) ==
    LET c == UpdatedCount(b, u, deadline)
    IN  IF UpdatedPasses(b, u) THEN ApplySkipped(c) ELSE [box |-> c, applied |-> {}]
=============================================================================
