-------------------------------- MODULE Vault --------------------------------
(***************************************************************************)
(* The fork's message vault and what Data::Session tells it: a message     *)
(* that the server deletes stays on the screen, marked as deleted, and one *)
(* that is destroyed is first written to a database.  The controller that  *)
(* owns the vault is initialized before sessions exist and shut down       *)
(* before they go.                                                         *)
(***************************************************************************)
EXTENDS Naturals, FiniteSets

CONSTANTS
  Messages,     \* regular messages of the account
  MaxRows,      \* bound: rows of the database for one message
  DatabaseOpens \* subset of BOOLEAN: whether vault.db can be opened

VARIABLES
  app,       \* "off", "running", or "quitting" (~Application)
  ready,     \* FainsGramController::_initialized
  open,      \* MessageVault::_initialized
  alive,     \* the server's messages
  loaded,    \* items of _messages, _nonChannelMessages
  preserved, \* items with _isDeletedPreserved
  timed,     \* items whose self-destruction has started
  rows,      \* the database, of each message the types of its rows
  deleted    \* history: loaded when the server deleted them

vars == <<app, ready, open, alive, loaded, preserved, timed, rows, deleted>>

NoRows == [Deleted |-> 0, Disappearing |-> 0]

Init ==
  /\ app = "off" /\ ready = FALSE /\ open = FALSE
  /\ alive = Messages
  /\ loaded = {} /\ preserved = {} /\ timed = {} /\ deleted = {}
  /\ rows = [m \in Messages |-> NoRows]

\* MessageVault::capture: one row more, never asking whether there is one.
\* It writes nothing, and tells nobody, when the database was not opened.
Capture(m, type, count) ==
  IF open
    THEN /\ rows[m][type] + count <= MaxRows
         /\ rows' = [rows EXCEPT ![m][type] = @ + count]
    ELSE UNCHANGED rows

\* The items of a session go without a word: ~HistoryItem captures nothing.
Dropped == loaded' = {} /\ preserved' = {} /\ timed' = {}

\* initialize(): a new MessageVault, which may not open its database.
Initialize == ready' = TRUE /\ open' \in DatabaseOpens

Start ==
  /\ app = "off" /\ app' = "running"
  /\ Initialize
  /\ UNCHANGED <<alive, loaded, preserved, timed, rows, deleted>>

\* A slice, a dialog or an update brings a message.
Load(m) ==
  /\ app = "running" /\ m \in alive \ loaded
  /\ loaded' = loaded \cup {m}
  /\ UNCHANGED <<app, ready, open, alive, preserved, timed, rows, deleted>>

\* History::destroyMessage captures, and so does unregisterMessage, which it
\* calls.
Destroy(m) ==
  /\ loaded' = loaded \ {m} /\ preserved' = preserved \ {m}
  /\ timed' = timed \ {m}
  /\ IF ready THEN Capture(m, "Deleted", 2) ELSE UNCHANGED rows

\* Deleted elsewhere, or expired for everybody: updateDeleteMessages.  With
\* the fork running the item is only marked.
ServerDeletes(m) ==
  /\ m \in alive /\ alive' = alive \ {m}
  /\ app = "running"
  /\ IF m \notin loaded
       THEN UNCHANGED <<loaded, preserved, timed, rows, deleted>>
       ELSE /\ deleted' = deleted \cup {m}
            /\ IF ready
                 THEN /\ preserved' = preserved \cup {m}
                      /\ UNCHANGED <<loaded, timed, rows>>
                 ELSE Destroy(m)
  /\ UNCHANGED <<app, ready, open>>

\* Deleted while no update can be received.
DeletedUnseen(m) ==
  /\ app = "off" /\ m \in alive
  /\ alive' = alive \ {m}
  /\ UNCHANGED <<app, ready, open, loaded, preserved, timed, rows, deleted>>

\* Histories::deleteMessages by the user, or checkTTLs() by the clock.
DeleteHere(m) ==
  /\ app = "running" /\ m \in loaded
  /\ alive' = alive \ {m}
  /\ Destroy(m)
  /\ UNCHANGED <<app, ready, open, deleted>>

\* The media of a self-destructing message was read.
StartSelfDestruct(m) ==
  /\ app = "running" /\ m \in loaded \ timed
  /\ timed' = timed \cup {m}
  /\ IF ready THEN Capture(m, "Disappearing", 1) ELSE UNCHANGED rows
  /\ UNCHANGED <<app, ready, open, alive, loaded, preserved, deleted>>

\* remove() and clear() of the vault: the user wants no copy of m.
Forget(m) ==
  /\ app = "running" /\ open
  /\ rows' = [rows EXCEPT ![m] = NoRows]
  /\ deleted' = deleted \ {m}
  /\ UNCHANGED <<app, ready, open, alive, loaded, preserved, timed>>

\* Data::Session::clear() at logout.
Logout ==
  /\ app = "running" /\ loaded # {}
  /\ Dropped
  /\ UNCHANGED <<app, ready, open, alive, rows, deleted>>

\* ~Application: shutdown() of the controller first ...
Shutdown ==
  /\ app = "running" /\ app' = "quitting"
  /\ ready' = FALSE
  /\ UNCHANGED <<open, alive, loaded, preserved, timed, rows, deleted>>

\* ... then the windows, which may ask for one of its parts and so
\* initialize it again ...
AskedWhileQuitting ==
  /\ app = "quitting" /\ ~ready
  /\ Initialize
  /\ UNCHANGED <<app, alive, loaded, preserved, timed, rows, deleted>>

\* ... then Domain::finish(), which clears the sessions.
Finish ==
  /\ app = "quitting" /\ app' = "off"
  /\ Dropped /\ ready' = FALSE /\ open' = FALSE
  /\ UNCHANGED <<alive, rows, deleted>>

\* The process is killed: what is committed to the database stays.
Crash ==
  /\ app = "running" /\ app' = "off"
  /\ Dropped /\ ready' = FALSE /\ open' = FALSE
  /\ UNCHANGED <<alive, rows, deleted>>

Next ==
  \/ \E m \in Messages :
       \/ Load(m) \/ ServerDeletes(m) \/ DeletedUnseen(m) \/ DeleteHere(m)
       \/ StartSelfDestruct(m) \/ Forget(m)
  \/ Start \/ Logout \/ Shutdown \/ AskedWhileQuitting \/ Finish \/ Crash

Spec == Init /\ [][Next]_vars

-----------------------------------------------------------------------------
Captured(m) == rows[m].Deleted + rows[m].Disappearing > 0

\* What message_vault.h promises, "captures messages BEFORE deletion/expiry":
\* a message the server deleted while it was loaded is still shown, marked as
\* deleted, or is in the vault.  Marking it in processMessagesDeleted() takes
\* the place of capturing it, and the end of the session loses the mark.
DeletionIsKept == \A m \in deleted : m \in preserved \/ Captured(m)
=============================================================================
