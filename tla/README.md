# A verification development for FainsGram

FainsGram is a fork of Telegram Desktop. This directory holds TLA+ models of
the parts of its client core whose behaviour depends on ordering, timing and
failure, the TLC configurations that check them on small instances, and TLAPS
proofs for all values of the constants. Paths below are relative to
`src/Telegram/SourceFiles`.

## 1. The system and its parts

| Part | Code | State it keeps | Operations | Status |
|---|---|---|---|---|
| PtsWaiter | `data/data_pts_waiter.*` | `_good`, `_last`, `_count`, the skipped queue, requesting and waiting flags | `init`, `updated`, `updateAndApply`, `setRequesting`, waits | modelled |
| Channel updates | `api/api_updates.cpp`, `data/data_channel.h` | one PtsWaiter per channel, `_whenGetDiffByPts`, `_whenGetDiffAfterFail`, `_activeChats` | pushes, results, `getChannelDifference`, short poll | modelled except range differences |
| Account updates | `api/api_updates.cpp` | the account's PtsWaiter, `_updatesSeq`, `_updatesDate`, `_bySeqUpdates`, four timers | containers, `getState`, `getDifference`, new session | modelled except qts, online status |
| MTProto session | `mtproto/session*.cpp`, part of `mtp_instance.cpp` | requests to send, sent, to resend, acknowledged; containers, salt, session id; handlers and delayed requests | send, receive, acknowledge, ask for states, resend, cancel, restart | modelled except keys, http, dependent requests |
| Received message ids | `mtproto/details/mtproto_received_ids_manager.cpp` | a window of the ids received last | register, drop duplicates, shrink | modelled |
| Auth keys, data centres | `mtproto/details/mtproto_dc*.cpp` | persistent and temporary key, who creates it | acquire, release, bind, destroy | planned |
| MTP instance | `mtproto/mtp_instance.cpp`, `config_loader.cpp` | sessions, handlers, delayed and waiting requests | send, migrate, import, flood wait | planned |
| Data::Histories | `data/data_histories.cpp`, `history/history.cpp` | per history: requests, postponed requests, read marks; dialog entries asked for | `sendRequest`, `cancelRequest`, `readInbox*`, `requestDialogEntry`, answers, timer | modelled except topics and unread marks |
| Download manager | `storage/download_manager_mtproto.cpp`, `file_download_mtproto.cpp`, `media/streaming/media_streaming_loader_mtproto.cpp` | per data centre a queue of tasks, sessions with limits; per task requests, CDN, hashes, parts | enqueue, send, part done, redirect, hashes, reference renewed, failed, cancel, session added or taken away | modelled except web files, unknown sizes, failed writes |
| Uploader | `storage/file_upload.cpp` | queues, parts in flight, per-session limits | start, part done, part failed, cancel | planned |
| Streaming reader | `media/streaming/media_streaming_reader.cpp`, part of `media_streaming_file.cpp` | slices and header, loads and cache reads under way, who sleeps on which semaphore | fill, part arrived, cache entry arrived, unload, stop, start | modelled except the downloader's side |
| FainsGram vault and ghost mode | `fainsgram/*`, `data/data_session.cpp` | the vault's database, items kept after their deletion, ghost flags | capture, preserve, suppress a read | vault and read receipts modelled |
| Scheduled messages, accounts, local storage, calls, export, other FainsGram controllers | see `PROJECT.json` | | | planned or left out with the reason |
| User interface, platform, third party, build | | | | not modelled |

How they interact. MTProto hands every pushed `Updates` container to
`Api::Updates::mtpUpdateReceived` on the main thread, announces a new server
session to `mtpNewSessionCreated`, and gives results to the callbacks of their
requests. Results reach the same boxes through `ApiWrap::applyUpdates`,
`applyAffectedHistory` and `applyAffectedMessages`, and responses with messages
of a channel through `ChannelData::ptsReceived`. The boxes call back into
`Api::Updates` to start timers, which ask for differences, whose answers
reinitialise the boxes. A pushed message of a channel goes first through the
account's container order and then to the channel's box; what the account drops
for a channel is reported by the account's difference as "channel too long".
Views and widgets call `Data::Histories` to read, send, delete and load; it
gives `History` the read marks and unread counts, which pushes, dialog entries
and reads on other devices change as well. The fork's ghost mode
(`fainsgram/ghost_controller.cpp`) is asked in two places there.

Below all of them, `MTP::Instance` and `Session` live on the main thread and
`SessionPrivate` on a thread of its own; they share the maps of `SessionData`,
each under its own lock, and signal each other by queued calls. The streaming
thread calls `Reader::fill`; the loader on the main thread and the threads of
the cache database put parts and entries into queues the reader looks at, and
release a semaphore it may be sleeping on. That loader and the loaders of files
are tasks of the download manager, which runs on the main thread: whatever ends
a request may send parts of any task, and taking a session away moves requests of
all of them.

What is hard: pushes, results and answers meet in any order; four timers and
three kinds of notices ask for the same difference; answers come in slices or
fail and are repeated; pushes are ignored meanwhile; a wait can end inside the
call that starts it. In `Data::Histories` one answer finishes a request, sends
the postponed ones, starts reads of other chats and may erase the state it
works on; the answer of one request can be older than the effect of another. In
the session a request moves between maps under two locks, ids are renamed while
their acknowledgements travel, and the server repeats what it did not see
acknowledged. In the reader a thread decides to sleep from queues that two
others fill, and stopping forgets loads whose answers still come. In the download
manager an answer may resend all requests of a task, destroy the task, or be the
only event that would have sent the parts of another.

## 2. What makes the parts correct

* No update is lost: the pts a box claims, which is where the next difference
  starts, never passes an update that was not applied (`NoLostUpdate`), and the
  same of seq numbers and containers (`NoLostContainer`).
* Updates pushed in the wrong order take effect in the right one
  (`PushedInOrder`, `ContainersInOrder`).
* Everything that waits has something that ends the wait (`GapWaits`,
  `QueueWaitsForGap`), and the poll of a shown channel goes on (`PollGoesOn`).
* The requesting flag agrees with the request (`RequestMatchesBox`, proved).
* What a skipped message depends on does not move (`SkippedStaysAhead`).
* In the end the client has everything (`GapCloses`, `CatchesUp`).
* Requests about a chat exclude each other as they must: slices and deletions
  (`DeletionsExcludeSlices`), and entries and everything but slices
  (`EntryWaitsForRequests`); whoever waits is served (`EntryIsComing`,
  `EntryArrives`, `SliceEnds`), and the tables say what is on
  its way (`TableIsTheNet`).
* Reads are told in order and once the time has come (`ReadsInOrder`), and what
  ghost mode drops is gone (`DroppedReadIsGone`, which does not hold);
  what is shown as read the server gets to know (`ShownReadIsTold`), and the
  unread count becomes the server's (`CountSettles`).
* Both boxes implement one abstract promise, `UpdateLog` (`KeepsLog`).
* A request is in some map until it is answered (`RequestIsKept`), is answered
  in the end (`Answered`) and not sent for ever (`Drains`); a session of the
  server runs it once unless it failed (`RunsOnce`), and its ids are those of the
  session (`FreshIds`). Nothing the server repeats is handled twice
  (`HandledOnce`), and an id is replaced only under the lock it needs
  (`NumberedIsForced`).
* A read of a streamed file ends (`ReadEnds`), each part counted as loading is
  on its way (`LoadingIsComing`) and none is loaded that the slice's
  entry in the cache has (`LoadsOnlyMissing`); saving never loses what was saved (`EntriesGrow`), and
  none of the reader's own assertions fails (`Asserted`).
* What sessions are taken to wait for is what they wait for (`AmountsAdd`), no
  part of a download is lost or loaded twice (`PartIsComing`), no file is left
  waiting for an event that does not come (`NoneStuck`), and what is redirected
  never goes to the session that is taken away (`Asserted`).
* What the server deletes is kept (`DeletionIsKept`, which does not hold).

## 3. Modules

* `PtsWaiter` — the methods of the counting box as operators on a record. It has
  no variables. An update is `[pts, count]`; the two maps of payloads are one
  set, walked in pts order by the code. A timer is a flag: when it expires is
  left open. The owner reads the clock twice when a wait is started, so the
  deadline may be over at once (`Deadlines`).
* `UpdateLog` — the abstract promise: a log that grows, a set of known updates
  that grows within it, and a claim that rises over known updates only.
* `ChannelUpdates` — one channel: its box, its request, the server's log of the
  channel and the network. Actions are named after the handlers. `ReceiveHistory`
  is `ChannelData::ptsReceived`, on a channel whose pts is known or not.
  `HideChannel` and `WindowGoes` are the two ways to leave `_activeChats`; one
  window is modelled. `known`, `counted` and `base` are history variables.
* `Updates` — the account: the box, seq order, date, timers, request. Handlers
  are operators from one client record to the next because they call one
  another; the loop of `setState` that recurses through `applyUpdates` is the
  fold `Drain` over the waiting containers in seq order.
* `Histories` — `Data::Histories` with the parts of `History` it changes, as a
  record that handlers map to the next one, and the server. Handlers call one
  another in the order of the code: `FinishSentRequest` contains `checkPostponed`,
  the slices sent again, the entry asked for again and the erasing of an empty
  state. Left to sets and flags: a chat's messages are all loaded or none is;
  its folder is known when its unread count is; the account is in every chat;
  `willReadWhen` is no time, a later one or one that has passed. When ghost mode
  drops a read, `finished` runs inside the loop of `sendReadRequests`; the reads
  it would send there are the ones the loop sends anyway, so the model runs one
  loop. A `scene` is what goes on in a behaviour (which chats, what may fail, in
  which order answers come): two of them share a run. Using a `State` after it was
  erased is undefined: the program goes on or ends (`Crash`). The loop of
  `sendReadRequests` over the flat map of states, from which a dropped read may
  erase one, is such a use too; "goes on" there is the loop as it was meant.
  `ChannelDeletion` is the answer of `channels.deleteChannel`, which nobody takes:
  `deleteAllMessages` gives it no `finish`, neither for done nor for fail.
  `called`, `calls` and `dropped` are history.
* `ReceivedIds` — the window of received ids as operators on a set: which ids
  are accepted (`Fits`), registering and shrinking. `Result::TooOld` and
  `Duplicate` are told apart in `Session`.
* `Session` — one session with its two threads, the requests the instance knows,
  the connection and the server. A handler of `SessionPrivate` that takes a
  request out of one map and puts it into another under a second lock is two
  actions (`SendSingle`/`FinishSingle`; resending and `FinishResend`), and so is
  `Instance::cancel` in three, so that the main thread's steps fall between them.
  Message ids are numbers in the order of creation; a container is named by the
  ids in it; a request for states by the ids it asks about. `PrepareToSend` is
  `prepareToSend` and `replaceMsgId` for a whole batch, with the renaming in
  every map. `accepted`, `repeated`, `runs` and `fails` are history. Two steps are
  coarser than the code. `SendSingle` unlocks `toSend` and prepares the request
  it took out in one step: the request has no id yet (`NumberedIsForced`), so
  preparing it touches no map that the main thread could see in between.
  `ProcessReply` takes the handler out and, for an error that puts the request
  off, back in one step: in between, an acknowledgement of another copy of the
  request would count as final and take that copy out of `haveSent`; the request
  is put off by the same step, and so sent again in either case.
* `Streaming` — `Reader` with its slices, header and cache helper, and the parts
  of `Streaming::File` that start, wake, interrupt and stop its thread. The three
  threads have a program counter where they hold no lock, and each look at a
  shared queue is a step. Parts are numbers; an entry of the cache is the set of
  its parts; `broken` records a failed assertion of the code. The downloader's
  side is left out, and with it `processDownloaderRequests` where streaming stops.
  `CacheReleases` clears the pointer to the semaphore and releases it in one step:
  what a release in between does to a context that is gone is undefined in the
  code and at most a wake-up too many here.
* `Downloads` — the download manager with the tasks of one data centre: files,
  which load every part in order, and streams, which load what a reader asks for.
  The manager and its tasks are one record, and handlers are operators from such a
  record to the next, because nearly all of them end in `CheckSendNext`, the loop
  that sends parts until no session or no task is ready. A part is one unit of
  what a session waits for. A request keeps its kind (`part`, `cdn`, `hashes`,
  `reupload`), offset, session and what it waits for; calls posted to the main
  thread are a queue; times are choices: an answer came slowly, or too early to
  add a session, or neither (`pace`), and timers that are set may run. The owner
  of a file destroys its task in the event that says that it ended, as
  `~DownloadMtprotoTask` does. `wanted` is what the reader waits for, and `broken`
  records a failed `Expects`, `Ensures` or `Assert`, with which the program ends.
  `spoiled` is history: the tasks whose CDN token was refused while parts were held
  back for their hashes.
* `Vault` — the fork's message vault with what `Data::Session` does to an item
  that the server deletes, that is destroyed or that destroys itself, and the
  application's start and end around it.
* `MCChannelUpdates`, `MCUpdates`, `MCHistories`, `MCSession`, `MCStreaming`,
  `MCDownloads`, `MCVault` — model values, and the scenes of `Histories`.
* `PtsWaiter_proofs`, `ChannelUpdates_proofs`, `Updates_proofs`,
  `Histories_proofs`, `Session_proofs`, `Streaming_proofs`, `Downloads_proofs`,
  `DownloadsWaiting_proofs` — theorems, see section 6.

The operators marked "Faulty variant" are plausible mistakes in the operator
that follows them. No specification uses them; each shows that some property
notices the mistake (the pairs are the `mutants` of `PROJECT.json`).

Environment assumptions. The server gives updates consecutive, disjoint
intervals of its counter with positive counts, and each is handed over at most
once (as a push or in a result): MTProto drops duplicates by message id, which
`HandledOnce` of `Session` shows for the messages of a session. An answer to a difference request brings the updates
up to its pts. `Ordered = TRUE` adds that messages are received in sending
order, as one TCP connection gives it; the safety runs do without it. A
difference asked for with a date reports the channel messages after that date.

For `Session`: keys exist and are bound, the client's clock is right, a message
arrives whole or not at all and, within one connection, in order. The server
runs a message id once per session, answers in any order, acknowledges or not,
may refuse a packet, and sends again in a new connection what it has not seen
acknowledged. It forgets a session only together with the connection.

For `Streaming`: the file does not fit into the header's entry and has a cache
key; one thread streams. The loader brings each requested part, or fails, in any
order; the cache database answers each read. The run starts from caches a
destroyed reader leaves (`LeftInOrder`), not from what one that was cut off may
have left; the theorems have that as a condition, and `LeavesInOrder` says that a
destroyed reader, which itself found such a cache, leaves such a one. A read spans
two slices at most.

For `Downloads`: an answer comes, or a failure, for each request; answers may
overtake each other; a hash that is asked for comes unless something is wrong;
once a file reference has expired it has for all requests made with it. A CDN
token may be refused at any time, also in the answer of a request for hashes.

For `Histories`: pushes about a chat do not overtake answers computed before
them (`InOrder`). An ordered scene adds that answers arrive in the order in
which the server made them. `CountSettles` and `ShownReadIsTold` need it: an
entry computed before a read and answered after it is taken, because the read
no longer postpones it. They also need every message to be incoming: with an
outgoing last message in a history that is not loaded, an unread count of one
moves the read mark past the unread message (`lastOutgoing` is false). Both are
listed as hazards.

## 4. Runs

| Run | Asks | Bounds |
|---|---|---|
| `channel_pushes` | safety of a channel whose pts is unknown at first, under pushes, results, responses with a pts, losses, failures, slices, short poll, in any order; what ends a wait and a poll; the refinement of `UpdateLog` | pts 0..4, counts 1 and 2, one loss, failure and view |
| `channel_liveness` | the client catches up, gaps close unless a response makes the client give them up; messages in order, losses reported | pts 1..4, two losses, one failure |
| `updates` | safety of the account's pts, of the seq order and of the date, all kinds of containers and results, unordered; the refinement of `UpdateLog` | 3 events, one result, loss or new session, failure |
| `updates_liveness` | the account catches up, skipped messages included | 3 events, no result, one loss, one failure |
| `histories` | requests of one chat exclude each other, and everyone who waits is served unless a deletion of the channel never ends | one channel, 3 requests of the user, one entry at a time, one callback, answers in any order |
| `histories_reads` | the order and the timer of reads, with ghost mode; read marks and unread counts against the server's | two scenes: a chat and a channel of two messages, failures, answers in any order; one chat of three messages, answers in order; one slice |
| `histories_dropped` | **violated**: a read that ghost mode drops stays in the table | one chat of two messages, one slice |
| `session` | safety of the session under disconnects, forgotten sessions, refusals, errors, state requests, cancelling, stopping | 2 requests, one fault of any of nine kinds, window of 3 ids |
| `session_liveness` | each request is answered, nothing is resent for ever | 1 request, one fault except a fatal refusal, one update |
| `streaming` | reads end, assertions hold, nothing saved is lost | 3 slices of 2 parts, 2 slices in memory, 4 starts, reads or failures, an empty and a partial cache |
| `downloads` | amounts, parts and assertions of the download manager, and that files end, all but what a refused token spoils | a file and a stream of 2 parts, the reader asks for one; 2 calls and 1 fault; at most 2 sessions, each with 2 parts |
| `vault` | **violated**: a deleted message is kept | 2 messages, 2 rows each |

Why the bounds are enough: a gap needs two updates, a gap whose queue is applied
needs three, an answer that meets a late push and a new one four; counts of one
and two make intervals of different sizes. One loss, one failure and one view
are what is needed for each to meet every other step once; the proofs cover the
rest for channels, the account, histories, streaming and downloads. In `Histories` a slice, a deletion and a third request make
every kind of postponing meet every other; three messages give a read mark a
message before, at and after it; a chat and a channel are told apart by ghost
mode and share the timer. In `Session` two requests make a container in which one
is fresh and one is sent again, and one answered while the other waits; one fault
meets every other step, and the proofs cover the rest for three of the properties. In
`Streaming` three slices with two in memory make unloading happen, three parts in
the header decide between its modes, and four events are a start, a read, a stop
and a start again. In `Downloads` two sessions are one that is taken away and one
that takes what it had; a file and a stream share them with different priorities;
two calls are a load and its cancelling, or a change of priority; the fault is an
error, a slow answer, a timeout, a refused token, an expired reference or a wrong
hash, and redirects and hashes that come late are none. `kRemoveSessionAfterTimeouts`
and `kRetryAddSessionSuccesses` are 1, so that sessions come and go within a
handful of answers. `StartWaited` and `MaxWaited` are equal there, so that no
session comes to take more (with `MaxWaited = 3` and `MaxRemoves = 2`, 866,643
states, the properties hold as well); the proofs are for any.

Some steps of the code break what its comments, or a reader, would expect. They
happen in the runs, and the properties name each as an exception, so that what
they show is that nothing else does it:

* `PtsReceivedInUse`, `GivenUp` (`GapWaits`, `PushedInOrder`, `GapCloses`): a
  response that carries a pts reaches a channel whose pts is known and which waits
  for a missing update. `updateAndApply` with a count of zero and without payload
  ends the wait and applies the queue past the gap, and nobody asks for the
  difference until a later update, although `data_pts_waiter.h:23` has a wait of
  1 s for skipped updates. Nothing is lost by it (`NoLostUpdate`). Without the
  exceptions TLC finds each of the three violated.
* `PollGoesOn`: the short poll of a channel shown before its pts is known is spent
  on a request that is refused and not started again (with `InitialPts = 0`
  `ShownIsPolled` is violated). Nothing else takes the poll away.
* `ResultWhileRequesting` (`SkippedStaysAhead`): a result of an own request moves
  the date while the difference is requested; when that fails, the next one is
  asked for by the later date and does not report the message that was skipped
  (`api_updates.cpp:1634` leaves it to the difference). `CatchesUp` of the account
  is therefore checked without results.
* `Unfinished` (`EntryArrives`, `SliceEnds`, `TableIsTheNet`): the deletion of a
  channel is never finished, done or refused. It stays in `State::sent`, and
  postpones the slices and the entry of the chat for ever.
* `spoiled` (`PartIsComing`, `NoneStuck`, `Asserted`): a token refused while hashes
  are awaited makes the request for them, or that of another part, one for a part
  that is held back. The part is on its way and held back at once, when
  hashes are asked for at its offset `Ensures(ok1 && ok2)` fails, and a file
  whose parts stay in `_cdnUncheckedParts` does not end.
* `StartWaited` (`NoneStuck`): `getCdnFileHashesDone` makes room in a session
  without sending what waits for it, so as many files as a session may wait for,
  each waiting for hashes alone, may stay where they are until something else
  happens. With `StartWaited = 1`, two slow answers and no condition on the number
  of files TLC finds it.

`Cutting` bounds whether a container may be cut for its size; `GoodOutside`,
`LoadMax` and `MaxPartsInHeader` are the code's constants made small. Widened
bounds show more, of which no comment or test claims the opposite:

* `BufferSize = 1` in `session`: `_ackedIds` is trimmed before the id just added
  is looked up, so the answer of the later of two requests may be dropped.
* `Cutting = TRUE` there: the second container of a new session has old ids.
* `"fatal"` in `session_liveness`: a request that the server calls malformed
  stays in the map without an answer.
* `MaxWaited = 1` in `downloads`, with three files of two parts and no stream: hashes are
  asked for beyond what a session may wait for, and with three requests on their
  way in two sessions the last session can be chosen for what is taken out of it,
  which `Assert(newIndex < sessionIndex)` forbids. With the code's 16 parts for
  each of 8 sessions that takes more than 128 requests; section 6 has the
  condition under which it is impossible.
* In `streaming`, `ReadEnds` without "or an error": a failed load is taken by the
  first check, which leaves the semaphore registered, and the thread sleeps on.
* There, `LoadsOnlyMissing` of what the header's entry has as well: the header's
  parts are put into their slices once, so a slice that was unloaded and read
  again from its own entry loads them again.
* There, a cache with entries of slices and none of the header, as an application
  leaves it that ends before `~Reader`: no header entry means that the slices
  count as read, and what they had is loaded again and overwritten (`LoadsOnlyMissing`
  and `EntriesGrow` are violated). `Asserted`, `LoadingIsComing` and `ReadEnds`
  hold from there too.

`CHECK_DEADLOCK FALSE` everywhere: with the bounds used up
and nothing on the way the system rests.

Fairness is weak and only for what the code or the network does by itself:
answers, deliveries, timers. No fairness makes the user act, the server produce
updates or a request fail. Deliveries are fair for the choice "the deadline lies
ahead", so liveness does not rest on the unlikely branch. In `Histories` the
posted call, the timer and the answers of each type of request are fair: the
main loop runs, and MTProto repeats a request until it is answered. The bound
on the entries other parts ask for keeps them from asking for ever. In `Session`
the two threads handle what is queued for them, connecting succeeds in the end,
and the server receives, answers and repeats; acknowledgements and faults are
free, and one action, sending, is fair as a whole because `tryToSend` chooses its
branch by the state. In `Streaming` each thread is fair for its next step and the
loader and the cache for some answer.

## 5. Findings

* `histories_dropped` — `GhostController::shouldSuppressReadHistory` promises
  that the request is dropped. When ghost mode is turned on while a read is put
  off, `sendReadRequest` calls `finished` before `sendRequest` has stored the
  request, so the dropped read stays in `State::sent` and the chat's dialog
  entry is never asked for again; if the state becomes empty it is erased while
  `sendRequest` holds a reference to it.

* `vault` — `message_vault.h` says that messages are captured before their
  deletion. A message that the server deletes while it is loaded is only flagged;
  logging out, quitting or a crash drops the item without capturing it.

## 6. Proofs

Each theorem holds for all values of the constants that the named assumptions of
its module allow. `PROJECT.json` lists them; this is the argument.

**Channels** (`PtsWaiter_proofs`, `ChannelUpdates_proofs`): `TypeOK`,
`NoLostUpdate`, `NeverOvercounted`, `QueueWaitsForGap`, `RequestMatchesBox`,
`IInv`, and that `ChannelUpdates` implements `UpdateLog`. TLC checks `TypeOK` and
`IInv` no longer; they are stated by `TypeCorrect` and `Invariance`. None of the
others is inductive: that the claim may move when the sum of the counts equals
the largest pts depends on what was counted. `IInv` therefore relates the count
to a set: the points of the counter covered by the updates counted since the last
`init` (`CountsMatch`). Updates of the log are disjoint intervals
(`LogIsIntervals`) and no update straddles the point where the box started
(`Boundary(base)`), so when base + covered points = largest pts every point up to
there is covered (`CountsMeet`), every update up to there was counted, and each
counted one is known or in the queue that is applied at that moment
(`QueueKept`). Each update travels once (`TravelOnce`), so nothing is counted
twice; an answer lies ahead of the request (`AnswerAhead`), so the claim does not
move back. `PtsWaiter_proofs` summarises the two `updateAndApply` as `Outcome`;
`GiveKeepsBox` shows that any step with that outcome keeps the invariant, and
pushes, results and responses are instances of it.

`GapIsWaited`, `PushesInOrder` and `ShownStaysPolled` are action properties: which
steps may end a wait or a poll. They rest on `IInv` and on `QueueBelow`, that
nothing is queued beyond the largest pts, which holds also after a wait was given
up; `WaitsKept` says of each action what it does to the waits. `ShownIsAlwaysPolled`
adds what follows when the pts is known from the start (`InitialPts > 0`).

**The account** (`Updates_proofs`). The lemmas about
counting and waiting in `PtsWaiter_proofs` speak of any box, any log and any
server, so that both owners cite them. `IInv` is `LogInv` (the server's events are
intervals of the pts and a session of numbered containers), `SessionInv` and
`WireInv` (what travels is of the log and travels once), `AnswerInv` (the answer
of a difference fits the request), and for the client `PtsOK` (as for a channel),
`SeqOK` (as long as it knows of the server's session it has every container up to
the seq number, or requests the difference) and `QueueOK` (containers wait only
for a missing one, with the timer running). From it follow `ImplementsLog`, `GapIsWaited`,
`NoContainerLost` and `ContainersTakeTurns`. The loop of `setState` is the fold
`Drain` over the waiting containers. The library's induction theorems cannot be
instantiated here, so facts about it are proved from a least counterexample: if
the fact fails for some set it fails for one of least size, and taking one
container out of that one contradicts it.

`SkippedIsReported` adds `DateInv`: for a skipped message that is later than the
client's date the timer runs or the difference is requested, that request was made
by the client's date at the latest, and a final answer covers all that was
skipped. A result that comes while the difference is requested is the one step
that breaks this, and the theorem names it. What a step skips is held to the same if
no containers waited: the container's own date comes after the timer is set. With
containers that waited, one that takes effect later in the step may skip a message
after an earlier one has moved the date, and the property looks at the step as a
whole.

**Histories** (`Histories_proofs`): `SlicesAreExcluded`,
`RequestsAreInTheTable`, `EntriesAreComing`, `ReadsAreOrdered`,
`EntriesWaitForRequests`, for any finite set of chats and any scene. `IInv` is
about the client's record, and because handlers call one another in the middle of
their work it is stated for records in that middle: `ClientOK(c, N, W)` says that
`c` is right but for the requests in `N`, which were answered and are still in the
table, and the chats in `W`, whose entry was answered and is being applied.
Between steps both are empty (`Good`). Per chat it is `ChatOK`: a request is in one
place, slices and deletions exclude each other and what is to be read is ahead
(`Sorted`), the table names what the server has to answer (`TableOK`), no read on
its way is further than the one noted (`ReadsOK`), the entry that is waited for is
on its way (`WaitsOK`), and postponed slices and a postponed entry have something
to wait for (`SlicesWait`, `EntryWaits`). `CalledOnce` and `TimerRuns` are
about the callbacks and the timer. Every operator of the module has a lemma that
says which `N` and `W` it takes and leaves, so a handler is a chain of them. The
loops over chats are folds, treated as `Drain`.

**The session** (`Session_proofs`): three of its
invariants, for any number of requests, faults and updates, any set of kinds of
faults and, from `BufferSizeAssumption` (a natural number above zero), any size of
the window.

* `NoneHandledTwice` (`HandledOnce`). The window alone is not enough: it forgets.
  `ReceivedInv` relates it to all ids ever accepted: the window is a finite
  subset of them, every one it has dropped is smaller than every one it keeps,
  and it has dropped none before it was full (`Window`). So an id that fits is
  larger than some kept one or the window is still whole, and in both cases it
  is new (`FitsIsNew`); `RegisteredKeeps` and `ShrunkKeeps` show that the two
  steps of the code keep the relation, the second by well-founded induction on
  the ids for the least one. `Numbered` adds that all that travels has an id.
* `NumberedGoIntoContainers` (`NumberedIsForced`). `ForcedIn` says the same of
  the client record together with the fields it has. Most handlers only take
  requests out of `toSend` (`Fewer`, which is transitive, so that a handler that
  calls three others is a chain of three); resending adds to `toSend` and to
  `forced` alike, `sendPrepared` adds without an id, and sending removes before
  it numbers.
* `RequestsAreKept` (`RequestIsKept`). `KeepInv` says in which map a request is,
  that it is under one id only (`IdsOK`), and where its answer is once it is in
  none. It supposes `Roomy`: `_ackedIds` has room for every id that still waits
  for its answer. Without it the property fails (`BufferSize = 1` in section 4).

**Streaming** (`Streaming_proofs`): `NothingFails` (`Asserted`),
`LoadsAreComing`, `SavedIsNotLoaded` (`LoadsOnlyMissing`), `SavesGrow`
(`EntriesGrow`), for files, slices, headers and reads of any size, for a
reader that finds the cache as a destroyed one leaves it: `LeftInOrder(cache)` is a
hypothesis of each of these theorems. `LeavesInOrder` passes it on to the next
reader. A cache of an application that ended before `~Reader` need not be in that
order, and section 4 says what fails there.

* `MemoryOK` relates the slices in memory to the cache. Before the header's mode
  is known nothing is read for slices or written (`UnknownOK`); then a slice that
  counts as loaded has all that is `Saved` of it, so that writing it loses nothing,
  and a header that changed finds the first slice in memory (`KnownOK`). With a
  good header the header and the first slice share an entry, which is where most
  of the work is; `Apart` is needed because `processCacheResult` gives the header
  its parts of the first slice back.
* `Lacking`: a part that is being loaded is neither in memory nor saved. It is the
  inductive form of `LoadsOnlyMissing`, which looks at the cache only.
* `ReadingOK` and `ResultsOK`: what a cache read under way will find, or has
  found, is still what the entry holds, and somebody waits for it. That a slice
  whose entry is being read cannot be written meanwhile is what keeps this true.
* `Coming` follows the calls posted to the main thread in order: the last call
  about a part that is being loaded is to load it (`LastCall`), or the loader was
  asked and no call about it is on the way (`Uncalled`). That a cancel cannot
  overtake a later load rests on this order.
* The loops of `processLoadedParts` and `finalizeCache` are folds over sequences
  and numbers, treated by the number of the first step that goes wrong. `Stored`
  says what writing an entry does: entries grow (`Grows`), reads under way stay
  true (`Fresh`), and no part that is being loaded gets saved (`NothingNew`).

**Downloads** (`Downloads_proofs`, `DownloadsWaiting_proofs`): `NoPartIsLost`
(`PartIsComing`), `DoneIsWhole`, `OneRequestEach`, `AmountsAddUp` (`AmountsAdd`),
`NothingFails` (`Asserted`), `FewParts`, and in the second module `NoneIsStuck`
(`NoneStuck`) and `FewPartsEnd`, for any files, streams, sizes, limits and readers,
from `DownloadsAssumption`. All of them speak of behaviours in which no token was
refused while parts were held back (`Unspoiled`), which is part of each statement;
section 4 says what happens otherwise.

* The inductive invariant is `Fine(scope, m, x)`, of a manager `m`. Handlers call
  one another in the middle of their work, so most lemmas are about `Good`, which
  says that all is right but for the task at hand: the offsets in `G` are in no
  place at the moment, and if the task is in `due` it is about to ask for hashes.
  `x` is what the last session is said to wait for beyond what it does, while it is
  emptied. Every operator of the module has a lemma that says which `G`, `due` and
  `x` it takes and leaves.
* `TaskOK` is about one task: an offset has one request (`RequestsOK`), the offsets
  below `next` of a file are written, sent or held back, and in one of these places
  (`FileOK`), what the reader of a stream waits for is asked for or taken
  (`StreamOK`), and as long as parts are held back hashes are asked for, or the call
  to ask for them is posted. It does not need the sessions, so with `scope = "tasks"`
  `PartIsComing` is proved without any condition on them.
* `BalanceOK` is about the sessions: the amounts add up (`Adds`), idle sessions are
  stopped only when nothing is sent, the queue is sorted and has every task that has
  sent something, because `removeSession` empties the last session by going through
  the queue, and no assertion has failed.
* `NoneIsStuck` has an invariant of its own, `Going`, on top of `Fine`. `Promises`
  says of each task what it is in the queue for: a file that is loading is queued,
  lacks a part, and all it has sent is awaited from the server or, while a new file
  reference is fetched, from there; a closed stream is out of the queue. `NotLeft`
  says who sends next: unless some stream is open, or the files are as many as a
  session may wait for, either no file could ask for a part or some file has asked
  for one, whose answer ends in `checkSendNext`. `CheckSendGoing` establishes
  `NotLeft` from nothing: the loop sends until the sessions are full or no file is
  ready, and if they are full then so much is sent that, at one request for hashes
  each, the files alone could not have sent it (`EnoughSent`). The handlers that do
  not end there (`getCdnFileHashesDone`, a new file reference, a timer, a session
  taken away) are shown to keep it, because whoever had asked for a part still does.
* The condition of `AmountsAddUp`, `NothingFails` and `NoneIsStuck` is `[]Roomy`: no
  more is on its way than all sessions together may wait for. `removeSession` adds
  that amount to the session it empties so that `chooseSessionIndex` does not choose
  it, and hashes, resends and redirects are placed without a look at the limit;
  section 4 has the trace. `FewParts` and `FewPartsEnd` discharge the condition when
  the tasks have no more parts than that together.
* The loops (`checkSendNext`, a session's redirects, cancelling and resending all,
  the parts held back) are folds. As the library's theorems about folds cannot be
  instantiated, `Fold` is one function for all of them, told apart by a `kind`:
  `FoldIs` says how it unfolds, and each loop is shown to be an instance of it
  before its invariant is proved step by step.

**Only model-checked.** Liveness (`CatchesUp`, `GapCloses`, `Answered`, `Drains`,
`EntryArrives`, `SliceEnds`, `ReadEnds`) and with it ENABLED are out of
the prover's reach. `ShownReadIsTold` and `CountSettles` of `Histories` speak of
what the server will compute from answers on the way, which needs the order of
all of them in the invariant. `FreshIds` and `RunsOnce` of `Session` rest
on a count: a request gets another id only for a failure the server reported, and
each report is used once, on its way through the wire, the server's repetitions,
the queue of responses and the requests put off.
The two violated runs are counterexamples.

## 7. Not modelled, and what is left of the plan

Not modelled: keys, binding and data centres below the session, http
connections, requests that wait for another one; the downloader's use of the
streaming reader; web files, files of unknown size, failed writes, malformed
redirects and several data centres in the download manager, `LoaderMtproto::stop`,
which nothing calls, and the rate at which low priorities are served; qts and online status; messages that wait for the creation of
their topic, unread marks, folders and partly loaded histories; timings, formats
and cryptography everywhere; the user interface, platform code and third party
libraries, which make up nearly all lines of the repository. The vault's search
and export read the database and change nothing. `PROJECT.json` lists each part
with its reason.

Left of the plan:

1. Proofs: `FreshIds` and `RunsOnce` of `Session`; `ShownReadIsTold` and
   `CountSettles` of `Histories`.
2. The uploader: parts over sessions, windows, timeouts; video preloading.
3. Auth keys and data centres; ConcurrentSender; the rest of the MTP instance
   (migration, flood waits, dependent requests).
4. Accounts and the controllers that manage them; messages that wait for their
   topic.
