----------------------------- MODULE Streaming -----------------------------
(* Media::Streaming::Reader, which reads a file part by part from the local   *)
(* cache and from the cloud while a streaming thread plays it, and the parts  *)
(* of Media::Streaming::File that start, wake, interrupt and stop that        *)
(* thread.  Three threads meet: the streaming thread, the main thread with    *)
(* the loader, and the threads that deliver what was read from the cache.     *)
(* The file is one that does not fit in the header entry and has a cache key. *)
(* Parts of the file are numbered; a slice is PartsInSlice of them.           *)
EXTENDS Integers, FiniteSets, SequencesExt

CONSTANTS Slices,            \* slices of the file
          PartsInSlice,      \* kPartsInSlice
          SlicesInMemory,    \* kSlicesInMemory
          PreloadAhead,      \* kPreloadPartsAhead
          LoadMax,           \* kLoadFromRemoteMax
          MaxPartsInHeader,  \* kMaxPartsInHeader
          GoodOutside,       \* kPartsOutsideFirstSliceGood
          Reads,             \* the sets of parts the demuxer may ask for
          Caches,            \* the entries an earlier reader may have left
          MaxEvents          \* bound of the model: starts, reads and failed loads

ASSUME StreamingAssumption ==
    /\ {Slices, PartsInSlice, SlicesInMemory, LoadMax, MaxPartsInHeader} \subseteq Nat \ {0}
    /\ {PreloadAhead, GoodOutside, MaxEvents} \subseteq Nat
    /\ Reads \subseteq (SUBSET (0 .. Slices * PartsInSlice - 1)) \ {{}}

Indices == 0 .. Slices - 1
Parts == 0 .. Slices * PartsInSlice - 1
IndexOf(part) == part \div PartsInSlice
Within(i) == {p \in Parts : IndexOf(p) = i}

Failed == Slices * PartsInSlice     \* LoadedPart::kFailedOffset
NoSizes == {Slices}                 \* no answer about sizes is waiting

VARIABLES
    slices,      \* Reader::_slices, see NewSlices
    loading,     \* _loadingOffsets
    error,       \* _streamingError
    pc,          \* where the streaming thread is in File::Context::read
    read,        \* the parts it reads
    semaphore,   \* File::Context::_semaphore
    waiting,     \* Reader::_waiting is set
    cacheWaiting,\* CacheHelper::waiting is set
    results,     \* CacheHelper::results, from slice number to parts
    sizes,       \* CacheHelper::sizes: the slices whose entry is of full size
    reading,     \* the cache reads under way, each with what it will find
    cachePc,     \* where the thread that delivers a cache read is
    loadedParts, \* _loadedParts
    posted,      \* calls of the loader posted to the main thread
    requested,   \* the parts the loader was asked for and has not brought
    mainPc,      \* where the main thread is
    active,      \* _streamingActive
    stopAsync,   \* _stopStreamingAsync, with the call it posted
    file,        \* File: "stopped", "playing" or "interrupted"
    cache,       \* the cache database's entries for this file
    events       \* starts, reads and failures so far, for the bound

streaming == <<slices, loading, error, pc, read>>
shared == <<semaphore, waiting, cacheWaiting, results, sizes>>
cacheSide == <<reading, cachePc, cache>>
mainSide == <<loadedParts, posted, requested, mainPc, active, stopAsync, file>>
vars == <<streaming, shared, cacheSide, mainSide, events>>

----------------------------------------------------------------------------
(* Slices *)

NewSlice == [parts |-> {}, loading |-> FALSE, loaded |-> FALSE,
             changed |-> FALSE, full |-> FALSE]

NewSlices == [header |-> [NewSlice EXCEPT !.loading = TRUE],
              data   |-> [i \in Indices |-> NewSlice],
              used   |-> <<>>, mode |-> "Unknown",
              full   |-> FALSE, broken |-> FALSE]

Expects(s, condition) == [s EXCEPT !.broken = @ \/ ~condition]

\* Slice::processCacheData
Merged(slice, parts) ==
    [slice EXCEPT !.parts = @ \union parts, !.loaded = TRUE, !.loading = FALSE]

\* Slice::addPart
Added(slice, parts) ==
    [slice EXCEPT !.parts = @ \union parts,
                  !.changed = @ \/ (slice.loaded /\ parts # {})]

IsGoodHeader(parts) == Cardinality(parts \ Within(0)) <= GoodOutside

\* What an earlier reader leaves when it is destroyed: its header, if anything,
\* and the rest of the first slice with a good one.  One that was not destroyed,
\* because the application ended, may leave slices without a header.
LeftInOrder(db) ==
    /\ db.header \subseteq Parts /\ db.first \subseteq Within(0) \ db.header
    /\ \A i \in Indices : db.slice[i] \subseteq Within(i)
    /\ db.header = {} => db.first = {} /\ \A i \in Indices : db.slice[i] = {}
    /\ ~IsGoodHeader(db.header) => db.first = {}

ASSUME CachesAssumption ==
    Caches \subseteq [header : SUBSET Parts, first : SUBSET Parts, slice : [Indices -> SUBSET Parts]]

\* Faulty variant: the slices count as read from the cache in either case.
HeaderDoneAsNew(s, fromCache) ==
    IF s.mode # "Unknown" THEN s
    ELSE [s EXCEPT !.mode = IF IsGoodHeader(s.header.parts) THEN "Good" ELSE "Small",
                   !.data = [i \in Indices |-> [s.data[i] EXCEPT !.loaded = TRUE]]]

\* headerDone: with nothing read from the cache, nothing is there for the slices
HeaderDone(s, fromCache) ==
    IF s.mode # "Unknown" THEN s
    ELSE LET known == [s EXCEPT !.mode = IF IsGoodHeader(s.header.parts) THEN "Good" ELSE "Small"]
         IN  IF fromCache THEN known
             ELSE Expects([known EXCEPT !.data = [i \in Indices |-> [s.data[i] EXCEPT !.loaded = TRUE]]],
                          \A i \in Indices : ~s.data[i].loading /\ ~s.data[i].loaded)

ApplyHeaderCacheData(s) ==
    LET indices == CASE s.mode = "Good" -> {0} [] s.mode = "Unknown" -> Indices [] OTHER -> {}
        Apply(i) == IF i \in indices THEN Added(s.data[i], s.header.parts \intersect Within(i))
                                     ELSE s.data[i]
        applied == Expects([s EXCEPT !.data = [i \in Indices |-> Apply(i)]],
                           \A i \in indices : s.header.parts \intersect s.data[i].parts = {})
    IN  IF s.header.parts = {} THEN s ELSE HeaderDone(applied, TRUE)

\* checkSliceFullLoaded, of slices of _data
CheckFullLoaded(s, indices) ==
    LET changed == {i \in indices : s.data[i].full # (s.data[i].parts = Within(i))}
        data == [i \in Indices |-> [s.data[i] EXCEPT !.full = IF i \in changed THEN ~@ ELSE @]]
    IN  IF changed = {} THEN s
        ELSE [s EXCEPT !.data = data, !.full = \A i \in Indices : data[i].full]

\* processCacheResult for the slices, each of which changes by itself
ProcessSlices(s, found) ==
    LET came == {i \in Indices : i + 1 \in DOMAIN found /\ s.data[i].loading}
        data == [i \in Indices |-> IF i \in came THEN Merged(s.data[i], found[i + 1])
                                                 ELSE s.data[i]]
    IN  CheckFullLoaded(Expects([s EXCEPT !.data = data], \A i \in came : ~s.data[i].loaded),
                        came)

\* processCacheResult for the header
ProcessHeader(s, parts) ==
    LET wanted == IF s.mode = "Good" THEN s.data[0].loading ELSE s.header.loading
        merged == Expects([s EXCEPT !.header = Merged(@, parts)],
                          s.mode = "Good" \/ ~s.header.loaded)
        applied == ApplyHeaderCacheData(merged)
    IN  CASE ~wanted -> s
          [] applied.mode = "Good" -> [applied EXCEPT !.data[0].loading = TRUE]
          [] OTHER -> applied

\* The results in the order of their numbers: the header is 0, slice i is i + 1
ProcessCacheResults(s, found) ==
    ProcessSlices(IF 0 \in DOMAIN found THEN ProcessHeader(s, found[0]) ELSE s, found)

ProcessCachedSizes(s, known) ==
    LET data == [i \in Indices |-> [s.data[i] EXCEPT !.full = @ \/ i \in known]]
    IN  [s EXCEPT !.data = data, !.full = \A i \in Indices : data[i].full]

ProcessPart(s, part) ==
    LET i == IndexOf(part)
        toHeader == s.mode = "Unknown" /\ Cardinality(s.header.parts) < MaxPartsInHeader
        kept == IF toHeader THEN [s EXCEPT !.header = Added(@, {part})] ELSE s
    IN  IF s.mode = "Unknown" /\ part \in s.header.parts THEN s
        ELSE CheckFullLoaded(
                Expects([kept EXCEPT !.data[i] = Added(@, {part})], part \notin s.data[i].parts), {i})

\* markSliceUsed
MarkUsed(s, i) == [s EXCEPT !.used = Append(RemoveFirst(@, i), i)]

\* unloadSlice
Unloaded(slice) == [NewSlice EXCEPT !.full = slice.full]

\* serializeAndUnloadSlice: what is left, and the cache with the entry put
Serialized(s, db, number) ==
    LET first == s.mode = "Good" /\ number \in {0, 1}
        small == number = 0 /\ ~first
        after == CASE first -> [s EXCEPT !.data[0] = Unloaded(@), !.header.changed = FALSE]
                   [] small -> [s EXCEPT !.header.changed = FALSE]
                   [] OTHER -> [s EXCEPT !.data[number - 1] = Unloaded(@)]
        count == IF number = 0 \/ first THEN s.header.parts ELSE s.data[number - 1].parts
    IN  [slices |-> Expects(after, count # {} /\ (first => s.data[0].loaded)),
         cache  |-> CASE first -> [db EXCEPT !.header = s.header.parts,
                                             !.first = s.data[0].parts \ s.header.parts]
                      [] small -> [db EXCEPT !.header = s.header.parts, !.first = {}]
                      [] OTHER -> [db EXCEPT !.slice[number - 1] = s.data[number - 1].parts],
         purged |-> IF first THEN {0} ELSE {number - 1}]

\* Faulty variant: a changed header does not keep the first slice from it.
NoNeedWhenUnchanged(s, purge) == ~s.data[purge].changed

\* noNeedToSaveToCache: the first slice goes with the header of a good one
NoNeedToSave(s, purge) ==
    /\ ~s.data[purge].changed
    /\ s.mode # "Good" \/ purge > 0 \/ ~s.header.changed

\* serializeAndUnloadUnused, which also says whose loading to cancel
UnloadUnused(s, db) ==
    LET purge == Head(s.used)
        popped == [s EXCEPT !.used = Tail(@)]
    IN  IF s.mode = "Unknown" \/ Len(s.used) <= SlicesInMemory
        THEN [slices |-> s, cache |-> db, purged |-> {}]
        ELSE CASE ~s.data[purge].loaded -> [slices |-> popped, cache |-> db, purged |-> {}]
               [] s.data[purge].loaded /\ NoNeedToSave(s, purge) ->
                     [slices |-> [popped EXCEPT !.data[purge] = Unloaded(@)],
                      cache |-> db, purged |-> {}]
               [] OTHER -> Serialized(popped, db, purge + 1)

\* unloadToCache until nothing is left: finalizeCache
Finalized(s, db) ==
    LET Put(number, acc) ==
            LET changed == IF number = 0 THEN acc.slices.header.changed
                                         ELSE acc.slices.data[number - 1].changed
            IN  IF changed THEN Serialized(acc.slices, acc.cache, number) ELSE acc
        start == [slices |-> s, cache |-> db, purged |-> {}]
    IN  IF s.mode = "Unknown" THEN start
        ELSE MapThenFoldSet(Put, start, LAMBDA number : number, Max, 0 .. Slices)

----------------------------------------------------------------------------
(* Slices::fill: what a read needs, slice by slice *)

First(n, parts) == {p \in parts : Cardinality({q \in parts : q < p}) < n}

CacheNotLoaded(s, i) == s.mode # "Unknown" /\ ~s.data[i].loaded

\* prepareFill and offsetsFromLoader: what slice i lacks from the first part
\* read to the last one preloaded
Missing(s, r, i) ==
    {p \in Within(i) \ s.data[i].parts :
        /\ \E q \in r \intersect Within(i) : q <= p
        /\ \E q \in r \intersect Within(i) : p <= q + PreloadAhead}

\* Faulty variant: it does not wait for the slice's entry.
ToLoadAtOnce(s, r) == First(LoadMax, UNION {First(LoadMax, Missing(s, r, IndexOf(p))) : p \in r})

\* handlePrepareResult: the parts asked of the loader
ToLoad(s, r) ==
    First(LoadMax, UNION {First(LoadMax, Missing(s, r, i)) :
                             i \in {IndexOf(p) : p \in {q \in r : ~CacheNotLoaded(s, IndexOf(q))}}})

\* a cache read: the entry as it is when the read is asked for
Entry(db, number) ==
    CASE number = 0 /\ IsGoodHeader(db.header) ->
            [k \in {0, 1} |-> IF k = 0 THEN db.header ELSE db.first]
      [] number = 0 /\ ~IsGoodHeader(db.header) -> [k \in {0} |-> db.header]
      [] OTHER -> [k \in {number} |-> db.slice[number - 1]]

FullEntries(db) == {i \in Indices : db.slice[i] = Within(i)}

\* readFromCache
ReadOf(s, db, number) ==
    LET key == IF number = 1 /\ s.mode = "Good" THEN 0 ELSE number
    IN  [number |-> key, found |-> Entry(db, key),
         sizes |-> IF s.mode = "Unknown" THEN FullEntries(db) ELSE NoSizes]

----------------------------------------------------------------------------
(* A reader over what an earlier one left in the cache, not started yet *)

Init ==
    /\ slices = NewSlices /\ loading = {} /\ error = "none"
    /\ pc = "ended" /\ read = {}
    /\ semaphore = 0 /\ waiting = FALSE /\ cacheWaiting = FALSE
    /\ results = <<>> /\ sizes = NoSizes
    /\ cache \in Caches
    /\ reading = {ReadOf(NewSlices, cache, 0)} /\ cachePc = "idle"
    /\ loadedParts = <<>> /\ posted = <<>> /\ requested = {}
    /\ mainPc = "idle" /\ active = FALSE /\ stopAsync = FALSE /\ file = "stopped"
    /\ events = 0

----------------------------------------------------------------------------
(* The streaming thread.  A step that writes both _waiting and the helper's   *)
(* waiting, or that takes both the results and the loaded parts, is one: no   *)
(* other thread touches both of a pair.                                       *)

Reading == pc \notin {"idle", "ended"}

\* File::Context::read, up to the loop
Read(r) ==
    /\ pc = "idle" /\ file = "playing"
    /\ events < MaxEvents
    /\ events' = events + 1
    /\ pc' = "receive" /\ read' = r
    /\ UNCHANGED <<slices, loading, error, shared, cacheSide, mainSide>>

\* Context::start, once the demuxer has what it needs of the header
HeaderRead ==
    /\ pc = "idle" /\ read # {}
    /\ slices' = HeaderDone(slices, FALSE)
    /\ slices' # slices
    /\ UNCHANGED <<loading, error, pc, read, shared, cacheSide, mainSide, events>>

\* The end of the thread: nothing more to read, or unroll()
Finish ==
    /\ pc = "idle"
    /\ pc' = "ended" /\ read' = {}
    /\ stopAsync' = (stopAsync \/ file = "playing")
    /\ UNCHANGED <<slices, loading, error, shared, cacheSide,
                   loadedParts, posted, requested, mainPc, active, file, events>>

\* processCacheResults: a good header comes with the first slice
AfterResults ==
    LET known == ProcessCacheResults(slices, results)
        sized == IF sizes = NoSizes THEN known ELSE ProcessCachedSizes(known, sizes)
    IN  Expects(sized, 0 \in DOMAIN results /\ sized.mode = "Good" => 1 \in DOMAIN results)

\* processLoadedParts, up to a failed part; [slices, loading, error]
AfterParts(s) ==
    LET Take(acc, part) ==
            CASE acc.error # "none" -> acc
              [] acc.error = "none" /\ part = Failed -> [acc EXCEPT !.error = "LoadFailed"]
              [] acc.error = "none" /\ part # Failed /\ part \notin acc.loading -> acc
              [] OTHER -> [acc EXCEPT !.slices = ProcessPart(@, part), !.loading = @ \ {part}]
    IN  FoldLeft(Take, [slices |-> s, loading |-> loading, error |-> error], loadedParts)

\* checkForSomethingMoreReceived: the results are taken whatever the error is,
\* and the parts only without one
Receive ==
    LET after == AfterParts(IF error = "none" THEN AfterResults ELSE slices)
    IN  /\ cachePc = "idle"
        /\ slices' = after.slices /\ loading' = after.loading /\ error' = after.error
        /\ results' = <<>> /\ sizes' = NoSizes
        /\ loadedParts' = IF error = "none" THEN <<>> ELSE loadedParts
ReceivedMore ==
    error = "none" /\ (DOMAIN results # {} \/ (loadedParts # <<>> /\ error' = "none"))

\* Reader::fill, its first check: an error is returned as it is
ReceiveFirst ==
    /\ pc = "receive"
    /\ Receive
    /\ pc' = IF error' # "none" THEN "acquire" ELSE "try"
    /\ UNCHANGED <<read, semaphore, waiting, cacheWaiting, cacheSide,
                   posted, requested, mainPc, active, stopAsync, file, events>>

\* Calls of the loader for some parts, as they are posted to the main thread
Calls(op, parts) == IF parts = {} THEN <<>> ELSE <<[op |-> op, parts |-> parts]>>

\* fillFromSlices
Fill ==
    LET waitHeader == ~slices.header.loaded
        ready == ~waitHeader /\ \A p \in read : p \in slices.data[IndexOf(p)].parts
        load == IF waitHeader THEN {} ELSE ToLoad(slices, read)
        marked == MarkUsed(MarkUsed(slices, IndexOf(Min(read))), IndexOf(Max(read)))
        unload == IF ready THEN UnloadUnused(marked, cache)
                           ELSE [slices |-> slices, cache |-> cache, purged |-> {}]
        fromCache == IF ready \/ waitHeader THEN {}
                     ELSE {i \in {IndexOf(p) : p \in read} :
                              CacheNotLoaded(slices, i) /\ ~slices.data[i].loading}
        cancel == {p \in loading : IndexOf(p) \in unload.purged}
        left == loading \ cancel
        wontFill == slices.mode = "Unknown" /\ Cardinality(slices.header.parts) >= MaxPartsInHeader
    IN  /\ pc = "try"
        /\ IF ~ready /\ wontFill
           THEN /\ error' = "NotStreamable"
                /\ pc' = "wait"
                /\ UNCHANGED <<slices, loading, reading, cache, posted>>
           ELSE /\ pc' = IF ready THEN "clear" ELSE "wait"
                /\ slices' = Expects([unload.slices EXCEPT !.data = [i \in Indices |->
                               [unload.slices.data[i] EXCEPT !.loading = @ \/ i \in fromCache]]],
                                     waitHeader => slices.header.loading)
                /\ cache' = unload.cache
                /\ reading' = reading \union {ReadOf(slices, cache, i + 1) : i \in fromCache}
                /\ loading' = left \union load
                /\ posted' = posted \o Calls("cancel", cancel) \o Calls("load", load \ left)
                /\ UNCHANGED error
        /\ UNCHANGED <<read, shared, cachePc,
                       loadedParts, requested, mainPc, active, stopAsync, file, events>>

\* Faulty variant: what came before the waiting was set is not looked at.
StartWaitingAtOnce ==
    /\ pc = "wait"
    /\ waiting' = TRUE /\ cacheWaiting' = TRUE
    /\ pc' = "acquire"
    /\ UNCHANGED <<slices, loading, error, read, semaphore, results, sizes,
                   cacheSide, mainSide, events>>

\* startWaiting
StartWaiting ==
    /\ pc = "wait"
    /\ waiting' = TRUE /\ cacheWaiting' = TRUE
    /\ pc' = "again"
    /\ UNCHANGED <<slices, loading, error, read, semaphore, results, sizes,
                   cacheSide, mainSide, events>>

\* The loop's condition and what follows the loop
ReceiveAgain ==
    /\ pc = "again"
    /\ Receive
    /\ pc' = CASE ReceivedMore -> "try"
               [] ~ReceivedMore /\ error' # "none" -> "failed"
               [] OTHER -> "acquire"
    /\ UNCHANGED <<read, semaphore, waiting, cacheWaiting, cacheSide,
                   posted, requested, mainPc, active, stopAsync, file, events>>

\* clearWaiting, by done and by failed, which also releases
ClearWaiting ==
    /\ pc \in {"clear", "failed"}
    /\ waiting' = FALSE /\ cacheWaiting' = FALSE
    /\ semaphore' = IF pc = "failed" THEN semaphore + 1 ELSE semaphore
    /\ pc' = IF pc = "failed" THEN "acquire" ELSE "idle"
    /\ UNCHANGED <<slices, loading, error, read, results, sizes,
                   cacheSide, mainSide, events>>

\* _semaphore.acquire() and the checks after it
Acquire ==
    /\ pc = "acquire" /\ semaphore > 0
    /\ semaphore' = semaphore - 1
    /\ LET ends == file = "interrupted" \/ error # "none"
       IN  /\ pc' = IF ends THEN "ended" ELSE "receive"
           /\ read' = IF ends THEN {} ELSE read
           /\ stopAsync' = (stopAsync \/ (ends /\ file = "playing"))
    /\ UNCHANGED <<slices, loading, error, waiting, cacheWaiting, results, sizes,
                   cacheSide, loadedParts, posted, requested, mainPc, active, file, events>>

StreamingThread ==
    \/ ReceiveFirst \/ Fill \/ StartWaiting \/ ReceiveAgain \/ ClearWaiting \/ Acquire

----------------------------------------------------------------------------
(* The threads of the cache *)

\* The result is emplaced under the mutex, which is kept until CacheReleases
CacheAnswers(r) ==
    /\ cachePc = "idle" /\ r \in reading /\ file # "destroyed"
    /\ reading' = reading \ {r}
    /\ results' = [n \in DOMAIN r.found \union DOMAIN results |->
                      IF n \in DOMAIN results THEN results[n] ELSE r.found[n]]
    /\ sizes' = r.sizes
    /\ cachePc' = "emplaced"
    /\ UNCHANGED <<streaming, semaphore, waiting, cacheWaiting, cache, mainSide, events>>

CacheLoadsWaiting ==
    /\ cachePc = "emplaced"
    /\ cachePc' = IF cacheWaiting THEN "wakes" ELSE "idle"
    /\ UNCHANGED <<streaming, shared, reading, cache, mainSide, events>>

CacheReleases ==
    /\ cachePc = "wakes"
    /\ cacheWaiting' = FALSE
    /\ semaphore' = semaphore + 1
    /\ cachePc' = "idle"
    /\ UNCHANGED <<streaming, waiting, results, sizes, reading, cache, mainSide, events>>

CacheThread == CacheLoadsWaiting \/ CacheReleases

----------------------------------------------------------------------------
(* The main thread: the loader, and the handler of the parts it brings *)

\* The posted calls of load and cancel, one after the other: the last one that
\* names a part decides
LoaderCalled ==
    LET Naming(part) == {k \in DOMAIN posted : part \in posted[k].parts}
        asked == {part \in Parts : /\ Naming(part) # {}
                                   /\ posted[Max(Naming(part))].op = "load"}
    IN  /\ mainPc = "idle" /\ posted # <<>> /\ file # "destroyed"
        /\ requested' = asked \union {part \in requested : Naming(part) = {}}
        /\ posted' = <<>>
        /\ UNCHANGED <<streaming, shared, cacheSide,
                       loadedParts, mainPc, active, stopAsync, file, events>>

\* The handler emplaces the part, then loads _waiting, then clears and releases
Brought(part) ==
    /\ loadedParts' = IF active THEN Append(loadedParts, part) ELSE loadedParts
    /\ mainPc' = "emplaced"
    /\ UNCHANGED <<streaming, shared, cacheSide, posted, active, stopAsync, file>>

PartArrives(part) ==
    /\ mainPc = "idle" /\ part \in requested /\ file # "destroyed"
    /\ requested' = requested \ {part}
    /\ Brought(part)
    /\ UNCHANGED events

\* LoaderMtproto::cancelOnFail
LoadFails(part) ==
    /\ mainPc = "idle" /\ part \in requested /\ file # "destroyed"
    /\ events < MaxEvents
    /\ requested' = requested \ {part}
    /\ events' = events + 1
    /\ Brought(Failed)

HandlerLoadsWaiting ==
    /\ mainPc = "emplaced"
    /\ mainPc' = IF waiting THEN "wakes" ELSE "idle"
    /\ UNCHANGED <<streaming, shared, cacheSide,
                   loadedParts, posted, requested, active, stopAsync, file, events>>

HandlerReleases ==
    /\ mainPc = "wakes"
    /\ waiting' = FALSE
    /\ semaphore' = semaphore + 1
    /\ mainPc' = "idle"
    /\ UNCHANGED <<streaming, cacheWaiting, results, sizes, cacheSide,
                   loadedParts, posted, requested, active, stopAsync, file, events>>

Handler == HandlerLoadsWaiting \/ HandlerReleases

\* Reader::stopStreaming: the mutex is taken only if the waiting is seen set
StopWaiting ==
    /\ cacheWaiting => cachePc = "idle"
    /\ stopAsync' = FALSE
    /\ waiting' = FALSE /\ cacheWaiting' = FALSE
\* Faulty variant: the parts asked for stay expected, and will be ignored.
StopStreamingExpecting ==
    /\ StopWaiting
    /\ active' = FALSE
    /\ UNCHANGED loading
StopStreaming ==
    /\ StopWaiting
    /\ active' = FALSE
    /\ loading' = {}

\* File::stop: the interrupt, and what follows the join
Interrupt ==
    /\ mainPc = "idle" /\ file = "playing"
    /\ file' = "interrupted" /\ semaphore' = semaphore + 1
    /\ mainPc' = "join"
    /\ UNCHANGED <<streaming, waiting, cacheWaiting, results, sizes, cacheSide,
                   loadedParts, posted, requested, active, stopAsync, events>>

Stop ==
    /\ mainPc = "join" /\ pc = "ended"
    /\ StopStreaming
    /\ mainPc' = "idle" /\ file' = "stopped"
    /\ UNCHANGED <<slices, error, pc, read, semaphore, results, sizes, cacheSide,
                   loadedParts, posted, requested, events>>

\* What stopStreamingAsync posted
StopAsync ==
    /\ mainPc = "idle" /\ stopAsync
    /\ StopStreaming
    /\ UNCHANGED <<slices, error, pc, read, semaphore, results, sizes, cacheSide,
                   loadedParts, posted, requested, mainPc, file, events>>

\* File::start: stop(true), which joins a thread that runs, startStreaming, and
\* a new context, whose semaphore takes the old one's place
Start ==
    /\ \/ mainPc = "idle" /\ file = "stopped"
       \/ mainPc = "join" /\ pc = "ended"
    /\ events < MaxEvents
    /\ events' = events + 1
    /\ StopWaiting
    /\ mainPc' = "idle" /\ file' = "playing" /\ active' = TRUE
    /\ semaphore' = 0 /\ pc' = "idle" /\ read' = {}
    /\ UNCHANGED <<slices, loading, error, results, sizes, cacheSide,
                   loadedParts, posted, requested>>

\* Reader::~Reader: finalizeCache
Destroy ==
    /\ mainPc = "idle" /\ file = "stopped"
    /\ file' = "destroyed"
    /\ LET final == Finalized(slices, cache)
       IN  slices' = final.slices /\ cache' = final.cache
    /\ UNCHANGED <<loading, error, pc, read, shared, reading, cachePc,
                   loadedParts, posted, requested, mainPc, active, stopAsync, events>>

----------------------------------------------------------------------------
Next ==
    \/ StreamingThread \/ HeaderRead \/ Finish
    \/ \E r \in Reads : Read(r)
    \/ \E r \in reading : CacheAnswers(r)
    \/ CacheThread
    \/ LoaderCalled \/ Handler
    \/ \E part \in requested : PartArrives(part) \/ LoadFails(part)
    \/ Interrupt \/ Stop \/ StopAsync \/ Start \/ Destroy

Spec == Init /\ [][Next]_vars

\* Threads run, the cache answers and the loader brings what it was asked for;
\* nobody has to read, to stop or to start.
Fairness ==
    /\ WF_vars(StreamingThread)
    /\ WF_vars(CacheThread \/ \E r \in reading : CacheAnswers(r))
    /\ WF_vars(LoaderCalled \/ Handler \/ \E part \in requested : PartArrives(part))
FairSpec == Spec /\ Fairness

----------------------------------------------------------------------------
(* Properties *)

\* No Expects or Assert of the reader fails: no part is added to a slice that
\* has it, no slice is read from the cache twice at once or written when it is
\* empty, and the first slice is in memory whenever the header is written with
\* it, the destructor's writes included.
Asserted == ~slices.broken

\* Every part the reader counts as being loaded is on its way: its request is
\* posted, with the loader, or answered.  A part that is not would never be
\* requested again, and the reads that need it would wait for ever.
LoadingIsComing ==
    file = "playing" /\ error = "none" =>
        \A p \in loading : \/ p \in requested \union ToSet(loadedParts)
                           \/ \E call \in ToSet(posted) : call.op = "load" /\ p \in call.parts
                           \/ Failed \in ToSet(loadedParts)

\* What the entry of a slice has is not loaded from the cloud, with entries read
\* late, slices unloaded and written again, and loads still under way.
EntryOf(i) ==
    IF slices.mode = "Good" /\ i = 0 THEN cache.header \union cache.first ELSE cache.slice[i]
LoadsOnlyMissing ==
    slices.mode # "Unknown" => \A p \in loading : p \notin EntryOf(IndexOf(p))

\* An entry is only ever written with all the parts it had: a slice is never
\* saved over an entry that was not read.
EntriesGrow ==
    [][/\ cache.header \subseteq cache'.header /\ cache.first \subseteq cache'.first
       /\ \A i \in Indices : cache.slice[i] \subseteq cache'.slice[i]]_vars

\* A read ends, or an error is set: no wake-up is lost between the parts, the
\* entries and the thread that goes to sleep, however stops and starts meet.
ReadEnds == Reading ~> (~Reading \/ error # "none")
=============================================================================
