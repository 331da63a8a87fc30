-------------------------- MODULE Streaming_proofs --------------------------
(***************************************************************************)
(* Proofs about Streaming for every file, every size of its slices, header *)
(* and memory, all reads and every cache in the order a destroyed reader   *)
(* leaves it in (LeftInOrder): none of the reader's assertions fails, no   *)
(* saved part is lost or loaded again, every part that is waited for is on *)
(* its way, and the cache is left in that order.                           *)
(***************************************************************************)
EXTENDS Streaming, FiniteSetTheorems, WellFoundedInduction, TLAPS

-----------------------------------------------------------------------------
(* The inductive invariant.                                                  *)

SliceType ==
    [parts : SUBSET Parts, loading : BOOLEAN, loaded : BOOLEAN,
     changed : BOOLEAN, full : BOOLEAN]

SlicesType ==
    [header : SliceType, data : [Indices -> SliceType], used : Seq(Indices),
     mode : {"Unknown", "Good", "Small"}, full : BOOLEAN, broken : BOOLEAN]

CacheType ==
    [header : SUBSET Parts, first : SUBSET Parts, slice : [Indices -> SUBSET Parts]]

CallType == [op : {"load", "cancel"}, parts : SUBSET Parts]

\* What is saved of slice i, the header in memory included for a first slice
\* that is written with it.
Saved(s, db, i) ==
    IF s.mode = "Good" /\ i = 0 THEN (s.header.parts \intersect Within(0)) \union db.first
    ELSE db.slice[i]

SliceOK(s, i) ==
    /\ s.data[i].parts \subseteq Within(i)
    /\ s.data[i].changed => s.data[i].loaded /\ s.data[i].parts # {}
    /\ ~(s.data[i].loading /\ s.data[i].loaded)

HeaderOK(s) ==
    /\ s.header.loading = ~s.header.loaded
    /\ s.header.changed => s.header.parts # {}

\* Until the header's mode is known nothing is read for the slices or written.
UnknownOK(s, db) ==
    s.mode = "Unknown" =>
        /\ LeftInOrder(db)
        /\ \A i \in Indices :
              /\ ~s.data[i].loaded /\ ~s.data[i].loading
              /\ s.header.parts \intersect Within(i) \subseteq s.data[i].parts
              /\ s.header.parts = {} => s.data[i].parts = {}
        /\ ~s.header.changed \/ ~s.header.loaded => s.header.parts = {}
        /\ s.header.loaded => db.header = {}

\* Then a slice in memory has what is saved of it, and a header that has
\* changed can be written.
KnownOK(s, db) ==
    s.mode # "Unknown" =>
        /\ s.header.loaded /\ s.header.parts # {}
        /\ s.mode = "Good" <=> IsGoodHeader(s.header.parts)
        /\ db.header \subseteq s.header.parts
        /\ ~s.header.changed => db.header = s.header.parts
        /\ s.mode = "Small" => db.first = {}
        /\ \A i \in Indices : s.data[i].loaded => Saved(s, db, i) \subseteq s.data[i].parts
        /\ s.mode = "Good" /\ s.header.changed => s.data[0].loaded

CacheOK(s, db) ==
    /\ db \in CacheType /\ db.first \subseteq Within(0)
    /\ db.first \intersect s.header.parts = {} /\ db.first \intersect db.header = {}
    /\ \A i \in Indices : db.slice[i] \subseteq Within(i)

\* The parts in L are neither in memory nor saved.
Lacking(s, db, L) ==
    \A p \in L : /\ p \notin s.data[IndexOf(p)].parts
                 /\ s.mode # "Unknown" => p \notin Saved(s, db, IndexOf(p))

HalfOK(s, db, L) ==
    /\ s \in SlicesType /\ L \subseteq Parts /\ ~s.broken
    /\ \A i \in Indices : SliceOK(s, i)
    /\ HeaderOK(s) /\ UnknownOK(s, db) /\ KnownOK(s, db) /\ CacheOK(s, db)
    /\ Lacking(s, db, L)
    /\ ~s.header.loaded => L = {}

\* Before its entry is read, a first slice has nothing of a good header.
Apart(s) ==
    s.mode = "Good" /\ ~s.data[0].loaded => s.data[0].parts \intersect s.header.parts = {}

MemoryOK(s, db, L) == HalfOK(s, db, L) /\ Apart(s)

\* Who waits for entry n of the cache.
Wanted(s, n) ==
    IF n = 0 THEN IF s.mode = "Good" THEN s.data[0].loading ELSE ~s.header.loaded
    ELSE s.mode # "Unknown" /\ s.data[n - 1].loading /\ ~(s.mode = "Good" /\ n = 1)

\* A cache read under way finds what the entry still holds, and is waited for.
ReadingOK(s, db, R, D) ==
    /\ \A r \in R : /\ r.number \in 0 .. Slices /\ r.found = Entry(db, r.number)
                    /\ Wanted(s, r.number) /\ r.number \notin D
    /\ \A r, q \in R : r.number = q.number => r = q

\* The same of the results nobody has taken; the header's may bring those of
\* the first slice.
ResultsOK(s, db, found) ==
    \A n \in DOMAIN found :
        /\ n \in 0 .. Slices
        /\ n = 0 => /\ Wanted(s, 0) /\ found[0] = db.header
                    /\ IsGoodHeader(db.header) => 1 \in DOMAIN found
        /\ n = 1 /\ 0 \in DOMAIN found => IsGoodHeader(db.header) /\ found[1] = db.first
        /\ n # 0 /\ ~(n = 1 /\ 0 \in DOMAIN found) => Wanted(s, n) /\ found[n] = db.slice[n - 1]

\* The last call the loader will get about a part, if any, is to load it.
LastCall(part) ==
    \E k \in DOMAIN posted :
        /\ part \in posted[k].parts /\ posted[k].op = "load"
        /\ \A j \in DOMAIN posted : part \in posted[j].parts => j <= k

Uncalled(part) == \A k \in DOMAIN posted : part \notin posted[k].parts

Coming(part) ==
    \/ part \in ToSet(loadedParts) \/ Failed \in ToSet(loadedParts)
    \/ LastCall(part)
    \/ part \in requested /\ Uncalled(part)

\* Nobody collects parts only while the thread has ended and expects none.
ThreadsOK ==
    /\ stopAsync => pc = "ended"
    /\ ~active => pc = "ended" /\ loading = {}
    /\ file \in {"stopped", "destroyed"} => ~active
    /\ mainPc = "join" => file = "interrupted"
    /\ read = {} => pc \in {"idle", "ended"}
    /\ read # {} => read \in Reads
    /\ pc = "clear" \/ (pc = "idle" /\ read # {}) => slices.header.parts # {}
    /\ loadedParts \in Seq(Parts \union {Failed}) /\ posted \in Seq(CallType)
    /\ requested \subseteq Parts

IInv ==
    /\ MemoryOK(slices, cache, loading)
    /\ ReadingOK(slices, cache, reading, DOMAIN results)
    /\ ResultsOK(slices, cache, results)
    /\ ThreadsOK
    /\ error = "none" => \A p \in loading : Coming(p)
    /\ file = "destroyed" => LeftInOrder(cache)

-----------------------------------------------------------------------------
(* Parts, slices and headers.                                                *)

LEMMA Constants ==
    /\ Slices \in Nat /\ Slices > 0 /\ PartsInSlice \in Nat /\ PartsInSlice > 0
    /\ SlicesInMemory \in Nat /\ SlicesInMemory > 0 /\ MaxPartsInHeader \in Nat
    /\ MaxPartsInHeader > 0 /\ GoodOutside \in Nat /\ 0 \in Indices /\ Failed \notin Parts
<1>1. /\ Slices \in Nat /\ Slices > 0 /\ PartsInSlice \in Nat /\ PartsInSlice > 0
      /\ SlicesInMemory \in Nat /\ SlicesInMemory > 0 /\ MaxPartsInHeader \in Nat
      /\ MaxPartsInHeader > 0 /\ GoodOutside \in Nat
  BY StreamingAssumption
<1>2. Slices * PartsInSlice \in Nat
  BY <1>1
<1> QED BY <1>1, <1>2 DEF Indices, Failed, Parts

LEMMA IndexIn ==
    /\ \A p \in Parts : IndexOf(p) \in Indices /\ p \in Within(IndexOf(p))
    /\ \A i : Within(i) \subseteq Parts
    /\ \A i : \A p \in Within(i) : IndexOf(p) = i
<1>1. ASSUME NEW p \in Parts PROVE IndexOf(p) \in Indices
  BY Constants DEF IndexOf, Indices, Parts
<1> QED BY <1>1 DEF Within

LEMMA PartsFinite ==
    ASSUME NEW S, S \subseteq Parts
    PROVE  IsFiniteSet(S) /\ Cardinality(S) \in Nat
<1>1. IsFiniteSet(Parts)
  <2>1. 0 \in Int /\ Slices * PartsInSlice - 1 \in Int
    BY Constants
  <2> QED BY <2>1, FS_Interval DEF Parts
<1> QED BY <1>1, FS_Subset, FS_CardinalityType

\* A header is good as long as a larger one is.
LEMMA SmallerIsGood ==
    ASSUME NEW S, S \subseteq Parts, NEW T, T \subseteq S, IsGoodHeader(S)
    PROVE  IsGoodHeader(T)
<1>1. T \ Within(0) \subseteq S \ Within(0) /\ S \ Within(0) \subseteq Parts
  OBVIOUS
<1>2. Cardinality(T \ Within(0)) <= Cardinality(S \ Within(0))
  BY <1>1, PartsFinite, FS_Subset
<1>3. T \ Within(0) \subseteq Parts
  OBVIOUS
<1> QED BY <1>1, <1>2, <1>3, PartsFinite, Constants DEF IsGoodHeader

LEMMA EmptyIsGood == IsGoodHeader({})
<1>1. {} \ Within(0) = {}
  OBVIOUS
<1> QED BY <1>1, FS_EmptySet, Constants DEF IsGoodHeader

-----------------------------------------------------------------------------
(* What only changes whether slices are full, or the order of their use.     *)

Alike(s, d) ==
    /\ d \in SlicesType
    /\ d.header = s.header /\ d.mode = s.mode /\ d.broken = s.broken
    /\ \A i \in Indices :
          /\ d.data[i].parts = s.data[i].parts /\ d.data[i].loading = s.data[i].loading
          /\ d.data[i].loaded = s.data[i].loaded /\ d.data[i].changed = s.data[i].changed

LEMMA AlikeHalfOK ==
    ASSUME NEW s, NEW db, NEW L, HalfOK(s, db, L), NEW d, Alike(s, d)
    PROVE  HalfOK(d, db, L)
<1>1. \A i \in Indices : Saved(d, db, i) = Saved(s, db, i)
  BY DEF Alike, Saved
<1>2. \A i \in Indices : SliceOK(d, i)
  BY DEF Alike, SliceOK, HalfOK
<1>3. HeaderOK(d) /\ UnknownOK(d, db) /\ CacheOK(d, db)
  BY DEF Alike, HalfOK, HeaderOK, UnknownOK, CacheOK
<1>4. KnownOK(d, db)
  BY <1>1, Constants DEF Alike, HalfOK, KnownOK
<1>5. Lacking(d, db, L)
  BY <1>1, IndexIn DEF Alike, HalfOK, Lacking
<1> QED BY <1>2, <1>3, <1>4, <1>5 DEF Alike, HalfOK

LEMMA AlikeApart ==
    ASSUME NEW s, NEW d, Alike(s, d), Apart(s)
    PROVE  Apart(d)
  BY Constants DEF Alike, Apart

LEMMA AlikeOK ==
    ASSUME NEW s, NEW db, NEW L, MemoryOK(s, db, L), NEW d, Alike(s, d)
    PROVE  MemoryOK(d, db, L)
  BY AlikeHalfOK, AlikeApart DEF MemoryOK

LEMMA AlikeWanted ==
    ASSUME NEW s, NEW d, Alike(s, d), NEW n \in 0 .. Slices
    PROVE  Wanted(d, n) <=> Wanted(s, n)
<1>1. n # 0 => n - 1 \in Indices
  BY Constants DEF Indices
<1> QED BY <1>1, Constants DEF Alike, Wanted

LEMMA CheckedAlike ==
    ASSUME NEW s \in SlicesType, NEW I, I \subseteq Indices
    PROVE  Alike(s, CheckFullLoaded(s, I))
<1> DEFINE changed == {i \in I : s.data[i].full # (s.data[i].parts = Within(i))}
           data == [i \in Indices |-> [s.data[i] EXCEPT !.full = IF i \in changed THEN ~@ ELSE @]]
           d == [s EXCEPT !.data = data, !.full = \A i \in Indices : data[i].full]
<1>1. CheckFullLoaded(s, I) = IF changed = {} THEN s ELSE d
  BY DEF CheckFullLoaded
<1> HIDE DEF changed
<1>2. \A i \in Indices :
        /\ s.data[i] \in SliceType /\ data[i] \in SliceType
        /\ data[i].parts = s.data[i].parts /\ data[i].loading = s.data[i].loading
        /\ data[i].loaded = s.data[i].loaded /\ data[i].changed = s.data[i].changed
  BY DEF SlicesType, SliceType
<1>3. DOMAIN data = Indices /\ data = [i \in Indices |-> data[i]]
  OBVIOUS
<1> HIDE DEF data
<1>4. data \in [Indices -> SliceType]
  BY <1>2, <1>3
<1>5. Alike(s, s)
  BY DEF Alike
<1>6. Alike(s, d)
  <2>1. d \in SlicesType /\ d.data = data
    BY <1>4 DEF SlicesType
  <2>2. d.header = s.header /\ d.used = s.used /\ d.mode = s.mode /\ d.broken = s.broken
    BY DEF SlicesType
  <2> HIDE DEF d
  <2> QED BY <1>2, <2>1, <2>2 DEF Alike
<1> QED BY <1>1, <1>5, <1>6

LEMMA SizedAlike ==
    ASSUME NEW s \in SlicesType, NEW known
    PROVE  Alike(s, ProcessCachedSizes(s, known))
<1> DEFINE data == [i \in Indices |-> [s.data[i] EXCEPT !.full = @ \/ i \in known]]
           d == [s EXCEPT !.data = data, !.full = \A i \in Indices : data[i].full]
<1>1. ProcessCachedSizes(s, known) = d
  BY DEF ProcessCachedSizes
<1>2. \A i \in Indices :
        /\ s.data[i] \in SliceType /\ data[i] \in SliceType
        /\ data[i].parts = s.data[i].parts /\ data[i].loading = s.data[i].loading
        /\ data[i].loaded = s.data[i].loaded /\ data[i].changed = s.data[i].changed
  BY DEF SlicesType, SliceType
<1>3. DOMAIN data = Indices /\ data = [i \in Indices |-> data[i]]
  OBVIOUS
<1> HIDE DEF data
<1>4. data \in [Indices -> SliceType]
  BY <1>2, <1>3
<1>5. d \in SlicesType /\ d.data = data
  BY <1>4 DEF SlicesType
<1>6. d.header = s.header /\ d.used = s.used /\ d.mode = s.mode /\ d.broken = s.broken
  BY DEF SlicesType
<1> HIDE DEF d
<1> QED BY <1>1, <1>2, <1>5, <1>6 DEF Alike

LEMMA ExpectsHolds ==
    ASSUME NEW s \in SlicesType, ~s.broken, NEW condition \in BOOLEAN, condition
    PROVE  Expects(s, condition) = s
<1>1. [s EXCEPT !.broken = @ \/ ~condition] = s
  BY DEF SlicesType
<1> QED BY <1>1 DEF Expects

-----------------------------------------------------------------------------
(* headerDone() of a reader that found nothing in the cache.                 *)

LEMMA HeaderDoneOK ==
    ASSUME NEW s, NEW db, NEW L, MemoryOK(s, db, L), s.header.parts # {},
           NEW d, d = HeaderDone(s, FALSE)
    PROVE  /\ MemoryOK(d, db, L) /\ d.header = s.header
           /\ \A n : Wanted(s, n) /\ n \in 0 .. Slices => Wanted(d, n)
<1>1. CASE s.mode # "Unknown"
  BY <1>1 DEF HeaderDone
<1>2. CASE s.mode = "Unknown"
  <2> DEFINE mode == IF IsGoodHeader(s.header.parts) THEN "Good" ELSE "Small"
             data == [i \in Indices |-> [s.data[i] EXCEPT !.loaded = TRUE]]
             none == \A i \in Indices : ~s.data[i].loading /\ ~s.data[i].loaded
             e == [s EXCEPT !.mode = mode, !.data = data]
  <2>1. d = Expects(e, none)
    <3>1. d = Expects([[s EXCEPT !.mode = mode] EXCEPT !.data = data], none)
      BY <1>2 DEF HeaderDone
    <3>2. [[s EXCEPT !.mode = mode] EXCEPT !.data = data] = e
      BY DEF MemoryOK, HalfOK, SlicesType
    <3> QED BY <3>1, <3>2
  <2>2. s \in SlicesType /\ ~s.broken /\ L \subseteq Parts /\ UnknownOK(s, db) /\ HeaderOK(s)
        /\ \A i \in Indices : SliceOK(s, i)
    BY DEF MemoryOK, HalfOK
  <2>3. none /\ none \in BOOLEAN
    BY <1>2, <2>2 DEF UnknownOK
  <2>4. \A i \in Indices :
          /\ s.data[i] \in SliceType /\ data[i] \in SliceType
          /\ data[i].parts = s.data[i].parts /\ data[i].loading = FALSE
          /\ data[i].loaded = TRUE /\ data[i].changed = FALSE
    BY <2>2, <2>3 DEF SlicesType, SliceType, SliceOK
  <2>5. data \in [Indices -> SliceType]
    <3>1. data = [i \in Indices |-> data[i]]
      OBVIOUS
    <3> HIDE DEF data
    <3> QED BY <2>4, <3>1
  <2>6. mode \in {"Good", "Small"} /\ (mode = "Good" <=> IsGoodHeader(s.header.parts))
    OBVIOUS
  <2> HIDE DEF data, mode, none
  <2>7. e \in SlicesType /\ e.data = data /\ e.mode = mode /\ e.header = s.header
        /\ e.used = s.used /\ e.broken = s.broken
    BY <2>2, <2>5, <2>6 DEF SlicesType
  <2> HIDE DEF e
  <2>8. d = e
    BY <2>1, <2>2, <2>3, <2>7, ExpectsHolds
  <2>9. s.header.loaded /\ s.header.changed /\ db.header = {} /\ db.first = {}
        /\ \A i \in Indices : db.slice[i] = {}
    BY <1>2, <2>2 DEF UnknownOK, LeftInOrder
  <2>10. \A i \in Indices : Saved(d, db, i) \subseteq s.data[i].parts
    BY <1>2, <2>2, <2>7, <2>8, <2>9 DEF UnknownOK, Saved
  <2>11. \A i \in Indices : SliceOK(d, i)
    BY <2>2, <2>4, <2>7, <2>8 DEF SliceOK
  <2>12. KnownOK(d, db)
    <3>1. \A i \in Indices : d.data[i].loaded /\ Saved(d, db, i) \subseteq d.data[i].parts
      BY <2>4, <2>7, <2>8, <2>10
    <3>2. d.header.loaded /\ d.header.changed /\ d.header.parts # {} /\ d.mode = mode
      BY <2>7, <2>8, <2>9
    <3>3. d.mode = "Good" <=> IsGoodHeader(d.header.parts)
      BY <2>6, <2>7, <2>8
    <3> QED BY <2>9, <3>1, <3>2, <3>3, Constants DEF KnownOK
  <2>13. HeaderOK(d) /\ UnknownOK(d, db) /\ CacheOK(d, db)
    BY <2>2, <2>6, <2>7, <2>8, <2>9 DEF MemoryOK, HalfOK, HeaderOK, UnknownOK, CacheOK
  <2>14. Lacking(d, db, L)
    BY <2>4, <2>7, <2>8, <2>10, <2>2, IndexIn DEF MemoryOK, HalfOK, Lacking
  <2>15. Apart(d)
    BY <2>4, <2>7, <2>8, Constants DEF Apart
  <2>16. \A n : ~Wanted(s, n)
    BY <1>2, <2>9 DEF Wanted
  <2> QED BY <2>2, <2>7, <2>8, <2>9, <2>11, <2>12, <2>13, <2>14, <2>15, <2>16 DEF MemoryOK, HalfOK
<1> QED BY <1>1, <1>2

-----------------------------------------------------------------------------
(* processCacheResults().                                                    *)

LEMMA SavedWithin ==
    ASSUME NEW s, NEW db, CacheOK(s, db), NEW i \in Indices
    PROVE  Saved(s, db, i) \subseteq Within(i)
  BY DEF CacheOK, Saved

\* An entry that comes for slice i is all that is saved of it, up to what the
\* header brought.
LEMMA SlicesReadOK ==
    ASSUME NEW s, NEW db, NEW L, HalfOK(s, db, L), NEW found,
           \A i \in Indices : i + 1 \in DOMAIN found /\ s.data[i].loading =>
               /\ found[i + 1] \subseteq Saved(s, db, i)
               /\ Saved(s, db, i) \subseteq found[i + 1] \union s.data[i].parts,
           Apart(s) \/ (1 \in DOMAIN found /\ s.data[0].loading),
           NEW d, d = ProcessSlices(s, found)
    PROVE  /\ MemoryOK(d, db, L) /\ d.header = s.header /\ d.mode = s.mode
           /\ \A n \in 0 .. Slices : Wanted(s, n) /\ n \notin DOMAIN found
                                     /\ (n = 0 => 1 \notin DOMAIN found) => Wanted(d, n)
<1> DEFINE came == {i \in Indices : i + 1 \in DOMAIN found /\ s.data[i].loading}
           data == [i \in Indices |-> IF i \in came THEN Merged(s.data[i], found[i + 1])
                                                    ELSE s.data[i]]
           none == \A i \in came : ~s.data[i].loaded
           e == [s EXCEPT !.data = data]
<1>1. d = CheckFullLoaded(Expects(e, none), came)
  BY DEF ProcessSlices
<1>2. s \in SlicesType /\ ~s.broken /\ L \subseteq Parts /\ UnknownOK(s, db) /\ HeaderOK(s)
      /\ KnownOK(s, db) /\ CacheOK(s, db) /\ Lacking(s, db, L)
      /\ (~s.header.loaded => L = {}) /\ \A i \in Indices : SliceOK(s, i)
  BY DEF HalfOK
<1>3. none /\ none \in BOOLEAN
  BY <1>2 DEF SliceOK
<1>4. \A i \in Indices : Saved(s, db, i) \subseteq Within(i)
  BY <1>2, SavedWithin
<1>5. \A i \in came :
        /\ i \in Indices /\ data[i] \in SliceType /\ data[i].loaded /\ ~data[i].loading
        /\ data[i].parts = s.data[i].parts \union found[i + 1]
        /\ data[i].changed = s.data[i].changed /\ ~data[i].changed
        /\ Saved(s, db, i) \subseteq data[i].parts
        /\ data[i].parts \subseteq s.data[i].parts \union Saved(s, db, i)
  <2> SUFFICES ASSUME NEW i \in came
               PROVE  /\ data[i] \in SliceType /\ data[i].loaded /\ ~data[i].loading
                      /\ data[i].parts = s.data[i].parts \union found[i + 1]
                      /\ data[i].changed = s.data[i].changed /\ ~data[i].changed
                      /\ Saved(s, db, i) \subseteq data[i].parts
                      /\ data[i].parts \subseteq s.data[i].parts \union Saved(s, db, i)
    OBVIOUS
  <2>1. s.data[i] \in SliceType /\ ~s.data[i].changed
    BY <1>2, <1>3 DEF SlicesType, SliceOK
  <2>2. found[i + 1] \subseteq Parts
    BY <1>4, IndexIn
  <2>3. data[i] = [s.data[i] EXCEPT !.parts = @ \union found[i + 1], !.loaded = TRUE, !.loading = FALSE]
    BY DEF Merged
  <2> HIDE DEF data
  <2> QED BY ZenonT(40), <2>1, <2>2, <2>3 DEF SliceType
<1>6. \A i \in Indices : i \notin came => data[i] = s.data[i]
  OBVIOUS
<1>7. data \in [Indices -> SliceType]
  <2>1. data = [i \in Indices |-> data[i]]
    OBVIOUS
  <2>2. \A i \in Indices : s.data[i] \in SliceType
    BY <1>2 DEF SlicesType
  <2> HIDE DEF data, came
  <2>3. \A i \in Indices : data[i] \in SliceType
    BY <1>5, <1>6, <2>2
  <2> QED BY <2>1, <2>3
<1>8. came \subseteq Indices
  OBVIOUS
<1>9. \A i \in came : i + 1 \in DOMAIN found /\ s.data[i].loading
  OBVIOUS
<1>10. 1 \in DOMAIN found /\ s.data[0].loading => 0 \in came
  BY Constants
<1> HIDE DEF data, none, came
<1>11. e \in SlicesType /\ e.data = data /\ e.mode = s.mode /\ e.header = s.header
       /\ e.used = s.used /\ e.broken = s.broken
  BY <1>2, <1>7 DEF SlicesType
<1> HIDE DEF e
<1>12. d = CheckFullLoaded(e, came)
  BY <1>1, <1>2, <1>3, <1>11, ExpectsHolds
<1>13. Alike(e, d)
  BY <1>8, <1>11, <1>12, CheckedAlike
<1>14. came # {} => s.mode # "Unknown"
  BY <1>2, <1>8, <1>9 DEF UnknownOK
<1>15. \A i \in Indices : Saved(e, db, i) = Saved(s, db, i)
  BY <1>11 DEF Saved
<1>16. \A i \in Indices : SliceOK(e, i)
  <2> SUFFICES ASSUME NEW i \in Indices PROVE SliceOK(e, i)
    OBVIOUS
  <2>1. CASE i \in came
    BY <1>2, <1>4, <1>5, <1>11, <2>1 DEF SliceOK
  <2>2. CASE i \notin came
    BY <1>2, <1>6, <1>11, <2>2 DEF SliceOK
  <2> QED BY <2>1, <2>2
<1>17. UnknownOK(e, db)
  <2>1. s.mode = "Unknown" => data = s.data
    BY <1>2, <1>6, <1>7, <1>14 DEF SlicesType
  <2> QED BY <1>2, <1>11, <2>1 DEF UnknownOK
<1>18. KnownOK(e, db)
  <2>1. ASSUME NEW i \in Indices, s.mode # "Unknown", data[i].loaded
        PROVE  Saved(s, db, i) \subseteq data[i].parts
    BY <1>2, <1>5, <1>6, <2>1 DEF KnownOK
  <2>2. s.data[0].loaded => data[0].loaded
    BY <1>5, <1>6, Constants
  <2> QED BY <1>2, <1>11, <1>15, <2>1, <2>2 DEF KnownOK
<1>19. Lacking(e, db, L)
  <2> SUFFICES ASSUME NEW p \in L
               PROVE  /\ p \notin data[IndexOf(p)].parts
                      /\ s.mode # "Unknown" => p \notin Saved(s, db, IndexOf(p))
    BY <1>2, <1>11, <1>15, IndexIn DEF Lacking
  <2>1. p \notin s.data[IndexOf(p)].parts /\ IndexOf(p) \in Indices
        /\ (s.mode # "Unknown" => p \notin Saved(s, db, IndexOf(p)))
    BY <1>2, IndexIn DEF Lacking
  <2> QED BY <1>5, <1>6, <1>14, <2>1
<1>20. HalfOK(e, db, L)
  BY <1>2, <1>11, <1>16, <1>17, <1>18, <1>19 DEF HalfOK, HeaderOK, CacheOK
<1>21. Apart(e)
  BY <1>5, <1>6, <1>10, <1>11, Constants DEF Apart
<1>22. MemoryOK(d, db, L)
  BY <1>13, <1>20, <1>21, AlikeOK DEF MemoryOK
<1>23. \A n \in 0 .. Slices : Wanted(s, n) /\ n \notin DOMAIN found
                              /\ (n = 0 => 1 \notin DOMAIN found) => Wanted(e, n)
  <2> SUFFICES ASSUME NEW n \in 0 .. Slices, Wanted(s, n), n \notin DOMAIN found,
                      n = 0 => 1 \notin DOMAIN found
               PROVE  Wanted(e, n)
    OBVIOUS
  <2>1. CASE n = 0
    <3>1. 0 \notin came /\ data[0] = s.data[0]
      BY <1>6, <1>9, <2>1, Constants
    <3> QED BY <1>11, <2>1, <3>1 DEF Wanted
  <2>2. CASE n # 0
    <3>1. n - 1 \in Indices /\ n - 1 + 1 = n
      BY <2>2, Constants DEF Indices
    <3>2. n - 1 \notin came /\ data[n - 1] = s.data[n - 1]
      BY <1>6, <1>9, <3>1
    <3> QED BY <1>11, <2>2, <3>2 DEF Wanted
  <2> QED BY <2>1, <2>2
<1>24. \A n \in 0 .. Slices : Wanted(e, n) => Wanted(d, n)
  BY <1>13, AlikeWanted
<1>25. d.header = s.header /\ d.mode = s.mode
  BY <1>11, <1>13 DEF Alike
<1> QED BY <1>22, <1>23, <1>24, <1>25

\* The header's entry again, with that of a first slice that was unloaded.
LEMMA GoodHeaderRead ==
    ASSUME NEW s, NEW db, NEW L, MemoryOK(s, db, L), s.mode = "Good", s.data[0].loading,
           NEW d, d = ProcessHeader(s, db.header)
    PROVE  /\ HalfOK(d, db, L) /\ d.mode = "Good" /\ d.header = s.header
           /\ IsGoodHeader(db.header) /\ d.data[0].loading
           /\ d.header.parts \intersect Within(0) \subseteq d.data[0].parts
           /\ \A n \in 1 .. Slices : Wanted(s, n) => Wanted(d, n)
<1>1. s \in SlicesType /\ ~s.broken /\ L \subseteq Parts /\ UnknownOK(s, db) /\ HeaderOK(s)
      /\ KnownOK(s, db) /\ CacheOK(s, db) /\ Lacking(s, db, L)
      /\ (~s.header.loaded => L = {}) /\ (\A i \in Indices : SliceOK(s, i)) /\ Apart(s)
  BY DEF MemoryOK, HalfOK
<1>2. /\ s.header.loaded /\ s.header.loading = FALSE /\ s.header.parts # {}
      /\ db.header \subseteq s.header.parts /\ IsGoodHeader(s.header.parts)
      /\ ~s.data[0].loaded /\ ~s.data[0].changed /\ ~s.header.changed
      /\ s.data[0].parts \intersect s.header.parts = {}
  BY <1>1, Constants DEF KnownOK, HeaderOK, SliceOK, Apart
<1> DEFINE m == [s EXCEPT !.header = Merged(@, db.header)]
           none == s.header.parts \intersect s.data[0].parts = {}
           data == [i \in Indices |->
                      IF i = 0 THEN Added(s.data[i], s.header.parts \intersect Within(i))
                               ELSE s.data[i]]
           e == [s EXCEPT !.data = data]
           f == [e EXCEPT !.data[0].loading = TRUE]
<1>3. m = s
  <2>1. s.header \in SliceType
    BY <1>1 DEF SlicesType
  <2>2. Merged(s.header, db.header) = s.header
    BY <1>2, <2>1 DEF Merged, SliceType
  <2> QED BY <1>1, <2>2 DEF SlicesType
<1>4. Expects(m, s.mode = "Good" \/ ~s.header.loaded) = s
  BY <1>1, <1>3, ExpectsHolds
<1>5. ApplyHeaderCacheData(s) = e
  <2> DEFINE A(i) == IF i \in {0} THEN Added(s.data[i], s.header.parts \intersect Within(i))
                                  ELSE s.data[i]
             all == \A i \in {0} : s.header.parts \intersect s.data[i].parts = {}
  <2>1. ApplyHeaderCacheData(s) = HeaderDone(Expects([s EXCEPT !.data = [i \in Indices |-> A(i)]], all), TRUE)
    BY <1>2 DEF ApplyHeaderCacheData
  <2>2. [i \in Indices |-> A(i)] = data
    OBVIOUS
  <2>3. all /\ all \in BOOLEAN
    BY <1>2
  <2> HIDE DEF A, all, data
  <2>4. ApplyHeaderCacheData(s) = HeaderDone(Expects(e, all), TRUE)
    BY <2>1, <2>2
  <2>5. e.broken = s.broken /\ e.mode = "Good"
    BY <1>1 DEF SlicesType
  <2>6. Expects(e, all) = [e EXCEPT !.broken = @ \/ ~all]
    BY DEF Expects
  <2>7. [e EXCEPT !.broken = @ \/ ~all] = e
    BY <1>1, <2>3, <2>5 DEF SlicesType
  <2> QED BY <2>4, <2>5, <2>6, <2>7 DEF HeaderDone
<1>6. /\ data[0].parts = s.data[0].parts \union (s.header.parts \intersect Within(0))
      /\ data[0].loading = s.data[0].loading /\ data[0].loaded = FALSE
      /\ data[0].changed = FALSE /\ data[0] \in SliceType
      /\ data[0] = [data[0] EXCEPT !.loading = TRUE]
  <2>1. s.data[0] \in SliceType /\ data[0] = Added(s.data[0], s.header.parts \intersect Within(0))
    BY <1>1, Constants DEF SlicesType
  <2>2. s.header.parts \intersect Within(0) \subseteq Parts
    BY IndexIn
  <2> HIDE DEF data
  <2> QED BY ZenonT(40), <1>2, <2>1, <2>2 DEF Added, SliceType
<1>7. \A i \in Indices : i # 0 => data[i] = s.data[i]
  OBVIOUS
<1>8. data = [i \in Indices |-> data[i]]
  OBVIOUS
<1> HIDE DEF data
<1>9. data \in [Indices -> SliceType]
  <2>1. \A i \in Indices : data[i] \in SliceType
    BY <1>1, <1>6, <1>7 DEF SlicesType
  <2> QED BY <1>8, <2>1
<1>10. e \in SlicesType /\ e.data = data /\ e.mode = s.mode /\ e.header = s.header
       /\ e.used = s.used /\ e.broken = s.broken
  BY <1>1, <1>9 DEF SlicesType
<1>11. d = e
  <2>1. d = CASE ~s.data[0].loading -> s
            [] e.mode = "Good" -> [e EXCEPT !.data[0].loading = TRUE]
            [] OTHER -> e
    BY <1>4, <1>5 DEF ProcessHeader
  <2>2. d = [e EXCEPT !.data = [data EXCEPT ![0] = [data[0] EXCEPT !.loading = TRUE]]]
    BY <1>10, <2>1
  <2>3. [data EXCEPT ![0] = data[0]] = data
    BY <1>9
  <2>4. [e EXCEPT !.data = data] = e
    BY <1>10 DEF SlicesType
  <2> QED BY <1>6, <2>2, <2>3, <2>4
<1> HIDE DEF e
<1>12. \A i \in Indices : Saved(d, db, i) = Saved(s, db, i)
  BY <1>10, <1>11 DEF Saved
<1>13. \A i \in Indices : SliceOK(d, i)
  <2> SUFFICES ASSUME NEW i \in Indices PROVE SliceOK(d, i)
    OBVIOUS
  <2>1. CASE i = 0
    BY <1>1, <1>6, <1>10, <1>11, <2>1 DEF SliceOK
  <2>2. CASE i # 0
    BY <1>1, <1>7, <1>10, <1>11, <2>2 DEF SliceOK
  <2> QED BY <2>1, <2>2
<1>14. KnownOK(d, db)
  <2>1. ASSUME NEW i \in Indices, data[i].loaded PROVE Saved(s, db, i) \subseteq data[i].parts
    BY <1>1, <1>6, <1>7, <2>1 DEF KnownOK
  <2> QED BY <1>1, <1>2, <1>10, <1>11, <1>12, <2>1 DEF KnownOK
<1>15. Lacking(d, db, L)
  <2> SUFFICES ASSUME NEW p \in L
               PROVE  p \notin data[IndexOf(p)].parts /\ p \notin Saved(s, db, IndexOf(p))
    BY <1>1, <1>10, <1>11, <1>12, IndexIn DEF Lacking
  <2>1. /\ p \notin s.data[IndexOf(p)].parts /\ IndexOf(p) \in Indices
        /\ p \notin Saved(s, db, IndexOf(p)) /\ p \in Within(IndexOf(p))
    BY <1>1, IndexIn DEF Lacking
  <2>2. CASE IndexOf(p) = 0
    BY <1>6, <2>1, <2>2 DEF Saved
  <2>3. CASE IndexOf(p) # 0
    BY <1>7, <2>1, <2>3
  <2> QED BY <2>1, <2>2, <2>3
<1>16. HalfOK(d, db, L)
  BY <1>1, <1>10, <1>11, <1>13, <1>14, <1>15 DEF HalfOK, HeaderOK, CacheOK, UnknownOK
<1>17. IsGoodHeader(db.header)
  BY <1>1, <1>2, SmallerIsGood DEF SlicesType, SliceType
<1>18. \A n \in 1 .. Slices : Wanted(s, n) => Wanted(d, n)
  <2> SUFFICES ASSUME NEW n \in 1 .. Slices, Wanted(s, n) PROVE Wanted(d, n)
    OBVIOUS
  <2>1. n # 0 /\ n # 1 /\ n - 1 \in Indices /\ n - 1 # 0
    BY Constants DEF Wanted, Indices
  <2> QED BY <1>7, <1>10, <1>11, <2>1 DEF Wanted
<1> QED BY <1>6, <1>10, <1>11, <1>16, <1>17, <1>18

\* The first entry of all that is read.
LEMMA FirstHeaderRead ==
    ASSUME NEW s, NEW db, NEW L, MemoryOK(s, db, L), s.mode = "Unknown", ~s.header.loaded,
           NEW d, d = ProcessHeader(s, db.header)
    PROVE  /\ HalfOK(d, db, L)
           /\ d.mode = "Good" => /\ IsGoodHeader(db.header) /\ d.data[0].loading
                                 /\ d.header.parts \intersect Within(0) \subseteq d.data[0].parts
           /\ d.mode = "Small" => ~IsGoodHeader(db.header)
           /\ d.mode # "Good" => \A i \in Indices : ~d.data[i].loading
<1>1. s \in SlicesType /\ ~s.broken /\ L = {} /\ UnknownOK(s, db) /\ HeaderOK(s)
      /\ CacheOK(s, db) /\ Lacking(s, db, L) /\ (\A i \in Indices : SliceOK(s, i))
  BY DEF MemoryOK, HalfOK
<1>2. /\ LeftInOrder(db) /\ s.header.parts = {} /\ s.header.loading = TRUE /\ ~s.header.changed
      /\ \A i \in Indices : /\ ~s.data[i].loaded /\ ~s.data[i].loading /\ s.data[i].parts = {}
                            /\ ~s.data[i].changed
  BY <1>1 DEF UnknownOK, HeaderOK, SliceOK
<1> DEFINE header == [s.header EXCEPT !.parts = db.header, !.loaded = TRUE, !.loading = FALSE]
           m == [s EXCEPT !.header = header]
<1>3. header \in SliceType /\ header.parts = db.header /\ header.loaded = TRUE
      /\ header.loading = FALSE /\ header.changed = FALSE
  <2>1. s.header \in SliceType /\ db.header \subseteq Parts
    BY <1>1, <1>2 DEF SlicesType, CacheOK, CacheType
  <2> QED BY <1>2, <2>1 DEF SliceType
<1>4. Expects([s EXCEPT !.header = Merged(@, db.header)], s.mode = "Good" \/ ~s.header.loaded) = m
  <2>1. Merged(s.header, db.header) = [s.header EXCEPT !.parts = {} \union db.header,
                                                         !.loaded = TRUE, !.loading = FALSE]
    BY <1>2 DEF Merged
  <2>2. Merged(s.header, db.header) = header
    BY <2>1
  <2> HIDE DEF header
  <2>3. m \in SlicesType /\ m.broken = s.broken
    BY <1>1, <1>3 DEF SlicesType
  <2> QED BY <1>1, <2>2, <2>3, ExpectsHolds
<1> HIDE DEF header
<1>5. m \in SlicesType /\ m.header = header /\ m.mode = "Unknown" /\ m.broken = s.broken
      /\ m.data = s.data /\ m.used = s.used
  BY <1>1, <1>3 DEF SlicesType
<1> HIDE DEF m
<1> DEFINE applied == ApplyHeaderCacheData(m)
<1>6. d = CASE applied.mode = "Good" -> [applied EXCEPT !.data[0].loading = TRUE]
            [] OTHER -> applied
  <2>1. d = CASE ~s.header.loading -> s
            [] applied.mode = "Good" -> [applied EXCEPT !.data[0].loading = TRUE]
            [] OTHER -> applied
    BY <1>4 DEF ProcessHeader
  <2> HIDE DEF applied
  <2> QED BY <1>2, <2>1
<1>7. CASE db.header = {}
  <2>1. applied = m
    BY <1>3, <1>5, <1>7 DEF ApplyHeaderCacheData
  <2>2. d = m
    BY <1>5, <1>6, <2>1
  <2>3. UnknownOK(d, db)
    BY <1>1, <1>2, <1>3, <1>5, <1>7, <2>2 DEF UnknownOK
  <2>4. HalfOK(d, db, L)
    BY <1>1, <1>3, <1>5, <2>2, <2>3 DEF HalfOK, HeaderOK, KnownOK, CacheOK, Lacking, SliceOK
  <2> QED BY <1>2, <1>5, <2>2, <2>4
<1>8. CASE db.header # {}
  <2> DEFINE mode == IF IsGoodHeader(db.header) THEN "Good" ELSE "Small"
             data == [i \in Indices |-> Added(s.data[i], db.header \intersect Within(i))]
             all == \A i \in Indices : db.header \intersect s.data[i].parts = {}
             e == [m EXCEPT !.data = data]
  <2>1. \A i \in Indices :
          /\ data[i] \in SliceType /\ data[i].parts = db.header \intersect Within(i)
          /\ data[i].loading = FALSE /\ data[i].loaded = FALSE /\ data[i].changed = FALSE
    <3> SUFFICES ASSUME NEW i \in Indices
                 PROVE  /\ data[i] \in SliceType /\ data[i].parts = db.header \intersect Within(i)
                        /\ data[i].loading = FALSE /\ data[i].loaded = FALSE
                        /\ data[i].changed = FALSE
      OBVIOUS
    <3>1. s.data[i] \in SliceType /\ data[i] = Added(s.data[i], db.header \intersect Within(i))
      BY <1>1 DEF SlicesType
    <3>2. db.header \intersect Within(i) \subseteq Parts
      BY IndexIn
    <3> HIDE DEF data
    <3> QED BY <1>2, <3>1, <3>2 DEF Added, SliceType
  <2>2. all /\ all \in BOOLEAN
    BY <1>2
  <2>3. data = [i \in Indices |-> data[i]]
    OBVIOUS
  <2>4. applied = HeaderDone(Expects(e, all), TRUE)
    <3> DEFINE A(i) == IF i \in Indices THEN Added(m.data[i], m.header.parts \intersect Within(i))
                                        ELSE m.data[i]
               B == \A i \in Indices : m.header.parts \intersect m.data[i].parts = {}
    <3>1. applied = HeaderDone(Expects([m EXCEPT !.data = [i \in Indices |-> A(i)]], B), TRUE)
      BY <1>3, <1>5, <1>8 DEF ApplyHeaderCacheData
    <3>2. [i \in Indices |-> A(i)] = data /\ B = all
      BY <1>3, <1>5
    <3> HIDE DEF A, B, data, all, applied
    <3> QED BY <3>1, <3>2
  <2> HIDE DEF data, all, applied
  <2>5. data \in [Indices -> SliceType]
    BY <2>1, <2>3
  <2>6. e \in SlicesType /\ e.header = header /\ e.mode = "Unknown" /\ e.broken = s.broken
        /\ e.data = data /\ e.used = s.used
    BY <1>5, <2>5 DEF SlicesType
  <2> HIDE DEF e
  <2>7. Expects(e, all) = e
    BY <1>1, <2>2, <2>6, ExpectsHolds
  <2>8. applied = [e EXCEPT !.mode = mode]
    BY <1>3, <2>4, <2>6, <2>7 DEF HeaderDone
  <2>9. mode \in {"Good", "Small"} /\ (mode = "Good" <=> IsGoodHeader(db.header))
    OBVIOUS
  <2> HIDE DEF mode
  <2>10. applied \in SlicesType /\ applied.header = header /\ applied.mode = mode
         /\ applied.broken = s.broken /\ applied.data = data /\ applied.used = s.used
    BY <2>6, <2>8, <2>9 DEF SlicesType
  <2> DEFINE first == [data[0] EXCEPT !.loading = TRUE]
             after == IF mode = "Good" THEN [data EXCEPT ![0] = first] ELSE data
  <2>11. /\ first \in SliceType /\ first.parts = data[0].parts /\ first.loading = TRUE
         /\ first.loaded = FALSE /\ first.changed = FALSE
    BY <2>1, Constants DEF SliceType
  <2> HIDE DEF first
  <2>12. /\ after \in [Indices -> SliceType]
         /\ \A i \in Indices : /\ after[i].parts = db.header \intersect Within(i)
                               /\ after[i].loading <=> mode = "Good" /\ i = 0
                               /\ after[i].loaded = FALSE /\ after[i].changed = FALSE
    BY <2>1, <2>5, <2>11, Constants
  <2>13. d = [applied EXCEPT !.data = after]
    <3>1. CASE mode = "Good"
      <4>1. d = [applied EXCEPT !.data = [data EXCEPT ![0] = [data[0] EXCEPT !.loading = TRUE]]]
        BY <1>6, <2>10, <3>1
      <4> QED BY <3>1, <4>1 DEF first
    <3>2. CASE mode # "Good"
      <4>1. d = applied
        BY <1>6, <2>10, <3>2
      <4> QED BY <2>10, <3>2, <4>1 DEF SlicesType
    <3> QED BY <3>1, <3>2
  <2> HIDE DEF after
  <2>14. d \in SlicesType /\ d.header = header /\ d.mode = mode /\ d.broken = s.broken
         /\ d.data = after
    BY <2>10, <2>12, <2>13 DEF SlicesType
  <2>15. \A i \in Indices : SliceOK(d, i)
    BY <2>12, <2>14 DEF SliceOK
  <2>16. KnownOK(d, db)
    BY <1>2, <1>3, <1>8, <2>9, <2>12, <2>14, Constants DEF KnownOK, LeftInOrder
  <2>17. CacheOK(d, db)
    BY <1>1, <1>3, <2>14 DEF CacheOK
  <2>18. HalfOK(d, db, L)
    BY <1>1, <1>3, <2>9, <2>14, <2>15, <2>16, <2>17 DEF HalfOK, HeaderOK, UnknownOK, Lacking
  <2> QED BY <1>3, <2>9, <2>12, <2>14, <2>18, Constants
<1> QED BY <1>7, <1>8

LEMMA ResultsReadOK ==
    ASSUME NEW s, NEW db, NEW L, MemoryOK(s, db, L), NEW found, ResultsOK(s, db, found),
           NEW d, d = ProcessCacheResults(s, found)
    PROVE  /\ MemoryOK(d, db, L)
           /\ s.header.parts # {} => d.header.parts # {}
           /\ 0 \in DOMAIN found /\ d.mode = "Good" => 1 \in DOMAIN found
           /\ \A n \in 0 .. Slices : Wanted(s, n) /\ n \notin DOMAIN found => Wanted(d, n)
<1> DEFINE t == IF 0 \in DOMAIN found THEN ProcessHeader(s, found[0]) ELSE s
<1>1. d = ProcessSlices(t, found)
  BY DEF ProcessCacheResults
<1>2. s \in SlicesType /\ UnknownOK(s, db) /\ KnownOK(s, db) /\ HalfOK(s, db, L) /\ Apart(s)
      /\ \A i \in Indices : SliceOK(s, i)
  BY DEF MemoryOK, HalfOK
<1>3. \A i \in Indices : i + 1 \in 1 .. Slices /\ i + 1 \in 0 .. Slices /\ i + 1 # 0
                         /\ (i + 1) - 1 = i /\ (i + 1 = 1 <=> i = 0)
  BY Constants DEF Indices
<1>4. CASE 0 \in DOMAIN found
  <2>1. Wanted(s, 0) /\ found[0] = db.header /\ (IsGoodHeader(db.header) => 1 \in DOMAIN found)
    BY <1>4 DEF ResultsOK
  <2>2. /\ HalfOK(t, db, L)
        /\ t.mode = "Good" => /\ IsGoodHeader(db.header) /\ t.data[0].loading
                              /\ t.header.parts \intersect Within(0) \subseteq t.data[0].parts
        /\ t.mode # "Good" => \A i \in Indices : ~t.data[i].loading
        /\ \A n \in 1 .. Slices : Wanted(s, n) => Wanted(t, n)
        /\ s.header.parts # {} => t.header = s.header
    <3>1. CASE s.mode = "Good"
      <4>1. t = ProcessHeader(s, db.header) /\ s.data[0].loading
        BY <1>4, <2>1, <3>1 DEF Wanted
      <4> HIDE DEF t
      <4> QED BY <3>1, <4>1, GoodHeaderRead
    <3>2. CASE s.mode # "Good"
      <4>1. ~s.header.loaded /\ s.mode = "Unknown" /\ s.header.parts = {}
        BY <1>2, <2>1, <3>2 DEF Wanted, KnownOK, UnknownOK
      <4>2. t = ProcessHeader(s, db.header)
        BY <1>4, <2>1
      <4>3. \A n \in 1 .. Slices : ~Wanted(s, n)
        BY <4>1 DEF Wanted
      <4> HIDE DEF t
      <4> QED BY <4>1, <4>2, <4>3, FirstHeaderRead
    <3> QED BY <3>1, <3>2
  <2> HIDE DEF t
  <2>3. ASSUME NEW i \in Indices, i + 1 \in DOMAIN found, t.data[i].loading
        PROVE  /\ found[i + 1] \subseteq Saved(t, db, i)
               /\ Saved(t, db, i) \subseteq found[i + 1] \union t.data[i].parts
    <3>1. t.mode = "Good"
      BY <2>2, <2>3
    <3>2. CASE i = 0
      <4>1. found[i + 1] = db.first
        BY <1>4, <2>3, <3>2 DEF ResultsOK
      <4> QED BY <2>2, <3>1, <3>2, <4>1 DEF Saved
    <3>3. CASE i # 0
      <4>1. found[i + 1] = db.slice[i]
        BY <1>3, <2>3, <3>3 DEF ResultsOK
      <4> QED BY <3>3, <4>1 DEF Saved
    <3> QED BY <3>2, <3>3
  <2>4. Apart(t) \/ (1 \in DOMAIN found /\ t.data[0].loading)
    BY <2>1, <2>2 DEF Apart
  <2>5. /\ MemoryOK(d, db, L) /\ d.header = t.header /\ d.mode = t.mode
        /\ \A n \in 0 .. Slices : Wanted(t, n) /\ n \notin DOMAIN found
                                     /\ (n = 0 => 1 \notin DOMAIN found) => Wanted(d, n)
    BY <1>1, <2>2, <2>3, <2>4, SlicesReadOK
  <2>6. \A n \in 0 .. Slices : n \notin DOMAIN found => n \in 1 .. Slices /\ n # 0
    BY <1>4, Constants
  <2> QED BY <2>1, <2>2, <2>5, <2>6
<1>5. CASE 0 \notin DOMAIN found
  <2>1. t = s
    BY <1>5
  <2> HIDE DEF t
  <2>2. \A i \in Indices : i + 1 \in DOMAIN found =>
            Wanted(s, i + 1) /\ found[i + 1] = db.slice[i]
    BY <1>3, <1>5 DEF ResultsOK
  <2>3. \A i \in Indices : i + 1 \in DOMAIN found => found[i + 1] = Saved(s, db, i)
    BY <1>3, <2>2 DEF Wanted, Saved
  <2>4. /\ MemoryOK(d, db, L) /\ d.header = s.header /\ d.mode = s.mode
        /\ \A n \in 0 .. Slices : Wanted(s, n) /\ n \notin DOMAIN found
                                     /\ (n = 0 => 1 \notin DOMAIN found) => Wanted(d, n)
    BY <1>1, <1>2, <2>1, <2>3, SlicesReadOK
  <2>5. 1 \in DOMAIN found => ~Wanted(s, 0)
    <3>1. 1 \in DOMAIN found => Wanted(s, 1)
      BY <1>3, <2>2, Constants
    <3> QED BY <1>2, <3>1 DEF Wanted, KnownOK
  <2> QED BY <1>5, <2>4, <2>5
<1> QED BY <1>4, <1>5

LEMMA AfterResultsOK ==
    ASSUME NEW L, MemoryOK(slices, cache, L), ResultsOK(slices, cache, results)
    PROVE  /\ MemoryOK(AfterResults, cache, L)
           /\ slices.header.parts # {} => AfterResults.header.parts # {}
           /\ \A n \in 0 .. Slices :
                 Wanted(slices, n) /\ n \notin DOMAIN results => Wanted(AfterResults, n)
<1> DEFINE known == ProcessCacheResults(slices, results)
           sized == IF sizes = NoSizes THEN known ELSE ProcessCachedSizes(known, sizes)
           good == 0 \in DOMAIN results /\ sized.mode = "Good" => 1 \in DOMAIN results
<1>1. AfterResults = Expects(sized, good)
  BY DEF AfterResults
<1> HIDE DEF known
<1>2. /\ MemoryOK(known, cache, L)
      /\ slices.header.parts # {} => known.header.parts # {}
      /\ 0 \in DOMAIN results /\ known.mode = "Good" => 1 \in DOMAIN results
      /\ \A n \in 0 .. Slices : Wanted(slices, n) /\ n \notin DOMAIN results => Wanted(known, n)
  BY ResultsReadOK DEF known
<1>3. known \in SlicesType
  BY <1>2 DEF MemoryOK, HalfOK
<1>4. Alike(known, sized)
  BY <1>3, SizedAlike DEF Alike
<1> HIDE DEF sized
<1>5. good /\ good \in BOOLEAN
  BY <1>2, <1>4 DEF Alike
<1> HIDE DEF good
<1>6. MemoryOK(sized, cache, L) /\ sized \in SlicesType /\ ~sized.broken
  BY <1>2, <1>4, AlikeOK DEF MemoryOK, HalfOK
<1>7. AfterResults = sized
  BY <1>1, <1>5, <1>6, ExpectsHolds
<1>8. \A n \in 0 .. Slices : Wanted(known, n) => Wanted(sized, n)
  BY <1>4, AlikeWanted
<1>9. sized.header = known.header
  BY <1>4 DEF Alike
<1> HIDE DEF AfterResults
<1> QED BY <1>2, <1>6, <1>7, <1>8, <1>9

-----------------------------------------------------------------------------
(* processLoadedParts().                                                     *)

LEMMA FewerLacking ==
    ASSUME NEW s, NEW db, NEW L, MemoryOK(s, db, L), NEW K, K \subseteq L
    PROVE  MemoryOK(s, db, K)
  BY DEF MemoryOK, HalfOK, Lacking

LEMMA PartOK ==
    ASSUME NEW s, NEW db, NEW L, MemoryOK(s, db, L), NEW p \in L,
           NEW d, d = ProcessPart(s, p)
    PROVE  /\ MemoryOK(d, db, L \ {p})
           /\ s.header.parts # {} => d.header.parts # {}
           /\ \A n \in 0 .. Slices : Wanted(s, n) => Wanted(d, n)
<1> DEFINE i == IndexOf(p)
           toHeader == s.mode = "Unknown" /\ Cardinality(s.header.parts) < MaxPartsInHeader
           kept == IF toHeader THEN [s EXCEPT !.header = Added(@, {p})] ELSE s
           new == p \notin s.data[i].parts
           e == [kept EXCEPT !.data[i] = Added(@, {p})]
<1>1. s \in SlicesType /\ ~s.broken /\ L \subseteq Parts /\ UnknownOK(s, db) /\ HeaderOK(s)
      /\ KnownOK(s, db) /\ CacheOK(s, db) /\ Lacking(s, db, L) /\ s.header.loaded
      /\ (\A j \in Indices : SliceOK(s, j)) /\ Apart(s)
  BY DEF MemoryOK, HalfOK
<1>2. /\ p \in Parts /\ i \in Indices /\ p \in Within(i) /\ new /\ new \in BOOLEAN
      /\ s.mode # "Unknown" => p \notin Saved(s, db, i)
      /\ \A j \in Indices : j # i => p \notin Within(j)
  BY <1>1, IndexIn DEF Lacking
<1>3. CASE s.mode = "Unknown" /\ p \in s.header.parts
  <2>1. d = s
    BY <1>3 DEF ProcessPart
  <2> QED BY <2>1, FewerLacking
<1>4. CASE ~(s.mode = "Unknown" /\ p \in s.header.parts)
  <2>1. d = CheckFullLoaded(Expects(e, new), {i})
    BY <1>4 DEF ProcessPart
  <2> DEFINE header == IF toHeader THEN Added(s.header, {p}) ELSE s.header
             slice == Added(s.data[i], {p})
             data == [s.data EXCEPT ![i] = slice]
  <2>2. s.header \in SliceType /\ s.data[i] \in SliceType
    BY <1>1, <1>2 DEF SlicesType
  <2>3. /\ header \in SliceType
        /\ header.parts = IF toHeader THEN s.header.parts \union {p} ELSE s.header.parts
        /\ header.loading = s.header.loading /\ header.loaded = s.header.loaded
        /\ header.changed = (s.header.changed \/ toHeader)
    BY <1>1, <1>2, <2>2 DEF Added, SliceType
  <2>4. /\ slice \in SliceType /\ slice.parts = s.data[i].parts \union {p}
        /\ slice.loading = s.data[i].loading /\ slice.loaded = s.data[i].loaded
        /\ slice.changed = (s.data[i].changed \/ s.data[i].loaded)
    BY <1>2, <2>2 DEF Added, SliceType
  <2> HIDE DEF header, slice, toHeader
  <2>5. /\ data \in [Indices -> SliceType] /\ data[i] = slice
        /\ \A j \in Indices : j # i => data[j] = s.data[j]
    BY <1>1, <1>2, <2>4 DEF SlicesType
  <2>6. e = [s EXCEPT !.header = header, !.data = data]
    <3>1. CASE toHeader
      <4>1. e = [[s EXCEPT !.header = Added(s.header, {p})] EXCEPT !.data[i] = Added(@, {p})]
        BY <3>1
      <4>2. header = Added(s.header, {p})
        BY <3>1 DEF header
      <4> QED BY <1>1, <4>1, <4>2 DEF slice, SlicesType
    <3>2. CASE ~toHeader
      <4>1. e = [s EXCEPT !.data[i] = Added(@, {p})]
        BY <3>2
      <4>2. header = s.header
        BY <3>2 DEF header
      <4> QED BY <1>1, <4>1, <4>2 DEF slice, SlicesType
    <3> QED BY <3>1, <3>2
  <2> HIDE DEF data, kept, e
  <2>7. e \in SlicesType /\ e.header = header /\ e.data = data /\ e.mode = s.mode
        /\ e.broken = s.broken
    BY <1>1, <2>3, <2>5, <2>6 DEF SlicesType
  <2>8. Expects(e, new) = e
    BY <1>1, <1>2, <2>7, ExpectsHolds
  <2>9. Alike(e, d)
    BY <1>2, <2>1, <2>7, <2>8, CheckedAlike
  <2> HIDE DEF i, new
  <2>10. toHeader => s.mode = "Unknown"
    BY DEF toHeader
  <2>11. s.mode # "Unknown" => header = s.header
    BY <2>10 DEF header
  <2>12. s.mode = "Unknown" /\ s.header.parts = {} => toHeader
    BY FS_EmptySet, Constants DEF toHeader
  <2>13. \A j \in Indices : s.mode # "Unknown" => Saved(e, db, j) = Saved(s, db, j)
    BY <2>7, <2>11 DEF Saved
  <2>14. \A j \in Indices : SliceOK(e, j)
    <3> SUFFICES ASSUME NEW j \in Indices PROVE SliceOK(e, j)
      OBVIOUS
    <3>1. CASE j = i
      BY ZenonT(40), <1>1, <1>2, <2>4, <2>5, <2>7, <3>1 DEF SliceOK
    <3>2. CASE j # i
      BY <1>1, <2>5, <2>7, <3>2 DEF SliceOK
    <3> QED BY <3>1, <3>2
  <2>15. HeaderOK(e)
    BY <1>1, <2>3, <2>7 DEF HeaderOK
  <2>16. UnknownOK(e, db)
    <3> SUFFICES ASSUME s.mode = "Unknown" PROVE UnknownOK(e, db)
      BY <2>7 DEF UnknownOK
    <3>1. ASSUME NEW j \in Indices
          PROVE  /\ ~data[j].loaded /\ ~data[j].loading
                 /\ header.parts \intersect Within(j) \subseteq data[j].parts
                 /\ header.parts # {}
      <4>1. ~s.data[j].loaded /\ ~s.data[j].loading
            /\ s.header.parts \intersect Within(j) \subseteq s.data[j].parts
        BY <1>1 DEF UnknownOK
      <4>2. header.parts # {}
        BY <2>3, <2>12
      <4>3. CASE j = i
        BY <2>3, <2>4, <2>5, <4>1, <4>2, <4>3
      <4>4. CASE j # i
        BY <1>2, <2>3, <2>5, <4>1, <4>2, <4>4
      <4> QED BY <4>3, <4>4
    <3>2. s.header.changed \/ toHeader
      BY <1>1, <2>12 DEF UnknownOK
    <3>3. LeftInOrder(db) /\ db.header = {}
      BY <1>1 DEF UnknownOK
    <3> QED BY <1>1, <2>3, <2>7, <3>1, <3>2, <3>3 DEF UnknownOK
  <2>17. KnownOK(e, db)
    <3> SUFFICES ASSUME s.mode # "Unknown" PROVE KnownOK(e, db)
      BY <2>7 DEF KnownOK
    <3>1. ASSUME NEW j \in Indices, data[j].loaded PROVE Saved(s, db, j) \subseteq data[j].parts
      <4>1. s.data[j].loaded => Saved(s, db, j) \subseteq s.data[j].parts
        BY <1>1 DEF KnownOK
      <4> QED BY <2>4, <2>5, <3>1, <4>1
    <3>2. data[0].loaded = s.data[0].loaded
      BY <2>4, <2>5, Constants
    <3> QED BY <1>1, <2>7, <2>11, <2>13, <3>1, <3>2 DEF KnownOK
  <2>18. CacheOK(e, db)
    <3>1. s.mode = "Unknown" => db.first = {}
      BY <1>1 DEF UnknownOK, LeftInOrder
    <3> QED BY <1>1, <2>7, <2>11, <3>1 DEF CacheOK
  <2>19. Lacking(e, db, L \ {p})
    <3> SUFFICES ASSUME NEW q \in L, q # p
                 PROVE  /\ q \notin data[IndexOf(q)].parts
                        /\ s.mode # "Unknown" => q \notin Saved(s, db, IndexOf(q))
      BY <1>1, <2>7, <2>13, IndexIn DEF Lacking
    <3>1. /\ q \notin s.data[IndexOf(q)].parts /\ IndexOf(q) \in Indices
          /\ s.mode # "Unknown" => q \notin Saved(s, db, IndexOf(q))
      BY <1>1, IndexIn DEF Lacking
    <3> QED BY <2>4, <2>5, <3>1
  <2>20. HalfOK(e, db, L \ {p})
    BY <1>1, <2>7, <2>11, <2>14, <2>15, <2>16, <2>17, <2>18, <2>19, <2>3 DEF HalfOK
  <2>21. Apart(e)
    <3> SUFFICES ASSUME s.mode = "Good", ~data[0].loaded
                 PROVE  data[0].parts \intersect s.header.parts = {}
      BY <2>7, <2>11 DEF Apart
    <3>1. CASE i = 0
      <4>1. p \notin s.header.parts
        BY <1>2, <3>1 DEF Saved
      <4>2. s.data[0].parts \intersect s.header.parts = {}
        BY <1>1, <2>4, <2>5, <3>1 DEF Apart
      <4> QED BY <2>4, <2>5, <3>1, <4>1, <4>2
    <3>2. CASE i # 0
      BY <1>1, <2>5, <3>2, Constants DEF Apart
    <3> QED BY <3>1, <3>2
  <2>22. MemoryOK(d, db, L \ {p})
    BY <2>9, <2>20, <2>21, AlikeOK DEF MemoryOK
  <2>23. \A n \in 0 .. Slices : Wanted(s, n) => Wanted(e, n)
    <3> SUFFICES ASSUME NEW n \in 0 .. Slices, Wanted(s, n) PROVE Wanted(e, n)
      OBVIOUS
    <3>1. \A j \in Indices : data[j].loading = s.data[j].loading
      BY <2>4, <2>5
    <3>2. n # 0 => n - 1 \in Indices
      BY Constants DEF Indices
    <3> QED BY <2>3, <2>7, <3>1, <3>2, Constants DEF Wanted
  <2>24. \A n \in 0 .. Slices : Wanted(e, n) => Wanted(d, n)
    BY <2>9, AlikeWanted
  <2>25. d.header = header
    BY <2>7, <2>9 DEF Alike
  <2> QED BY <2>3, <2>22, <2>23, <2>24, <2>25
<1> QED BY <1>3, <1>4

-----------------------------------------------------------------------------
(* Folds over numbers, the largest one last.  The operators are told apart   *)
(* by their name, so that one lemma serves them both.                        *)

\* Every nonempty set of numbers has a least element.
LEMMA LeastNat ==
    ASSUME NEW S, S \subseteq Nat, S # {}
    PROVE  \E l \in S : \A k \in S : l <= k
<1>1. PICK l \in S : \A k \in S : ~(<<k, l>> \in OpToRel(<, Nat))
  BY NatLessThanWellFounded, WFMin
<1>2. \A k \in S : ~(k < l)
  BY <1>1 DEF OpToRel
<1> QED BY <1>2

LEMMA MaxIn ==
    ASSUME NEW n \in Nat, NEW S, S \subseteq 0 .. n, S # {}
    PROVE  Max(S) \in S /\ \A k \in S : k <= Max(S)
<1> DEFINE T == {n - k : k \in S}
<1>0. \A k \in S : k \in Nat /\ n - k \in Nat /\ n - (n - k) = k
  <2>1. \A k \in 0 .. n : k \in Nat /\ n - k \in Nat /\ n - (n - k) = k
    OBVIOUS
  <2> QED BY <2>1
<1>1. T \subseteq Nat /\ T # {}
  BY <1>0
<1>2. PICK l \in T : \A k \in T : l <= k
  BY <1>1, LeastNat
<1>3. n - l \in S /\ \A k \in S : n - l >= k
  <2>1. n - l \in S /\ l \in Nat
    BY <1>0
  <2>2. ASSUME NEW k \in S PROVE n - l >= k
    <3>1. n - k \in T
      OBVIOUS
    <3>2. l <= n - k
      BY <1>2, <3>1
    <3> QED BY <1>0, <2>1, <3>2
  <2> QED BY <2>1, <2>2
<1> QED BY <1>3 DEF Max

LEMMA MinIn ==
    ASSUME NEW S, S \subseteq Nat, S # {}
    PROVE  Min(S) \in S /\ \A k \in S : Min(S) <= k
  BY LeastNat DEF Min

\* The steps of AfterParts and Finalized.
TakePart(acc, part) ==
    CASE acc.error # "none" -> acc
      [] acc.error = "none" /\ part = Failed -> [acc EXCEPT !.error = "LoadFailed"]
      [] acc.error = "none" /\ part # Failed /\ part \notin acc.loading -> acc
      [] OTHER -> [acc EXCEPT !.slices = ProcessPart(@, part), !.loading = @ \ {part}]

PutEntry(number, acc) ==
    LET changed == IF number = 0 THEN acc.slices.header.changed
                                 ELSE acc.slices.data[number - 1].changed
    IN  IF changed THEN Serialized(acc.slices, acc.cache, number) ELSE acc

Each(kind, r, n, acc) == IF kind = "part" THEN TakePart(acc, r[n]) ELSE PutEntry(n, acc)

Folded(S, f, b, kind, r) ==
    f = [x \in SUBSET S |-> IF x = {} THEN b ELSE Each(kind, r, Max(x), f[x \ {Max(x)}])]

LEMMA FoldedExists ==
    ASSUME NEW m \in Nat, NEW S, S \subseteq 0 .. m, NEW b, NEW kind, NEW r
    PROVE  \E f : Folded(S, f, b, kind, r)
<1> DEFINE Small(n) == {x \in SUBSET S : Cardinality(x) <= n}
           Step(x, f) == IF x = {} THEN b ELSE Each(kind, r, Max(x), f[x \ {Max(x)}])
           G(n, f) == [x \in Small(n) |-> Step(x, f)]
           None == {n \in Nat : ~ \E f : f = G(n, f)}
<1>0. IsFiniteSet(S)
  <2>1. 0 \in Int /\ m \in Int
    OBVIOUS
  <2> QED BY <2>1, FS_Interval, FS_Subset
<1>1. ASSUME NEW x \in SUBSET S PROVE IsFiniteSet(x) /\ Cardinality(x) \in Nat
  BY <1>0, FS_Subset, FS_CardinalityType
<1>2. ASSUME NEW x \in SUBSET S, x # {}
      PROVE  /\ Max(x) \in x /\ x \ {Max(x)} \in SUBSET S
             /\ Cardinality(x \ {Max(x)}) = Cardinality(x) - 1
  <2>1. Max(x) \in x
    <3>1. x \subseteq 0 .. m
      OBVIOUS
    <3> QED BY <1>2, <3>1, MaxIn
  <2> QED BY <1>1, <2>1, FS_RemoveElement
<1>3. 0 \notin None
  <2> DEFINE f == [x \in Small(0) |-> b]
  <2>1. ASSUME NEW x \in Small(0) PROVE x = {}
    BY <1>1, <1>2, FS_EmptySet
  <2>2. ASSUME NEW x \in Small(0) PROVE f[x] = Step(x, f)
    BY <2>1
  <2>3. f = G(0, f)
    <3> HIDE DEF Step, Small
    <3> QED BY <2>2
  <2> QED BY <2>3
<1>4. ASSUME NEW n \in Nat, n \notin None PROVE n + 1 \notin None
  <2>1. PICK f : f = G(n, f)
    BY <1>4
  <2> DEFINE g == [x \in Small(n + 1) |-> Step(x, f)]
  <2>2. ASSUME NEW x \in Small(n + 1), x # {} PROVE x \ {Max(x)} \in Small(n)
    <3>1. x \in SUBSET S /\ Cardinality(x) <= n + 1
      OBVIOUS
    <3>2. x \ {Max(x)} \in SUBSET S /\ Cardinality(x \ {Max(x)}) = Cardinality(x) - 1
      BY <1>2, <2>2, <3>1
    <3> QED BY <1>1, <3>1, <3>2
  <2>3. ASSUME NEW y \in Small(n) PROVE f[y] = Step(y, f) /\ y \in Small(n + 1)
    <3>1. y \in Small(n + 1)
      BY <1>1
    <3> HIDE DEF Step, Small
    <3> QED BY <2>1, <3>1
  <2>4. ASSUME NEW y \in Small(n) PROVE g[y] = f[y]
    <3> HIDE DEF Step, Small
    <3> QED BY <2>3
  <2>5. ASSUME NEW x \in Small(n + 1) PROVE Step(x, f) = Step(x, g)
    <3>1. CASE x = {}
      BY <3>1
    <3>2. CASE x # {}
      <4>1. f[x \ {Max(x)}] = g[x \ {Max(x)}]
        BY <2>2, <2>4, <3>2
      <4> HIDE DEF g
      <4> QED BY <4>1
    <3> QED BY <3>1, <3>2
  <2>6. g = G(n + 1, g)
    <3> HIDE DEF Step, Small
    <3> QED BY <2>5
  <2> QED BY <2>6
<1>5. None = {}
  <2>1. SUFFICES ASSUME None # {} PROVE FALSE
    OBVIOUS
  <2>2. None \subseteq Nat
    OBVIOUS
  <2> HIDE DEF None
  <2>3. PICK l \in None : \A k \in None : l <= k
    BY <2>1, <2>2, LeastNat
  <2>4. l \in Nat /\ l # 0
    BY <1>3, <2>2, <2>3
  <2>5. l - 1 \in Nat /\ l - 1 \notin None /\ (l - 1) + 1 = l
    BY <2>3, <2>4
  <2> QED BY <1>4, <2>3, <2>5
<1>6. PICK f : f = G(Cardinality(S), f)
  <2>1. Cardinality(S) \in Nat
    BY <1>0, FS_CardinalityType
  <2> QED BY <1>5, <2>1
<1>7. Small(Cardinality(S)) = SUBSET S
  BY <1>0, FS_Subset
<1>8. Folded(S, f, b, kind, r)
  <2> HIDE DEF Small
  <2> QED BY <1>6, <1>7 DEF Folded
<1> QED BY <1>8

Fold(S, b, kind, r) == CHOOSE f : Folded(S, f, b, kind, r)

\* What holds first and is kept by every step holds at the end.
LEMMA FoldIs ==
    ASSUME NEW lo \in {0, 1}, NEW hi \in Nat, NEW b, NEW kind, NEW r,
           NEW f, f = Fold(lo .. hi, b, kind, r)
    PROVE  /\ f[lo .. lo - 1] = b
           /\ \A n \in lo .. hi : f[lo .. n] = Each(kind, r, n, f[lo .. n - 1])
<1>1. lo .. hi \subseteq 0 .. hi
  OBVIOUS
<1>2. Folded(lo .. hi, f, b, kind, r)
  BY <1>1, FoldedExists DEF Fold
<1>3. f[{}] = b /\ \A x \in SUBSET (lo .. hi) : x # {} =>
                      f[x] = Each(kind, r, Max(x), f[x \ {Max(x)}])
  BY <1>2 DEF Folded
<1>4. lo .. lo - 1 = {}
  OBVIOUS
<1>5. ASSUME NEW n \in lo .. hi PROVE f[lo .. n] = Each(kind, r, n, f[lo .. n - 1])
  <2>1. lo .. n \subseteq lo .. hi /\ n \in lo .. n /\ lo .. n # {} /\ lo .. n \subseteq 0 .. hi
    BY SMTT(20)
  <2>2. Max(lo .. n) \in lo .. n /\ \A k \in lo .. n : k <= Max(lo .. n)
    BY <2>1, MaxIn
  <2>3. Max(lo .. n) = n
    BY <2>1, <2>2
  <2>4. (lo .. n) \ {n} = lo .. n - 1
    OBVIOUS
  <2> QED BY ZenonT(40), <1>3, <2>1, <2>3, <2>4
<1> QED BY <1>3, <1>4, <1>5

LEMMA ByNumber ==
    ASSUME NEW lo \in {0, 1}, NEW hi \in Nat, NEW P, lo - 1 \in P,
           \A n \in lo .. hi : n - 1 \in P => n \in P
    PROVE  hi \in P
<1> DEFINE Bad == {n \in Nat : n \in lo .. hi /\ n \notin P}
<1>1. Bad = {}
  <2>1. SUFFICES ASSUME Bad # {} PROVE FALSE
    OBVIOUS
  <2>2. PICK n \in Bad : \A k \in Bad : n <= k
    BY <2>1, LeastNat
  <2>3. n - 1 \notin Bad /\ n \in lo .. hi /\ n \notin P
    BY <2>2
  <2>4. n - 1 \in P
    <3>1. CASE n = lo
      BY <3>1
    <3>2. CASE n # lo
      BY <2>3, <3>2
    <3> QED BY <3>1, <3>2
  <2> QED BY <2>3, <2>4
<1>2. hi \in lo .. hi \/ hi = lo - 1
  OBVIOUS
<1> QED BY <1>1, <1>2

\* b is where the first n of the parts that came take s.
Took(s, db, b, n) ==
    /\ b = [slices |-> b.slices, loading |-> b.loading, error |-> b.error]
    /\ b.loading \subseteq loading /\ MemoryOK(b.slices, db, b.loading)
    /\ s.header.parts # {} => b.slices.header.parts # {}
    /\ \A m \in 0 .. Slices : Wanted(s, m) => Wanted(b.slices, m)
    /\ error # "none" => b.error # "none"
    /\ b.error = "none" => \A k \in 1 .. n : loadedParts[k] # Failed /\ loadedParts[k] \notin b.loading

LEMMA TakePartOK ==
    ASSUME NEW s, NEW db, NEW b, NEW n \in 1 .. Len(loadedParts), Took(s, db, b, n - 1),
           loadedParts \in Seq(Parts \union {Failed}),
           NEW d, d = TakePart(b, loadedParts[n])
    PROVE  Took(s, db, d, n)
<1> DEFINE part == loadedParts[n]
<1>0. \A k \in 1 .. n : k = n \/ k \in 1 .. n - 1
  OBVIOUS
<1>1. CASE b.error # "none"
  <2>1. d = b
    BY <1>1 DEF TakePart
  <2> QED BY <1>1, <2>1 DEF Took
<1>2. CASE b.error = "none" /\ part = Failed
  <2>1. d = [b EXCEPT !.error = "LoadFailed"]
    BY <1>2 DEF TakePart
  <2>2. d.slices = b.slices /\ d.loading = b.loading /\ d.error = "LoadFailed"
        /\ d = [slices |-> d.slices, loading |-> d.loading, error |-> d.error]
    BY <2>1 DEF Took
  <2> QED BY <2>2 DEF Took
<1>3. CASE b.error = "none" /\ part # Failed /\ part \notin b.loading
  <2>1. d = b
    BY <1>3 DEF TakePart
  <2> QED BY <1>0, <1>3, <2>1 DEF Took
<1>4. CASE b.error = "none" /\ part # Failed /\ part \in b.loading
  <2>1. d = [b EXCEPT !.slices = ProcessPart(@, part), !.loading = @ \ {part}]
    BY <1>4 DEF TakePart
  <2>2. d.slices = ProcessPart(b.slices, part) /\ d.loading = b.loading \ {part}
        /\ d.error = b.error
        /\ d = [slices |-> d.slices, loading |-> d.loading, error |-> d.error]
    BY <2>1 DEF Took
  <2>3. /\ MemoryOK(d.slices, db, d.loading)
        /\ b.slices.header.parts # {} => d.slices.header.parts # {}
        /\ \A m \in 0 .. Slices : Wanted(b.slices, m) => Wanted(d.slices, m)
    BY <1>4, <2>2, PartOK DEF Took
  <2> HIDE DEF part
  <2>4. d.error = "none" => \A k \in 1 .. n : loadedParts[k] # Failed /\ loadedParts[k] \notin d.loading
    BY <1>0, <1>4, <2>2 DEF Took, part
  <2> QED BY <2>2, <2>3, <2>4 DEF Took
<1> QED BY <1>1, <1>2, <1>3, <1>4

LEMMA AfterPartsOK ==
    ASSUME NEW s, NEW db, MemoryOK(s, db, loading),
           loadedParts \in Seq(Parts \union {Failed}),
           NEW d, d = AfterParts(s)
    PROVE  Took(s, db, d, Len(loadedParts))
<1> DEFINE b == [slices |-> s, loading |-> loading, error |-> error]
           S == DOMAIN loadedParts
           f == Fold(S, b, "part", loadedParts)
           n == Len(loadedParts)
           g == CHOOSE g : g = [x \in SUBSET S |->
                                 IF x = {} THEN b
                                 ELSE TakePart(g[x \ {Max(x)}], loadedParts[Max(x)])]
<1>1. d = f[S]
  <2>1. d = g[S]
    BY DEF AfterParts, FoldLeft, MapThenFoldSet, TakePart
  <2>2. f = g
    BY DEF Fold, Folded, Each
  <2> QED BY <2>1, <2>2
<1>2. n \in Nat /\ S = 1 .. n
  OBVIOUS
<1>3. f = Fold(1 .. n, b, "part", loadedParts) /\ d = f[1 .. n]
  BY <1>1, <1>2
<1> HIDE DEF f, S
<1>4. /\ f[1 .. 0] = b
      /\ \A k \in 1 .. n : f[1 .. k] = TakePart(f[1 .. k - 1], loadedParts[k])
  BY <1>2, <1>3, FoldIs DEF Each
<1> DEFINE P == {k \in 0 .. n : Took(s, db, f[1 .. k], k)}
<1>5. 0 \in P
  BY <1>2, <1>4 DEF Took
<1>6. \A k \in 1 .. n : k - 1 \in P => k \in P
  <2> SUFFICES ASSUME NEW k \in 1 .. n, Took(s, db, f[1 .. k - 1], k - 1)
               PROVE  Took(s, db, f[1 .. k], k)
    BY <1>2
  <2> QED BY <1>4, TakePartOK
<1> HIDE DEF P, n
<1>7. n \in P
  BY <1>2, <1>5, <1>6, ByNumber
<1> QED BY <1>3, <1>7 DEF P, n

-----------------------------------------------------------------------------
(* The steps of the streaming thread.                                        *)

\* Nobody is about to bring or to take anything.
SameCalls == UNCHANGED <<posted, requested>>

LEMMA SameComing ==
    ASSUME NEW p, Coming(p), SameCalls,
           p \in ToSet(loadedParts) => p \in ToSet(loadedParts'),
           Failed \in ToSet(loadedParts) => Failed \in ToSet(loadedParts')
    PROVE  Coming(p)'
  BY DEF Coming, SameCalls, LastCall, Uncalled

LEMMA ReceiveOK ==
    ASSUME IInv, pc \in {"receive", "again"}, Receive, SameCalls,
           UNCHANGED <<read, reading, cache, active, mainPc, stopAsync, file>>,
           pc' \in {"acquire", "try", "failed"}
    PROVE  IInv'
<1> DEFINE s == IF error = "none" THEN AfterResults ELSE slices
           after == AfterParts(s)
<1>1. /\ MemoryOK(slices, cache, loading) /\ ReadingOK(slices, cache, reading, DOMAIN results)
      /\ ResultsOK(slices, cache, results) /\ ThreadsOK
      /\ error = "none" => \A p \in loading : Coming(p)
      /\ file = "destroyed" => LeftInOrder(cache)
  BY DEF IInv
<1>2. /\ slices' = after.slices /\ loading' = after.loading /\ error' = after.error
      /\ results' = <<>> /\ loadedParts' = IF error = "none" THEN <<>> ELSE loadedParts
  BY DEF Receive
<1>3. /\ MemoryOK(s, cache, loading)
      /\ slices.header.parts # {} => s.header.parts # {}
      /\ \A n \in 0 .. Slices : Wanted(slices, n) /\ n \notin DOMAIN results => Wanted(s, n)
  BY <1>1, AfterResultsOK
<1> HIDE DEF s
<1>4. loadedParts \in Seq(Parts \union {Failed}) /\ posted \in Seq(CallType)
  BY <1>1 DEF ThreadsOK
<1>5. Took(s, cache, after, Len(loadedParts))
  BY <1>3, <1>4, AfterPartsOK
<1> HIDE DEF after
<1>6. MemoryOK(slices', cache', loading') /\ loading' \subseteq loading
  BY <1>2, <1>5 DEF Took
<1>7. \A n \in 0 .. Slices : Wanted(slices, n) /\ n \notin DOMAIN results => Wanted(slices', n)
  BY <1>2, <1>3, <1>5 DEF Took
<1>8. DOMAIN results' = {}
  BY <1>2
<1>9. ReadingOK(slices', cache', reading', DOMAIN results')
  BY <1>1, <1>7, <1>8 DEF ReadingOK
<1>10. ResultsOK(slices', cache', results')
  BY <1>8 DEF ResultsOK
<1>11. slices.header.parts # {} => slices'.header.parts # {}
  BY <1>2, <1>3, <1>5 DEF Took
<1>12. ThreadsOK'
  <2>1. loadedParts' \in Seq(Parts \union {Failed})
    BY <1>2, <1>4
  <2>2. read # {} /\ active /\ ~stopAsync
    BY <1>1 DEF ThreadsOK
  <2> QED BY <1>1, <2>1, <2>2 DEF ThreadsOK, SameCalls
<1>13. ASSUME error' = "none", NEW p \in loading' PROVE Coming(p)'
  <2>1. error = "none" /\ p \in loading
    BY <1>2, <1>5, <1>6, <1>13 DEF Took
  <2>2. \A k \in 1 .. Len(loadedParts) : loadedParts[k] # Failed /\ loadedParts[k] # p
    BY <1>2, <1>5, <1>13 DEF Took
  <2>3. p \notin ToSet(loadedParts) /\ Failed \notin ToSet(loadedParts)
    BY <1>4, <2>2 DEF ToSet
  <2> QED BY <1>1, <2>1, <2>3, SameComing
<1> QED BY <1>1, <1>6, <1>9, <1>10, <1>12, <1>13 DEF IInv

LEMMA ReceiveStepOK ==
    ASSUME IInv, ReceiveFirst \/ ReceiveAgain
    PROVE  IInv'
<1>1. pc \in {"receive", "again"} /\ Receive /\ pc' \in {"acquire", "try", "failed"}
  BY DEF ReceiveFirst, ReceiveAgain
<1>2. SameCalls /\ UNCHANGED <<read, reading, cache, active, mainPc, stopAsync, file>>
  BY DEF ReceiveFirst, ReceiveAgain, SameCalls, cacheSide
<1> QED BY <1>1, <1>2, ReceiveOK

\* What changes neither the memory nor what comes to it.
LEMMA SameMemoryOK ==
    ASSUME IInv, UNCHANGED <<slices, loading, error, reading, results, cache, file>>, SameCalls,
           \A p : p \in ToSet(loadedParts) => p \in ToSet(loadedParts'), ThreadsOK'
    PROVE  IInv'
<1>1. error = "none" => \A p \in loading' : Coming(p)'
  BY SameComing DEF IInv
<1> QED BY <1>1 DEF IInv

LEMMA WaitStepsOK ==
    ASSUME IInv, StartWaiting \/ ClearWaiting \/ Acquire \/ CacheLoadsWaiting \/ CacheReleases
                 \/ HandlerLoadsWaiting \/ HandlerReleases \/ Interrupt
    PROVE  IInv'
<1>1. /\ UNCHANGED <<slices, loading, error, reading, results, cache, loadedParts, active>>
      /\ SameCalls
  BY DEF StartWaiting, ClearWaiting, Acquire, CacheLoadsWaiting, CacheReleases,
         HandlerLoadsWaiting, HandlerReleases, Interrupt, streaming, shared, cacheSide, mainSide,
         SameCalls
<1>2. ThreadsOK
  BY DEF IInv
<1>3. CASE StartWaiting \/ ClearWaiting \/ CacheLoadsWaiting \/ CacheReleases
           \/ HandlerLoadsWaiting \/ HandlerReleases
  <2>1. UNCHANGED <<file, stopAsync, read>> /\ (mainPc' = "join" => mainPc = "join")
    BY <1>3 DEF StartWaiting, ClearWaiting, CacheLoadsWaiting, CacheReleases,
         HandlerLoadsWaiting, HandlerReleases, streaming, shared, cacheSide, mainSide
  <2>2. \/ pc' = pc
        \/ pc = "wait" /\ pc' = "again"
        \/ pc = "clear" /\ pc' = "idle"
        \/ pc = "failed" /\ pc' = "acquire"
    BY <1>3 DEF StartWaiting, ClearWaiting, CacheLoadsWaiting, CacheReleases,
         HandlerLoadsWaiting, HandlerReleases, streaming
  <2>3. ThreadsOK'
    BY <1>1, <1>2, <2>1, <2>2 DEF ThreadsOK, SameCalls
  <2> QED BY <1>1, <2>1, <2>3, SameMemoryOK
<1>4. CASE Acquire
  <2>1. UNCHANGED <<file, mainPc>> /\ pc = "acquire"
        /\ \/ pc' = "ended" /\ read' = {}
           \/ pc' = "receive" /\ read' = read /\ (stopAsync' => stopAsync)
    BY <1>4 DEF Acquire
  <2>2. ThreadsOK'
    BY <1>1, <1>2, <2>1 DEF ThreadsOK, SameCalls
  <2> QED BY <1>1, <2>1, <2>2, SameMemoryOK
<1>5. CASE Interrupt
  <2>1. UNCHANGED <<pc, read, stopAsync>> /\ file = "playing" /\ file' = "interrupted"
        /\ mainPc' = "join"
    BY <1>5 DEF Interrupt, streaming
  <2>2. ThreadsOK'
    BY <1>1, <1>2, <2>1 DEF ThreadsOK, SameCalls
  <2>3. error = "none" => \A p \in loading' : Coming(p)'
    BY <1>1, SameComing DEF IInv
  <2> QED BY <1>1, <2>1, <2>2, <2>3 DEF IInv
<1> QED BY <1>3, <1>4, <1>5

LEMMA ReadStepsOK ==
    ASSUME IInv, (\E r \in Reads : Read(r)) \/ Finish
    PROVE  IInv'
<1>1. /\ UNCHANGED <<slices, loading, error, reading, results, cache, loadedParts, active, file, mainPc>>
      /\ SameCalls
  BY DEF Read, Finish, streaming, shared, cacheSide, mainSide, SameCalls
<1>2. ThreadsOK
  BY DEF IInv
<1>3. \/ pc = "idle" /\ pc' = "receive" /\ read' \in Reads /\ read' # {} /\ stopAsync' = stopAsync
      \/ pc' = "ended" /\ read' = {}
  BY StreamingAssumption DEF Read, Finish, mainSide
<1>4. ThreadsOK'
  BY <1>1, <1>2, <1>3 DEF ThreadsOK, SameCalls
<1> QED BY <1>1, <1>4, SameMemoryOK

LEMMA HeaderReadOK ==
    ASSUME IInv, HeaderRead
    PROVE  IInv'
<1>1. /\ slices' = HeaderDone(slices, FALSE) /\ pc = "idle" /\ read # {} /\ SameCalls
      /\ UNCHANGED <<loading, error, pc, read, reading, results, cache, loadedParts, active,
                     stopAsync, file, mainPc>>
  BY DEF HeaderRead, shared, cacheSide, mainSide, SameCalls
<1>2. /\ MemoryOK(slices, cache, loading) /\ ReadingOK(slices, cache, reading, DOMAIN results)
      /\ ResultsOK(slices, cache, results) /\ ThreadsOK
  BY DEF IInv
<1>3. slices.header.parts # {}
  BY <1>1, <1>2 DEF ThreadsOK
<1>4. /\ MemoryOK(slices', cache', loading') /\ slices'.header = slices.header
      /\ \A n : Wanted(slices, n) /\ n \in 0 .. Slices => Wanted(slices', n)
  BY <1>1, <1>2, <1>3, HeaderDoneOK
<1>5. ReadingOK(slices', cache', reading', DOMAIN results')
  BY <1>1, <1>2, <1>4 DEF ReadingOK
<1>6. ResultsOK(slices', cache', results')
  BY <1>1, <1>2, <1>4 DEF ResultsOK
<1>7. ThreadsOK'
  BY <1>1, <1>2, <1>4 DEF ThreadsOK, SameCalls
<1>8. error = "none" => \A p \in loading' : Coming(p)'
  BY <1>1, SameComing DEF IInv
<1> QED BY <1>1, <1>4, <1>5, <1>6, <1>7, <1>8 DEF IInv

-----------------------------------------------------------------------------
(* The steps of the main thread.                                             *)

LEMMA StopStepsOK ==
    ASSUME IInv, Stop \/ StopAsync
    PROVE  IInv'
<1>1. /\ UNCHANGED <<slices, error, pc, read, reading, results, cache, loadedParts>>
      /\ SameCalls /\ loading' = {} /\ active' = FALSE /\ stopAsync' = FALSE
      /\ mainPc' = "idle"
      /\ file' \in {file, "stopped"}
  BY DEF Stop, StopAsync, StopStreaming, StopWaiting, cacheSide, SameCalls
<1>2. ThreadsOK /\ MemoryOK(slices, cache, loading)
  BY DEF IInv
<1>3. pc = "ended"
  BY <1>2 DEF Stop, StopAsync, ThreadsOK
<1>4. MemoryOK(slices', cache', loading')
  BY <1>1, <1>2, FewerLacking
<1>5. ThreadsOK'
  BY <1>1, <1>2, <1>3 DEF ThreadsOK, SameCalls
<1> QED BY <1>1, <1>4, <1>5 DEF IInv

LEMMA StartOK ==
    ASSUME IInv, Start
    PROVE  IInv'
<1>1. /\ UNCHANGED <<slices, loading, error, reading, results, cache, loadedParts>>
      /\ SameCalls /\ active' = TRUE /\ stopAsync' = FALSE /\ mainPc' = "idle"
      /\ file' = "playing" /\ pc' = "idle" /\ read' = {}
  BY DEF Start, StopWaiting, cacheSide, SameCalls
<1>2. ThreadsOK
  BY DEF IInv
<1>3. ThreadsOK'
  BY <1>1, <1>2 DEF ThreadsOK, SameCalls
<1>4. error = "none" => \A p \in loading' : Coming(p)'
  BY <1>1, SameComing DEF IInv
<1> QED BY <1>1, <1>3, <1>4 DEF IInv

LEMMA BroughtOK ==
    ASSUME IInv, \E part \in requested : PartArrives(part) \/ LoadFails(part)
    PROVE  IInv'
<1>1. PICK part \in requested : PartArrives(part) \/ LoadFails(part)
  OBVIOUS
<1> DEFINE b == IF PartArrives(part) THEN part ELSE Failed
<1>2. /\ UNCHANGED <<slices, loading, error, pc, read, reading, results, cache, posted, active,
                     stopAsync, file>>
      /\ requested' = requested \ {part} /\ mainPc' = "emplaced"
      /\ loadedParts' = IF active THEN Append(loadedParts, b) ELSE loadedParts
      /\ b \in {part, Failed}
  BY <1>1 DEF PartArrives, LoadFails, Brought, streaming, shared, cacheSide
<1> HIDE DEF b
<1>3. ThreadsOK
  BY DEF IInv
<1>4. loadedParts' \in Seq(Parts \union {Failed})
  BY <1>2, <1>3 DEF ThreadsOK
<1>5. ThreadsOK'
  BY <1>2, <1>3, <1>4 DEF ThreadsOK
<1>6. ASSUME error = "none", NEW p \in loading PROVE Coming(p)'
  <2>1. active
    BY <1>3, <1>6 DEF ThreadsOK
  <2>2. Coming(p)
    BY <1>6 DEF IInv
  <2>3. \A x : x \in ToSet(loadedParts') <=> x \in ToSet(loadedParts) \/ x = b
    BY <1>2, <1>3, <2>1 DEF ThreadsOK, ToSet
  <2>4. LastCall(p) => LastCall(p)'
    BY <1>2 DEF LastCall
  <2>5. Uncalled(p) => Uncalled(p)'
    BY <1>2 DEF Uncalled
  <2> QED BY <1>2, <2>2, <2>3, <2>4, <2>5 DEF Coming
<1>7. UNCHANGED <<slices, loading, error, reading, results, cache, file>>
  BY <1>2
<1> QED BY <1>5, <1>6, <1>7 DEF IInv

LEMMA LoaderCalledOK ==
    ASSUME IInv, LoaderCalled
    PROVE  IInv'
<1> DEFINE Naming(part) == {k \in DOMAIN posted : part \in posted[k].parts}
           asked == {part \in Parts : Naming(part) # {} /\ posted[Max(Naming(part))].op = "load"}
<1>1. /\ UNCHANGED <<slices, loading, error, pc, read, reading, results, cache, active,
                     stopAsync, file, mainPc, loadedParts>>
      /\ requested' = asked \union {part \in requested : Naming(part) = {}}
      /\ posted' = <<>>
  BY DEF LoaderCalled, streaming, shared, cacheSide
<1>2. ThreadsOK /\ posted \in Seq(CallType) /\ requested \subseteq Parts
  BY DEF IInv, ThreadsOK
<1>3. requested' \subseteq Parts /\ posted' \in Seq(CallType)
  BY <1>1, <1>2
<1>4. ThreadsOK'
  BY <1>1, <1>2, <1>3 DEF ThreadsOK
<1>5. ASSUME error = "none", NEW p \in loading PROVE Coming(p)'
  <2>1. Coming(p) /\ p \in Parts
    BY <1>5 DEF IInv, MemoryOK, HalfOK
  <2>2. CASE p \in ToSet(loadedParts) \/ Failed \in ToSet(loadedParts)
    BY <1>1, <2>2 DEF Coming
  <2>3. CASE LastCall(p) \/ (p \in requested /\ Uncalled(p))
    <3>1. p \in requested'
      <4>1. CASE LastCall(p)
        <5>1. PICK k \in DOMAIN posted : /\ p \in posted[k].parts /\ posted[k].op = "load"
                                         /\ \A j \in DOMAIN posted : p \in posted[j].parts => j <= k
          BY <4>1 DEF LastCall
        <5>2. DOMAIN posted = 1 .. Len(posted) /\ Len(posted) \in Nat
          BY <1>2
        <5>3. Naming(p) \subseteq 0 .. Len(posted) /\ k \in Naming(p)
          BY <5>1, <5>2
        <5>4. Max(Naming(p)) \in Naming(p) /\ \A j \in Naming(p) : j <= Max(Naming(p))
          BY <5>2, <5>3, MaxIn
        <5> DEFINE m == Max(Naming(p))
        <5>5. m \in Nat /\ k \in Nat /\ k <= m /\ m <= k
          BY <5>1, <5>2, <5>3, <5>4
        <5>6. m = k
          BY <5>5
        <5> QED BY <1>1, <2>1, <5>1, <5>3, <5>6
      <4>2. CASE p \in requested /\ Uncalled(p)
        BY <1>1, <4>2 DEF Uncalled
      <4> QED BY <2>3, <4>1, <4>2
    <3>2. Uncalled(p)'
      BY <1>1 DEF Uncalled
    <3> QED BY <3>1, <3>2 DEF Coming
  <2> QED BY <2>1, <2>2, <2>3 DEF Coming
<1>6. UNCHANGED <<slices, loading, error, reading, results, cache, file>>
  BY <1>1
<1> QED BY <1>4, <1>5, <1>6 DEF IInv

-----------------------------------------------------------------------------
(* A cache read is answered.                                                 *)

LEMMA NotBothWanted ==
    ASSUME NEW s, NEW db, NEW L, MemoryOK(s, db, L)
    PROVE  ~(Wanted(s, 0) /\ Wanted(s, 1))
  BY DEF MemoryOK, HalfOK, KnownOK, Wanted

LEMMA EntryIs ==
    ASSUME NEW db, NEW n \in 0 .. Slices
    PROVE  /\ n = 0 => /\ Entry(db, n)[0] = db.header
                       /\ DOMAIN Entry(db, n) = IF IsGoodHeader(db.header) THEN {0, 1} ELSE {0}
                       /\ IsGoodHeader(db.header) => Entry(db, n)[1] = db.first
           /\ n # 0 => DOMAIN Entry(db, n) = {n} /\ Entry(db, n)[n] = db.slice[n - 1]
<1>1. CASE n = 0 /\ IsGoodHeader(db.header)
  <2>1. Entry(db, n) = [k \in {0, 1} |-> IF k = 0 THEN db.header ELSE db.first]
    BY <1>1 DEF Entry
  <2> QED BY <1>1, <2>1
<1>2. CASE n = 0 /\ ~IsGoodHeader(db.header)
  <2>1. Entry(db, n) = [k \in {0} |-> db.header]
    BY <1>2 DEF Entry
  <2> QED BY <1>2, <2>1
<1>3. CASE n # 0
  <2>1. Entry(db, n) = [k \in {n} |-> db.slice[n - 1]]
    BY <1>3 DEF Entry
  <2> QED BY <1>3, <2>1
<1> QED BY <1>1, <1>2, <1>3

LEMMA CacheAnswersOK ==
    ASSUME IInv, \E r \in reading : CacheAnswers(r)
    PROVE  IInv'
<1>1. PICK r \in reading : CacheAnswers(r)
  OBVIOUS
<1> DEFINE n == r.number
<1>2. /\ UNCHANGED <<slices, loading, error, pc, read, cache, active,
                     stopAsync, file, mainPc, loadedParts>>
      /\ SameCalls /\ reading' = reading \ {r}
      /\ results' = [k \in DOMAIN r.found \union DOMAIN results |->
                        IF k \in DOMAIN results THEN results[k] ELSE r.found[k]]
  BY <1>1 DEF CacheAnswers, streaming, mainSide, SameCalls
<1>3. /\ MemoryOK(slices, cache, loading) /\ ReadingOK(slices, cache, reading, DOMAIN results)
      /\ ResultsOK(slices, cache, results) /\ ThreadsOK
  BY DEF IInv
<1>4. n \in 0 .. Slices /\ r.found = Entry(cache, n) /\ Wanted(slices, n) /\ n \notin DOMAIN results
  BY <1>3 DEF ReadingOK
<1>5. /\ n = 0 => /\ r.found[0] = cache.header
                  /\ DOMAIN r.found = IF IsGoodHeader(cache.header) THEN {0, 1} ELSE {0}
                  /\ IsGoodHeader(cache.header) => r.found[1] = cache.first
      /\ n # 0 => DOMAIN r.found = {n} /\ r.found[n] = cache.slice[n - 1]
  BY <1>4, EntryIs
<1>6. ~(Wanted(slices, 0) /\ Wanted(slices, 1))
  BY <1>3, NotBothWanted
<1> DEFINE D == DOMAIN results'
<1>7. D = DOMAIN r.found \union DOMAIN results
      /\ \A k \in D : results'[k] = IF k \in DOMAIN results THEN results[k] ELSE r.found[k]
  BY <1>2
<1> HIDE DEF D, n
<1>8. ReadingOK(slices, cache, reading \ {r}, D)
  <2> SUFFICES ASSUME NEW q \in reading, q # r PROVE q.number \notin D
    BY <1>3 DEF ReadingOK
  <2>1. q.number \notin DOMAIN results /\ q.number # n /\ Wanted(slices, q.number)
    BY <1>3 DEF ReadingOK, n
  <2> QED BY <1>4, <1>5, <1>6, <1>7, <2>1
<1>9. ASSUME NEW k \in D
      PROVE  /\ k \in 0 .. Slices
             /\ k = 0 => /\ Wanted(slices, 0) /\ results'[0] = cache.header
                         /\ IsGoodHeader(cache.header) => 1 \in D
             /\ k = 1 /\ 0 \in D => IsGoodHeader(cache.header) /\ results'[1] = cache.first
             /\ k # 0 /\ ~(k = 1 /\ 0 \in D) => Wanted(slices, k) /\ results'[k] = cache.slice[k - 1]
  <2>1. CASE k \in DOMAIN results
    <3>1. results'[k] = results[k] /\ (0 \in DOMAIN results => 0 \in D) /\ (1 \in DOMAIN results => 1 \in D)
      BY <1>7, <2>1
    <3>2. k = 1 /\ 0 \in D => 0 \in DOMAIN results
      <4> SUFFICES ASSUME k = 1, 0 \in D, 0 \notin DOMAIN results PROVE FALSE
        OBVIOUS
      <4>1. n = 0 /\ Wanted(slices, 0)
        BY <1>4, <1>5, <1>7, Constants
      <4>2. Wanted(slices, 1)
        BY <1>3, <2>1 DEF ResultsOK
      <4> QED BY <1>6, <4>1, <4>2
    <3> QED BY <1>3, <2>1, <3>1, <3>2 DEF ResultsOK
  <2>2. CASE k \notin DOMAIN results
    <3>1. results'[k] = r.found[k] /\ k \in DOMAIN r.found
      BY <1>7, <2>2
    <3>2. CASE n = 0
      <4>1. 0 \in D /\ k \in {0, 1} /\ (IsGoodHeader(cache.header) => 1 \in D)
            /\ (k = 1 => IsGoodHeader(cache.header))
        BY <1>5, <1>7, <3>1, <3>2
      <4> QED BY <1>4, <1>5, <3>1, <3>2, <4>1, Constants
    <3>3. CASE n # 0
      <4>1. k = n
        BY <1>5, <3>1, <3>3
      <4>2. k = 1 => 0 \notin D
        <5> SUFFICES ASSUME k = 1, 0 \in D PROVE FALSE
          OBVIOUS
        <5>1. 0 \in DOMAIN results
          BY <1>5, <1>7, <3>3
        <5>2. Wanted(slices, 0)
          BY <1>3, <5>1 DEF ResultsOK
        <5> QED BY <1>4, <1>6, <4>1, <5>2
      <4> QED BY <1>4, <1>5, <3>1, <3>3, <4>1, <4>2
    <3> QED BY <3>2, <3>3
  <2> QED BY <2>1, <2>2
<1>10. ResultsOK(slices, cache, results')
  BY <1>9 DEF ResultsOK, D
<1>11. ThreadsOK'
  BY <1>2, <1>3 DEF ThreadsOK, SameCalls
<1>12. error = "none" => \A p \in loading' : Coming(p)'
  BY <1>2, SameComing DEF IInv
<1>13. ReadingOK(slices', cache', reading', DOMAIN results')
  BY <1>2, <1>8 DEF D
<1>14. ResultsOK(slices', cache', results')
  BY <1>2, <1>10
<1> QED BY <1>2, <1>3, <1>11, <1>12, <1>13, <1>14 DEF IInv

-----------------------------------------------------------------------------
(* serializeAndUnloadSlice().                                                *)

\* Slice i is dropped from the memory.
Unloads(s, d, i) ==
    /\ d \in SlicesType /\ d.mode = s.mode /\ d.broken = s.broken
    /\ d.header.parts = s.header.parts /\ d.header.loaded = s.header.loaded
    /\ d.header.loading = s.header.loading /\ (d.header.changed => s.header.changed)
    /\ \A j \in Indices : j # i => d.data[j] = s.data[j]
    /\ d.data[i].parts = {} /\ ~d.data[i].loaded /\ ~d.data[i].loading /\ ~d.data[i].changed

\* What is written meanwhile is the entry of slice i, or the header's with it.
Writes(s, db, d, eb, i) ==
    /\ CacheOK(d, eb) /\ eb.header \subseteq s.header.parts
    /\ \A j \in Indices : j # i => Saved(d, eb, j) = Saved(s, db, j)
    /\ ~d.header.changed => eb.header = s.header.parts
    /\ s.mode = "Small" => eb.first = {}
    /\ s.mode = "Good" /\ d.header.changed => i # 0

UnloadsKeepsWanted(s, d) == \A n \in 0 .. Slices : Wanted(s, n) => Wanted(d, n)

LEMMA UnloadsOK ==
    ASSUME NEW s, NEW db, NEW L, MemoryOK(s, db, L), s.mode # "Unknown",
           NEW i \in Indices, s.data[i].loaded, NEW d, Unloads(s, d, i),
           NEW eb, Writes(s, db, d, eb, i), NEW K, K \subseteq L,
           \A p \in K : IndexOf(p) = i => Saved(d, eb, i) = Saved(s, db, i)
    PROVE  MemoryOK(d, eb, K) /\ UnloadsKeepsWanted(s, d)
<1>1. s \in SlicesType /\ ~s.broken /\ L \subseteq Parts /\ HeaderOK(s) /\ KnownOK(s, db)
      /\ Lacking(s, db, L) /\ \A j \in Indices : SliceOK(s, j)
  BY DEF MemoryOK, HalfOK
<1>2. /\ s.header.loaded /\ s.header.parts # {}
      /\ s.mode = "Good" <=> IsGoodHeader(s.header.parts)
      /\ \A j \in Indices : s.data[j].loaded => Saved(s, db, j) \subseteq s.data[j].parts
      /\ s.mode = "Good" /\ s.header.changed => s.data[0].loaded
  BY <1>1 DEF KnownOK
<1>0. /\ CacheOK(d, eb) /\ eb.header \subseteq s.header.parts
      /\ \A j \in Indices : j # i => Saved(d, eb, j) = Saved(s, db, j)
      /\ ~d.header.changed => eb.header = s.header.parts
      /\ s.mode = "Small" => eb.first = {}
      /\ s.mode = "Good" /\ d.header.changed => i # 0
  BY DEF Writes
<1>3. \A j \in Indices : SliceOK(d, j)
  BY <1>1 DEF Unloads, SliceOK
<1>4. HeaderOK(d) /\ UnknownOK(d, eb)
  BY <1>1, <1>2 DEF Unloads, HeaderOK, UnknownOK
<1>5. KnownOK(d, eb)
  <2>1. \A j \in Indices : d.data[j].loaded => Saved(d, eb, j) \subseteq d.data[j].parts
    BY <1>0, <1>2 DEF Unloads
  <2>2. s.mode = "Good" /\ d.header.changed => d.data[0].loaded
    BY <1>0, <1>2, Constants DEF Unloads
  <2> QED BY <1>0, <1>2, <2>1, <2>2 DEF Unloads, KnownOK
<1>6. Lacking(d, eb, K)
  <2> SUFFICES ASSUME NEW p \in K
               PROVE  /\ p \notin d.data[IndexOf(p)].parts
                      /\ p \notin Saved(d, eb, IndexOf(p))
    BY DEF Lacking
  <2>1. /\ IndexOf(p) \in Indices /\ p \notin s.data[IndexOf(p)].parts
        /\ p \notin Saved(s, db, IndexOf(p))
    BY <1>1, IndexIn DEF Lacking
  <2> QED BY <1>0, <2>1 DEF Unloads
<1>7. HalfOK(d, eb, K) /\ Apart(d)
  <2>1. Apart(s)
    BY DEF MemoryOK
  <2>2. Apart(d)
    <3>1. CASE i = 0
      BY <3>1 DEF Unloads, Apart
    <3>2. CASE i # 0
      BY <2>1, <3>2, Constants DEF Unloads, Apart
    <3> QED BY <3>1, <3>2
  <2> QED BY <1>0, <1>1, <1>2, <1>3, <1>4, <1>5, <1>6, <2>2 DEF Unloads, HalfOK
<1>8. UnloadsKeepsWanted(s, d)
  <2> SUFFICES ASSUME NEW n \in 0 .. Slices, Wanted(s, n) PROVE Wanted(d, n)
    BY DEF UnloadsKeepsWanted
  <2>1. ~s.data[i].loading
    BY <1>1 DEF SliceOK
  <2>2. n # 0 => n - 1 \in Indices
    BY Constants DEF Indices
  <2> QED BY <2>1, <2>2, <1>2, Constants DEF Unloads, Wanted
<1> QED BY <1>7, <1>8 DEF MemoryOK

LEMMA UnloadedIs ==
    ASSUME NEW slice \in SliceType
    PROVE  LET u == Unloaded(slice) IN
           u \in SliceType /\ u.parts = {} /\ ~u.loaded /\ ~u.loading /\ ~u.changed
  BY DEF Unloaded, NewSlice, SliceType

\* The entries only grow, and those that are read stay as they are.
Grows(db, eb) ==
    /\ db.header \subseteq eb.header /\ db.first \subseteq eb.first
    /\ \A i \in Indices : db.slice[i] \subseteq eb.slice[i]

Fresh(s, db, d, eb) ==
    \A n \in 0 .. Slices : Wanted(s, n) =>
        /\ Wanted(d, n)
        /\ n = 0 => eb.header = db.header /\ eb.first = db.first
        /\ n # 0 => eb.slice[n - 1] = db.slice[n - 1]

\* Nothing is saved that was neither saved nor in memory.
NothingNew(s, db, d, eb) ==
    \A i \in Indices : /\ d.data[i].parts \subseteq s.data[i].parts
                       /\ Saved(d, eb, i) \subseteq Saved(s, db, i) \union s.data[i].parts

Stored(s, db, d, eb) ==
    /\ d.mode = s.mode /\ d.header.parts = s.header.parts
    /\ d.header.loaded = s.header.loaded
    /\ Grows(db, eb) /\ Fresh(s, db, d, eb) /\ NothingNew(s, db, d, eb)

LEMMA FreshReading ==
    ASSUME NEW s, NEW db, NEW d, NEW eb, Fresh(s, db, d, eb), NEW R, NEW D,
           ReadingOK(s, db, R, D)
    PROVE  ReadingOK(d, eb, R, D)
<1> SUFFICES ASSUME NEW r \in R PROVE r.found = Entry(eb, r.number) /\ Wanted(d, r.number)
  BY DEF ReadingOK
<1>1. /\ r.number \in 0 .. Slices /\ r.found = Entry(db, r.number) /\ Wanted(s, r.number)
  BY DEF ReadingOK
<1>2. CASE r.number = 0
  BY <1>1, <1>2 DEF Fresh, Entry
<1>3. CASE r.number # 0
  <2>1. Entry(eb, r.number) = [k \in {r.number} |-> eb.slice[r.number - 1]]
        /\ Entry(db, r.number) = [k \in {r.number} |-> db.slice[r.number - 1]]
    BY <1>3 DEF Entry
  <2> QED BY <1>1, <1>3, <2>1 DEF Fresh
<1> QED BY <1>2, <1>3

LEMMA FreshResults ==
    ASSUME NEW s, NEW db, NEW d, NEW eb, Fresh(s, db, d, eb), NEW found,
           ResultsOK(s, db, found)
    PROVE  ResultsOK(d, eb, found)
<1>1. 0 \in 0 .. Slices
  BY Constants
<1>2. 0 \in DOMAIN found => Wanted(s, 0)
  BY DEF ResultsOK
<1>3. 0 \in DOMAIN found => Wanted(d, 0) /\ eb.header = db.header /\ eb.first = db.first
  BY <1>1, <1>2 DEF Fresh
<1>4. ASSUME NEW n \in DOMAIN found, n # 0, ~(n = 1 /\ 0 \in DOMAIN found)
      PROVE  Wanted(d, n) /\ found[n] = eb.slice[n - 1]
  BY <1>4 DEF ResultsOK, Fresh
<1> QED BY <1>3, <1>4 DEF ResultsOK

\* The parts still loaded when the loading for the slices in purged is cancelled.
Rest(L, purged) == {p \in L : IndexOf(p) \notin purged}

\* A slice that is in memory, and has changed or goes with the header, or a
\* header that has changed.
LEMMA SerializedOK ==
    ASSUME NEW s, NEW db, NEW L, MemoryOK(s, db, L), s.mode # "Unknown",
           NEW number \in 0 .. Slices, number = 0 => s.header.changed,
           number # 0 => /\ s.data[number - 1].loaded
                         /\ s.data[number - 1].changed \/ (s.mode = "Good" /\ number = 1),
           NEW d, d = Serialized(s, db, number)
    PROVE  /\ d = [slices |-> d.slices, cache |-> d.cache, purged |-> d.purged]
           /\ MemoryOK(d.slices, d.cache, Rest(L, d.purged))
           /\ Stored(s, db, d.slices, d.cache)
           /\ d.slices.header.changed => s.header.changed /\ number # 0
<1> DEFINE first == s.mode = "Good" /\ number \in {0, 1}
           K == Rest(L, d.purged)
<1>1. s \in SlicesType /\ ~s.broken /\ L \subseteq Parts /\ HeaderOK(s) /\ KnownOK(s, db)
      /\ Lacking(s, db, L) /\ CacheOK(s, db) /\ \A j \in Indices : SliceOK(s, j)
  BY DEF MemoryOK, HalfOK
<1>2. /\ s.header.loaded /\ s.header.parts # {} /\ db.header \subseteq s.header.parts
      /\ ~s.header.changed => db.header = s.header.parts
      /\ s.mode = "Small" => db.first = {}
      /\ \A j \in Indices : s.data[j].loaded => Saved(s, db, j) \subseteq s.data[j].parts
      /\ s.mode = "Good" /\ s.header.changed => s.data[0].loaded
      /\ s.mode \in {"Good", "Small"} /\ s.header \in SliceType
      /\ \A j \in Indices : s.data[j] \in SliceType
  BY <1>1 DEF KnownOK, SlicesType
<1>3. db \in CacheType /\ db.first \subseteq Within(0) /\ db.first \intersect s.header.parts = {}
      /\ db.first \intersect db.header = {} /\ \A j \in Indices : db.slice[j] \subseteq Within(j)
  BY <1>1 DEF CacheOK
<1>4. K \subseteq L
  BY DEF Rest
<1> HIDE DEF K
<1>5. CASE first
  <2> DEFINE e == [s EXCEPT !.data[0] = Unloaded(@), !.header.changed = FALSE]
             eb == [db EXCEPT !.header = s.header.parts, !.first = s.data[0].parts \ s.header.parts]
             fine == s.header.parts # {} /\ (first => s.data[0].loaded)
  <2>1. number - 1 = 0 \/ number = 0
    BY <1>5
  <2>2. s.data[0].loaded /\ s.data[0].parts \subseteq Within(0)
    BY <1>1, <1>2, <1>5, <2>1, Constants DEF SliceOK
  <2>3. d = [slices |-> Expects(e, fine), cache |-> eb, purged |-> {0}]
    BY <1>5 DEF Serialized
  <2>4. fine /\ fine \in BOOLEAN
    BY <1>2, <2>2
  <2>5. Unloads(s, e, 0) /\ e.header.changed = FALSE
    <3> DEFINE u == Unloaded(s.data[0])
               header == [s.header EXCEPT !.changed = FALSE]
               data == [s.data EXCEPT ![0] = u]
    <3>1. u \in SliceType /\ u.parts = {} /\ ~u.loaded /\ ~u.loading /\ ~u.changed
      BY <1>2, UnloadedIs, Constants
    <3>2. header \in SliceType /\ header.parts = s.header.parts /\ header.loaded = s.header.loaded
          /\ header.loading = s.header.loading /\ header.changed = FALSE
      BY <1>2 DEF SliceType
    <3>3. e = [s EXCEPT !.data = data, !.header = header]
      BY <1>1 DEF SlicesType
    <3> HIDE DEF u, header, e
    <3>4. data \in [Indices -> SliceType] /\ data[0] = u
          /\ \A j \in Indices : j # 0 => data[j] = s.data[j]
      BY <1>1, <3>1, Constants DEF SlicesType
    <3> HIDE DEF data
    <3>5. e \in SlicesType /\ e.data = data /\ e.header = header /\ e.mode = s.mode
          /\ e.broken = s.broken
      BY <1>1, <3>2, <3>3, <3>4 DEF SlicesType
    <3> QED BY <3>1, <3>2, <3>4, <3>5 DEF Unloads
  <2> HIDE DEF e, fine
  <2>6. e \in SlicesType /\ e.broken = s.broken
    BY <2>5 DEF Unloads
  <2>7. d.slices = e /\ d.cache = eb /\ d.purged = {0}
        /\ d = [slices |-> d.slices, cache |-> d.cache, purged |-> d.purged]
    <3>1. Expects(e, fine) = e
      BY <1>1, <2>4, <2>6, ExpectsHolds
    <3> QED BY <2>3, <3>1
  <2>8. eb \in CacheType /\ eb.header = s.header.parts /\ eb.slice = db.slice
        /\ eb.first = s.data[0].parts \ s.header.parts
    BY <1>2, <1>3, Constants DEF CacheType, SliceType
  <2> HIDE DEF eb
  <2>9. CacheOK(e, eb)
    BY <1>3, <2>2, <2>5, <2>8 DEF CacheOK, Unloads
  <2>10. \A j \in Indices : j # 0 => Saved(e, eb, j) = Saved(s, db, j)
    BY <2>5, <2>8 DEF Saved, Unloads
  <2>11. \A p \in K : IndexOf(p) # 0
    BY <2>7 DEF K, Rest
  <2>12. MemoryOK(e, eb, K) /\ UnloadsKeepsWanted(s, e)
    <3>1. Writes(s, db, e, eb, 0)
      BY <1>5, <2>5, <2>8, <2>9, <2>10 DEF Writes
    <3> QED BY <1>4, <2>2, <2>5, <2>11, <3>1, UnloadsOK, Constants
  <2>13. Grows(db, eb)
    <3>1. db.first \subseteq s.data[0].parts
      BY <1>2, <1>5, <2>2, Constants DEF Saved
    <3> QED BY <1>2, <1>3, <2>8, <3>1 DEF Grows
  <2>14. ~Wanted(s, 0)
    BY <1>1, <1>5, <2>2, Constants DEF Wanted, SliceOK
  <2>15. Fresh(s, db, e, eb)
    BY <2>8, <2>12, <2>14 DEF Fresh, UnloadsKeepsWanted
  <2>16. NothingNew(s, db, e, eb)
    <3>1. Saved(e, eb, 0) \subseteq Saved(s, db, 0) \union s.data[0].parts
      BY <1>5, <2>5, <2>8 DEF Saved, Unloads
    <3> QED BY <2>5, <2>10, <3>1 DEF NothingNew, Unloads
  <2> QED BY <2>5, <2>7, <2>12, <2>13, <2>15, <2>16 DEF Stored, Unloads, K
<1>6. CASE ~first /\ number = 0
  <2> DEFINE e == [s EXCEPT !.header.changed = FALSE]
             eb == [db EXCEPT !.header = s.header.parts, !.first = {}]
             fine == s.header.parts # {} /\ (first => s.data[0].loaded)
             header == [s.header EXCEPT !.changed = FALSE]
  <2>1. d = [slices |-> Expects(e, fine), cache |-> eb, purged |-> {number - 1}]
    BY <1>6 DEF Serialized
  <2>2. fine /\ fine \in BOOLEAN
    BY <1>2, <1>6
  <2>3. header \in SliceType /\ header.parts = s.header.parts /\ header.loaded = s.header.loaded
        /\ header.loading = s.header.loading /\ header.changed = FALSE
    BY <1>2 DEF SliceType
  <2>4. e = [s EXCEPT !.header = header]
    OBVIOUS
  <2> HIDE DEF header, e
  <2>5. e \in SlicesType /\ e.header = header /\ e.data = s.data /\ e.mode = s.mode
        /\ e.broken = s.broken
    BY <1>1, <2>3, <2>4 DEF SlicesType
  <2> HIDE DEF fine
  <2>6. d.slices = e /\ d.cache = eb
        /\ d = [slices |-> d.slices, cache |-> d.cache, purged |-> d.purged]
    <3>1. Expects(e, fine) = e
      BY <1>1, <2>2, <2>5, ExpectsHolds
    <3> QED BY <2>1, <3>1
  <2>7. eb \in CacheType /\ eb.header = s.header.parts /\ eb.slice = db.slice /\ eb.first = {}
    BY <1>2, <1>3 DEF CacheType, SliceType
  <2> HIDE DEF eb
  <2>8. s.mode = "Small" /\ db.first = {}
    BY <1>2, <1>6
  <2>9. \A j \in Indices : Saved(e, eb, j) = Saved(s, db, j)
    BY <2>5, <2>7, <2>8 DEF Saved
  <2>10. MemoryOK(s, db, K)
    BY <1>4, FewerLacking
  <2>11. CacheOK(e, eb)
    BY <1>3, <2>7 DEF CacheOK
  <2>12. (\A j \in Indices : SliceOK(e, j)) /\ HeaderOK(e) /\ UnknownOK(e, eb)
    BY <1>1, <1>2, <2>3, <2>5 DEF SliceOK, HeaderOK, UnknownOK
  <2>13. KnownOK(e, eb)
    BY <1>1, <1>2, <2>3, <2>5, <2>7, <2>8, <2>9 DEF KnownOK
  <2>14. Lacking(e, eb, K)
    BY <2>5, <2>9, <2>10, <1>1, <1>4, IndexIn DEF MemoryOK, HalfOK, Lacking
  <2>15. MemoryOK(e, eb, K)
    BY <1>1, <1>2, <1>4, <2>3, <2>5, <2>8, <2>11, <2>12, <2>13, <2>14 DEF MemoryOK, HalfOK, Apart
  <2>16. Grows(db, eb)
    BY <1>2, <2>7, <2>8 DEF Grows
  <2>17. Fresh(s, db, e, eb)
    <3>1. ~Wanted(s, 0)
      BY <1>2, <2>8 DEF Wanted
    <3>2. \A n : Wanted(s, n) /\ n # 0 => Wanted(e, n)
      BY <2>5 DEF Wanted
    <3> QED BY <2>7, <3>1, <3>2 DEF Fresh
  <2>18. NothingNew(s, db, e, eb)
    BY <2>5, <2>9 DEF NothingNew
  <2> QED BY <2>3, <2>5, <2>6, <2>15, <2>16, <2>17, <2>18 DEF Stored, K
<1>7. CASE ~first /\ number # 0
  <2> DEFINE i == number - 1
             e == [s EXCEPT !.data[i] = Unloaded(@)]
             eb == [db EXCEPT !.slice[i] = s.data[i].parts]
             fine == s.data[i].parts # {} /\ (first => s.data[0].loaded)
  <2>1. i \in Indices /\ s.data[i].loaded /\ s.data[i].changed
        /\ ~(s.mode = "Good" /\ i = 0)
    BY <1>7, Constants DEF Indices
  <2>2. d = [slices |-> Expects(e, fine), cache |-> eb, purged |-> {i}]
    BY <1>7 DEF Serialized
  <2>3. s.data[i].parts # {} /\ s.data[i].parts \subseteq Within(i)
    BY <1>1, <2>1 DEF SliceOK
  <2>4. fine /\ fine \in BOOLEAN
    BY <1>7, <2>3
  <2> HIDE DEF i
  <2>5. Unloads(s, e, i) /\ e.header = s.header
    <3> DEFINE u == Unloaded(s.data[i])
               data == [s.data EXCEPT ![i] = u]
    <3>1. u \in SliceType /\ u.parts = {} /\ ~u.loaded /\ ~u.loading /\ ~u.changed
      BY <1>2, <2>1, UnloadedIs
    <3>2. e = [s EXCEPT !.data = data]
      OBVIOUS
    <3> HIDE DEF u, e
    <3>3. data \in [Indices -> SliceType] /\ data[i] = u
          /\ \A j \in Indices : j # i => data[j] = s.data[j]
      BY <1>1, <2>1, <3>1 DEF SlicesType
    <3> HIDE DEF data
    <3>4. e \in SlicesType /\ e.data = data /\ e.header = s.header /\ e.mode = s.mode
          /\ e.broken = s.broken
      BY <1>1, <3>2, <3>3 DEF SlicesType
    <3> QED BY <3>1, <3>3, <3>4 DEF Unloads
  <2> HIDE DEF e, fine
  <2>6. e \in SlicesType /\ e.broken = s.broken
    BY <2>5 DEF Unloads
  <2>7. d.slices = e /\ d.cache = eb /\ d.purged = {i}
        /\ d = [slices |-> d.slices, cache |-> d.cache, purged |-> d.purged]
    <3>1. Expects(e, fine) = e
      BY <1>1, <2>4, <2>6, ExpectsHolds
    <3> QED BY <2>2, <3>1
  <2>8. s.data[i].parts \subseteq Parts
    BY <2>3, IndexIn
  <2>9. eb \in CacheType /\ eb.header = db.header /\ eb.first = db.first
        /\ eb.slice[i] = s.data[i].parts
        /\ \A j \in Indices : j # i => eb.slice[j] = db.slice[j]
    BY <1>3, <2>1, <2>8 DEF CacheType
  <2> HIDE DEF eb
  <2>10. CacheOK(e, eb)
    BY <1>3, <2>3, <2>5, <2>9 DEF CacheOK
  <2>11. \A j \in Indices : j # i => Saved(e, eb, j) = Saved(s, db, j)
    BY <2>5, <2>9 DEF Saved, Unloads
  <2>12. \A p \in K : IndexOf(p) # i
    BY <2>7 DEF K, Rest
  <2>13. s.mode = "Good" => i # 0
    BY <2>1
  <2>14. MemoryOK(e, eb, K) /\ UnloadsKeepsWanted(s, e)
    <3>1. eb.header \subseteq s.header.parts /\ (s.mode = "Small" => eb.first = {})
      BY <1>2, <2>9
    <3>2. ~e.header.changed => eb.header = s.header.parts
      BY <1>2, <2>5, <2>9
    <3>3. Writes(s, db, e, eb, i)
      BY <2>10, <2>11, <2>13, <3>1, <3>2 DEF Writes
    <3> QED BY <1>4, <2>1, <2>5, <2>12, <3>3, UnloadsOK
  <2>15. Grows(db, eb)
    <3>1. db.slice[i] \subseteq s.data[i].parts
      BY <1>2, <2>1 DEF Saved
    <3> QED BY <2>9, <3>1 DEF Grows
  <2>16. Fresh(s, db, e, eb)
    <3> SUFFICES ASSUME NEW n \in 0 .. Slices, Wanted(s, n), n # 0
                 PROVE  eb.slice[n - 1] = db.slice[n - 1]
      BY <2>9, <2>14 DEF Fresh, UnloadsKeepsWanted
    <3>1. n - 1 \in Indices /\ s.data[n - 1].loading
      BY Constants DEF Indices, Wanted
    <3>2. n - 1 # i
      BY <1>1, <2>1, <3>1 DEF SliceOK
    <3> QED BY <2>9, <3>1, <3>2
  <2>17. NothingNew(s, db, e, eb)
    <3>1. Saved(e, eb, i) \subseteq s.data[i].parts
      BY <2>1, <2>5, <2>9 DEF Saved, Unloads
    <3> QED BY <2>5, <2>11, <3>1 DEF NothingNew, Unloads
  <2> QED BY <1>7, <2>5, <2>7, <2>14, <2>15, <2>16, <2>17 DEF Stored, Unloads, K
<1> QED BY <1>5, <1>6, <1>7

-----------------------------------------------------------------------------
(* markSliceUsed() and serializeAndUnloadUnused().                           *)

LEMMA RemovedIsSeq ==
    ASSUME NEW q \in Seq(Indices), NEW e
    PROVE  RemoveFirst(q, e) \in Seq(Indices)
<1>1. CASE ~(\E k \in 1 .. Len(q) : q[k] = e)
  BY <1>1 DEF RemoveFirst
<1>2. CASE \E k \in 1 .. Len(q) : q[k] = e
  <2> DEFINE at == {k \in 1 .. Len(q) : q[k] = e}
             k == Min(at)
  <2>1. at # {} /\ at \subseteq Nat
    BY <1>2
  <2>2. RemoveFirst(q, e) = SubSeq(q, 1, k - 1) \o SubSeq(q, k + 1, Len(q))
    BY <1>2, <2>1 DEF RemoveFirst, RemoveAt, SelectInSeq
  <2>3. k \in 1 .. Len(q)
    BY <2>1, MinIn
  <2> HIDE DEF k
  <2>4. Len(q) \in Nat /\ k \in Nat /\ k > 0 /\ k <= Len(q)
    BY <2>3
  <2>5. SubSeq(q, 1, k - 1) \in Seq(Indices)
    BY <2>4
  <2>6. SubSeq(q, k + 1, Len(q)) \in Seq(Indices)
    BY <2>4
  <2> QED BY <2>2, <2>5, <2>6
<1> QED BY <1>1, <1>2

LEMMA UsedAlike ==
    ASSUME NEW s \in SlicesType, NEW used \in Seq(Indices),
           NEW d, d = [s EXCEPT !.used = used]
    PROVE  Alike(s, d) /\ d.used = used
<1>1. d \in SlicesType /\ d.header = s.header /\ d.mode = s.mode /\ d.broken = s.broken
      /\ d.data = s.data /\ d.used = used
  BY DEF SlicesType
<1> QED BY <1>1 DEF Alike

LEMMA MarkedAlike ==
    ASSUME NEW s \in SlicesType, NEW i \in Indices
    PROVE  Alike(s, MarkUsed(s, i)) /\ Len(MarkUsed(s, i).used) > 0
<1> DEFINE used == Append(RemoveFirst(s.used, i), i)
<1>1. RemoveFirst(s.used, i) \in Seq(Indices)
  BY RemovedIsSeq DEF SlicesType
<1>2. used \in Seq(Indices) /\ Len(used) > 0
  BY <1>1
<1>3. MarkUsed(s, i) = [s EXCEPT !.used = used]
  BY DEF MarkUsed
<1> HIDE DEF used
<1> QED BY <1>2, <1>3, UsedAlike

\* s and d are told apart by nothing that matters.
LEMMA AlikeTwice ==
    ASSUME NEW s, NEW d, NEW e, Alike(s, d), Alike(d, e)
    PROVE  Alike(s, e)
  BY DEF Alike

LEMMA AlikeStored ==
    ASSUME NEW s, NEW t, NEW db, Alike(s, t), NEW d, NEW eb, Stored(t, db, d, eb)
    PROVE  Stored(s, db, d, eb)
<1>1. \A n \in 0 .. Slices : Wanted(s, n) => Wanted(t, n)
  BY AlikeWanted
<1>2. NothingNew(s, db, d, eb)
  BY DEF Alike, Stored, NothingNew, Saved
<1> QED BY <1>1, <1>2 DEF Alike, Stored, Fresh

LEMMA UnloadUnusedOK ==
    ASSUME NEW s, NEW db, NEW L, MemoryOK(s, db, L), Len(s.used) > 0,
           NEW d, d = UnloadUnused(s, db)
    PROVE  /\ MemoryOK(d.slices, d.cache, Rest(L, d.purged))
           /\ Stored(s, db, d.slices, d.cache)
           /\ s.mode = "Unknown" => d.cache = db
<1> DEFINE purge == Head(s.used)
           popped == [s EXCEPT !.used = Tail(@)]
           K == Rest(L, d.purged)
           same == [slices |-> s, cache |-> db, purged |-> {}]
           unloaded == [popped EXCEPT !.data[purge] = Unloaded(@)]
<1>1. s \in SlicesType /\ \A i \in Indices : SliceOK(s, i)
  BY DEF MemoryOK, HalfOK
<1>2. K \subseteq L
  BY DEF Rest
<1>3. Grows(db, db)
  BY DEF Grows
<1>4. purge \in Indices /\ Tail(s.used) \in Seq(Indices)
  BY <1>1 DEF SlicesType
<1>5. Alike(s, popped) /\ popped.data = s.data /\ popped.header = s.header
  <2>1. Alike(s, popped)
    BY <1>1, <1>4, UsedAlike
  <2> QED BY <1>1, <2>1 DEF SlicesType
<1>6. d = IF s.mode = "Unknown" \/ Len(s.used) <= SlicesInMemory THEN same
          ELSE CASE ~s.data[purge].loaded -> [slices |-> popped, cache |-> db, purged |-> {}]
                 [] s.data[purge].loaded /\ NoNeedToSave(s, purge) ->
                       [slices |-> unloaded, cache |-> db, purged |-> {}]
                 [] OTHER -> Serialized(popped, db, purge + 1)
  BY DEF UnloadUnused
<1> HIDE DEF purge, popped, K, same
<1>7. CASE s.mode = "Unknown" \/ Len(s.used) <= SlicesInMemory
  <2>1. d.slices = s /\ d.cache = db
    BY <1>6, <1>7 DEF same
  <2>2. Stored(s, db, s, db)
    BY <1>3 DEF Stored, Fresh, NothingNew
  <2> QED BY <1>2, <2>1, <2>2, FewerLacking DEF K
<1>8. CASE ~(s.mode = "Unknown" \/ Len(s.used) <= SlicesInMemory)
  <2>1. MemoryOK(popped, db, L) /\ popped.mode = s.mode /\ popped.broken = s.broken
        /\ popped \in SlicesType
    BY <1>5, AlikeOK DEF Alike
  <2>2. CASE ~s.data[purge].loaded
    <3>1. d.slices = popped /\ d.cache = db
      BY <1>6, <1>8, <2>2
    <3>2. Stored(popped, db, popped, db)
      BY <1>3 DEF Stored, Fresh, NothingNew
    <3> QED BY <1>2, <1>5, <1>8, <2>1, <3>1, <3>2, FewerLacking, AlikeStored DEF K
  <2>3. CASE s.data[purge].loaded /\ NoNeedToSave(s, purge)
    <3>1. d.slices = unloaded /\ d.cache = db
      BY <1>6, <1>8, <2>3
    <3> HIDE DEF unloaded
    <3>2. Unloads(popped, unloaded, purge) /\ unloaded.header = s.header
      <4> DEFINE u == Unloaded(s.data[purge])
                 data == [s.data EXCEPT ![purge] = u]
      <4>1. u \in SliceType /\ u.parts = {} /\ ~u.loaded /\ ~u.loading /\ ~u.changed
        BY <1>1, <1>4, UnloadedIs DEF SlicesType
      <4>2. unloaded = [popped EXCEPT !.data = data]
        BY <1>5 DEF unloaded
      <4> HIDE DEF u
      <4>3. data \in [Indices -> SliceType] /\ data[purge] = u
            /\ \A j \in Indices : j # purge => data[j] = s.data[j]
        BY <1>1, <1>4, <4>1 DEF SlicesType
      <4> HIDE DEF data
      <4>4. unloaded \in SlicesType /\ unloaded.data = data /\ unloaded.header = s.header
            /\ unloaded.mode = popped.mode /\ unloaded.broken = popped.broken
        BY <1>5, <2>1, <4>2, <4>3 DEF SlicesType
      <4> QED BY <1>5, <4>1, <4>3, <4>4 DEF Unloads
    <3>3. Writes(popped, db, unloaded, db, purge)
      <4>1. CacheOK(popped, db) /\ KnownOK(popped, db)
        BY <2>1 DEF MemoryOK, HalfOK
      <4>2. \A j \in Indices : Saved(unloaded, db, j) = Saved(popped, db, j)
        BY <1>5, <3>2 DEF Saved, Unloads
      <4>3. s.mode = "Good" /\ s.header.changed => purge # 0
        BY <1>4, <2>3 DEF NoNeedToSave, Indices
      <4> QED BY <1>5, <1>8, <2>1, <3>2, <4>1, <4>2, <4>3 DEF Writes, CacheOK, KnownOK
    <3>4. Saved(unloaded, db, purge) = Saved(popped, db, purge)
      BY <1>5, <3>2 DEF Saved, Unloads
    <3>5. popped.mode # "Unknown" /\ popped.data[purge].loaded
      BY <1>5, <1>8, <2>1, <2>3
    <3>6. MemoryOK(unloaded, db, K) /\ UnloadsKeepsWanted(popped, unloaded)
      BY <1>2, <1>4, <2>1, <3>2, <3>3, <3>4, <3>5, UnloadsOK
    <3>7. Stored(popped, db, unloaded, db)
      <4>1. \A j \in Indices : Saved(unloaded, db, j) = Saved(popped, db, j)
        BY <1>5, <3>2 DEF Saved, Unloads
      <4>2. NothingNew(popped, db, unloaded, db)
        BY <3>2, <4>1 DEF NothingNew, Unloads
      <4> QED BY <1>3, <3>2, <3>6, <4>2 DEF Stored, Fresh, UnloadsKeepsWanted, Unloads
    <3> QED BY <1>5, <1>8, <3>1, <3>6, <3>7, AlikeStored DEF K
  <2>4. CASE s.data[purge].loaded /\ ~NoNeedToSave(s, purge)
    <3> DEFINE n == purge + 1
    <3>1. d = Serialized(popped, db, n)
      BY <1>6, <1>8, <2>4
    <3>2. n \in 0 .. Slices /\ n # 0 /\ n - 1 = purge /\ (purge = 0 => n = 1)
      BY <1>4, Constants DEF Indices
    <3> HIDE DEF n
    <3>3. s.data[purge].changed \/ (s.mode = "Good" /\ n = 1)
      <4>1. s.data[purge].changed \/ (s.mode = "Good" /\ ~(purge > 0))
        BY <2>4 DEF NoNeedToSave
      <4>2. ~(purge > 0) => purge = 0
        BY <1>4 DEF Indices
      <4> QED BY <3>2, <4>1, <4>2
    <3>4. popped.mode # "Unknown" /\ (n = 0 => popped.header.changed)
      BY <1>8, <2>1, <3>2
    <3>5. n # 0 => /\ popped.data[n - 1].loaded
                   /\ popped.data[n - 1].changed \/ (popped.mode = "Good" /\ n = 1)
      BY <1>5, <2>1, <2>4, <3>2, <3>3
    <3>6. /\ MemoryOK(d.slices, d.cache, Rest(L, d.purged))
          /\ Stored(popped, db, d.slices, d.cache)
      <4>1. MemoryOK(popped, db, L)
        BY <2>1
      <4>2. popped.mode # "Unknown"
        BY <3>4
      <4>3. n = 0 => popped.header.changed
        BY <3>4
      <4>4. n \in 0 .. Slices
        BY <3>2
      <4> QED BY <3>1, <3>5, <4>1, <4>2, <4>3, <4>4, SerializedOK
    <3> QED BY <1>5, <1>8, <3>6, AlikeStored
  <2> QED BY <2>2, <2>3, <2>4
<1> QED BY <1>7, <1>8

-----------------------------------------------------------------------------
(* finalizeCache().                                                          *)

LEMMA StoredTwice ==
    ASSUME NEW s, NEW db, NEW d, NEW eb, NEW e, NEW fb, Stored(s, db, d, eb), Stored(d, eb, e, fb)
    PROVE  Stored(s, db, e, fb)
<1>1. Grows(db, fb)
  BY DEF Stored, Grows
<1>2. Fresh(s, db, e, fb)
  BY DEF Stored, Fresh
<1>3. NothingNew(s, db, e, fb)
  BY DEF Stored, NothingNew
<1> QED BY <1>1, <1>2, <1>3 DEF Stored

\* b is where the entries up to number n are written.
Put(s, db, b, n) ==
    /\ MemoryOK(b.slices, b.cache, {}) /\ Stored(s, db, b.slices, b.cache)
    /\ n >= 0 => ~b.slices.header.changed

LEMMA PutEntryOK ==
    ASSUME NEW s, NEW db, s.mode # "Unknown", NEW n \in 0 .. Slices, NEW b, Put(s, db, b, n - 1),
           NEW d, d = PutEntry(n, b)
    PROVE  Put(s, db, d, n)
<1> DEFINE changed == IF n = 0 THEN b.slices.header.changed ELSE b.slices.data[n - 1].changed
<1>1. d = IF changed THEN Serialized(b.slices, b.cache, n) ELSE b
  BY DEF PutEntry
<1>2. /\ MemoryOK(b.slices, b.cache, {}) /\ Stored(s, db, b.slices, b.cache)
      /\ n # 0 => ~b.slices.header.changed
  BY DEF Put
<1>3. b.slices.mode # "Unknown" /\ \A i \in Indices : SliceOK(b.slices, i)
  BY <1>2 DEF Stored, MemoryOK, HalfOK
<1>4. CASE ~changed
  BY <1>1, <1>2, <1>4 DEF Put
<1>5. CASE changed
  <2>1. n = 0 => b.slices.header.changed
    BY <1>5
  <2>2. n # 0 => n - 1 \in Indices
    BY Constants DEF Indices
  <2>3. n # 0 => /\ b.slices.data[n - 1].loaded
                 /\ b.slices.data[n - 1].changed \/ (b.slices.mode = "Good" /\ n = 1)
    BY <1>3, <1>5, <2>2 DEF SliceOK
  <2>4. d = Serialized(b.slices, b.cache, n)
    BY <1>1, <1>5
  <2> HIDE DEF changed
  <2>5. /\ MemoryOK(d.slices, d.cache, Rest({}, d.purged))
        /\ Stored(b.slices, b.cache, d.slices, d.cache)
        /\ d.slices.header.changed => b.slices.header.changed /\ n # 0
    BY <1>2, <1>3, <2>1, <2>3, <2>4, SerializedOK
  <2>6. Rest({}, d.purged) = {}
    BY DEF Rest
  <2> QED BY <1>2, <2>5, <2>6, StoredTwice DEF Put
<1> QED BY <1>4, <1>5

LEMMA FinalizedOK ==
    ASSUME NEW s, NEW db, MemoryOK(s, db, {}), NEW d, d = Finalized(s, db)
    PROVE  /\ MemoryOK(d.slices, d.cache, {}) /\ Stored(s, db, d.slices, d.cache)
           /\ LeftInOrder(d.cache)
<1> DEFINE b == [slices |-> s, cache |-> db, purged |-> {}]
           f == Fold(0 .. Slices, b, "put", 0)
           g == CHOOSE g : g = [x \in SUBSET (0 .. Slices) |->
                                 IF x = {} THEN b ELSE PutEntry(Max(x), g[x \ {Max(x)}])]
<1>0. Stored(s, db, s, db)
  BY DEF Stored, Grows, Fresh, NothingNew
<1>1. CASE s.mode = "Unknown"
  <2>1. d.slices = s /\ d.cache = db
    BY <1>1 DEF Finalized
  <2>2. LeftInOrder(db)
    BY <1>1 DEF MemoryOK, HalfOK, UnknownOK
  <2> QED BY <1>0, <2>1, <2>2
<1>2. CASE s.mode # "Unknown"
  <2>1. d = f[0 .. Slices]
    <3>1. d = g[0 .. Slices]
      BY <1>2 DEF Finalized, MapThenFoldSet, PutEntry
    <3>2. f = g
      BY DEF Fold, Folded, Each
    <3> QED BY <3>1, <3>2
  <2>2. /\ f[0 .. 0 - 1] = b
        /\ \A n \in 0 .. Slices : f[0 .. n] = PutEntry(n, f[0 .. n - 1])
    <3>1. Slices \in Nat /\ 0 \in {0, 1}
      BY Constants
    <3> HIDE DEF b, g
    <3> QED BY <3>1, FoldIs DEF Each
  <2> HIDE DEF f, g
  <2> DEFINE P == {n \in -1 .. Slices : Put(s, db, f[0 .. n], n)}
  <2>3. -1 \in P /\ 0 - 1 = -1
    BY <1>0, <2>2, Constants DEF Put
  <2>4. \A n \in 0 .. Slices : n - 1 \in P => n \in P
    <3> SUFFICES ASSUME NEW n \in 0 .. Slices, Put(s, db, f[0 .. n - 1], n - 1)
                 PROVE  Put(s, db, f[0 .. n], n)
      OBVIOUS
    <3> QED BY <1>2, <2>2, PutEntryOK
  <2> HIDE DEF P
  <2>5. Slices \in P
    BY <2>3, <2>4, ByNumber, Constants
  <2>6. Put(s, db, d, Slices)
    BY <2>1, <2>5 DEF P
  <2>7. /\ MemoryOK(d.slices, d.cache, {}) /\ Stored(s, db, d.slices, d.cache)
        /\ ~d.slices.header.changed
    BY <2>6, Constants DEF Put
  <2>8. KnownOK(d.slices, d.cache) /\ CacheOK(d.slices, d.cache)
        /\ d.slices.mode \in {"Good", "Small"} /\ d.slices.header.parts \subseteq Parts
    BY <1>2, <2>7 DEF MemoryOK, HalfOK, Stored, SlicesType, SliceType
  <2>9. d.cache.header = d.slices.header.parts /\ d.cache.header # {}
        /\ (d.slices.mode = "Good" <=> IsGoodHeader(d.cache.header))
        /\ (d.slices.mode = "Small" => d.cache.first = {})
    BY <2>7, <2>8 DEF KnownOK
  <2>10. LeftInOrder(d.cache)
    BY <2>8, <2>9 DEF LeftInOrder, CacheOK
  <2> QED BY <2>7, <2>10
<1> QED BY <1>1, <1>2

LEMMA DestroyOK ==
    ASSUME IInv, Destroy
    PROVE  IInv' /\ Grows(cache, cache')
<1> DEFINE final == Finalized(slices, cache)
<1>1. /\ UNCHANGED <<loading, error, pc, read, reading, results, loadedParts, active, mainPc, stopAsync>>
      /\ SameCalls /\ file = "stopped" /\ file' = "destroyed"
      /\ slices' = final.slices /\ cache' = final.cache
  BY DEF Destroy, shared, SameCalls
<1> HIDE DEF final
<1>2. /\ MemoryOK(slices, cache, loading) /\ ReadingOK(slices, cache, reading, DOMAIN results)
      /\ ResultsOK(slices, cache, results) /\ ThreadsOK
  BY DEF IInv
<1>3. loading = {} /\ ~active
  BY <1>1, <1>2 DEF ThreadsOK
<1>4. /\ MemoryOK(slices', cache', {}) /\ Stored(slices, cache, slices', cache')
      /\ LeftInOrder(cache')
  BY <1>1, <1>2, <1>3, FinalizedOK DEF final
<1>5. ReadingOK(slices', cache', reading', DOMAIN results')
  BY <1>1, <1>2, <1>4, FreshReading DEF Stored
<1>6. ResultsOK(slices', cache', results')
  BY <1>1, <1>2, <1>4, FreshResults DEF Stored
<1>7. ThreadsOK'
  BY <1>1, <1>2, <1>3, <1>4 DEF ThreadsOK, SameCalls, Stored
<1> QED BY <1>1, <1>3, <1>4, <1>5, <1>6, <1>7 DEF IInv, Stored

-----------------------------------------------------------------------------
(* fillFromSlices().                                                         *)

\* The calls of the loader that are posted at once.
LastIn(q, p) ==
    \E k \in DOMAIN q : /\ p \in q[k].parts /\ q[k].op = "load"
                        /\ \A j \in DOMAIN q : p \in q[j].parts => j <= k

UncalledIn(q, p) == \A k \in DOMAIN q : p \notin q[k].parts

LEMMA CallsAdded ==
    ASSUME NEW q \in Seq(CallType), NEW op \in {"load", "cancel"}, NEW A, A \subseteq Parts,
           NEW d, d = q \o Calls(op, A)
    PROVE  /\ d \in Seq(CallType)
           /\ \A p : p \notin A => /\ LastIn(q, p) => LastIn(d, p)
                                   /\ UncalledIn(q, p) => UncalledIn(d, p)
           /\ \A p \in A : op = "load" => LastIn(d, p)
<1>1. CASE A = {}
  <2>1. d = q
    BY <1>1 DEF Calls
  <2> QED BY <1>1, <2>1
<1>2. CASE A # {}
  <2> DEFINE call == [op |-> op, parts |-> A]
             n == Len(q)
  <2>1. call \in CallType /\ call.op = op /\ call.parts = A
    BY DEF CallType
  <2>2. d = q \o <<call>>
    BY <1>2 DEF Calls
  <2> HIDE DEF call
  <2>3. d = Append(q, call)
    BY <2>1, <2>2
  <2>4. /\ d \in Seq(CallType) /\ n \in Nat /\ DOMAIN q = 1 .. n /\ DOMAIN d = 1 .. n + 1
        /\ d[n + 1] = call /\ \A k \in 1 .. n : d[k] = q[k]
    BY <2>1, <2>3
  <2> HIDE DEF n
  <2>5. \A k \in 1 .. n + 1 : k <= n + 1 /\ (k = n + 1 \/ k \in 1 .. n)
    BY <2>4
  <2>6. n + 1 \in 1 .. n + 1 /\ \A k \in 1 .. n : k \in 1 .. n + 1
    BY <2>4
  <2>7. ASSUME NEW p, p \notin A, LastIn(q, p) PROVE LastIn(d, p)
    <3>1. PICK k \in 1 .. n : /\ p \in q[k].parts /\ q[k].op = "load"
                              /\ \A j \in 1 .. n : p \in q[j].parts => j <= k
      BY <2>4, <2>7 DEF LastIn
    <3>2. \A j \in 1 .. n + 1 : p \in d[j].parts => j <= k
      BY <2>1, <2>4, <2>5, <2>7, <3>1
    <3> QED BY <2>4, <2>6, <3>1, <3>2 DEF LastIn
  <2>8. ASSUME NEW p, p \notin A, UncalledIn(q, p) PROVE UncalledIn(d, p)
    BY <2>1, <2>4, <2>5, <2>8 DEF UncalledIn
  <2>9. ASSUME NEW p \in A, op = "load" PROVE LastIn(d, p)
    BY <2>1, <2>4, <2>5, <2>6, <2>9 DEF LastIn
  <2> QED BY <2>4, <2>7, <2>8, <2>9
<1> QED BY <1>1, <1>2

\* The slices whose entries are asked for.
AskedFor(s, F) ==
    [s EXCEPT !.data = [i \in Indices |-> [s.data[i] EXCEPT !.loading = @ \/ i \in F]]]

LEMMA AskedForOK ==
    ASSUME NEW s, NEW db, NEW L, MemoryOK(s, db, L), NEW F, F \subseteq Indices,
           \A i \in F : s.mode # "Unknown" /\ ~s.data[i].loaded,
           NEW d, d = AskedFor(s, F)
    PROVE  /\ MemoryOK(d, db, L) /\ d.header = s.header /\ d.mode = s.mode
           /\ \A n \in 0 .. Slices : Wanted(s, n) => Wanted(d, n)
           /\ \A i \in F : d.data[i].loading
<1> DEFINE data == [i \in Indices |-> [s.data[i] EXCEPT !.loading = @ \/ i \in F]]
<1>1. s \in SlicesType /\ ~s.broken /\ L \subseteq Parts /\ HeaderOK(s) /\ KnownOK(s, db)
      /\ Lacking(s, db, L) /\ CacheOK(s, db) /\ UnknownOK(s, db) /\ Apart(s)
      /\ (~s.header.loaded => L = {})
      /\ \A i \in Indices : SliceOK(s, i) /\ s.data[i] \in SliceType
  BY DEF MemoryOK, HalfOK, SlicesType
<1>2. d = [s EXCEPT !.data = data]
  BY DEF AskedFor
<1>3. \A i \in Indices :
        /\ data[i] \in SliceType
        /\ data[i].parts = s.data[i].parts /\ data[i].loaded = s.data[i].loaded
        /\ data[i].changed = s.data[i].changed
        /\ data[i].loading <=> s.data[i].loading \/ i \in F
  BY <1>1 DEF SliceType
<1>4. data = [i \in Indices |-> data[i]]
  OBVIOUS
<1> HIDE DEF data
<1>5. data \in [Indices -> SliceType]
  BY <1>3, <1>4
<1>6. d \in SlicesType /\ d.data = data /\ d.header = s.header /\ d.mode = s.mode
      /\ d.broken = s.broken
  BY <1>1, <1>2, <1>5 DEF SlicesType
<1>7. \A i \in Indices : Saved(d, db, i) = Saved(s, db, i)
  BY <1>6 DEF Saved
<1>8. \A i \in Indices : SliceOK(d, i)
  BY <1>1, <1>3, <1>6 DEF SliceOK
<1>9. HeaderOK(d) /\ CacheOK(d, db) /\ UnknownOK(d, db)
  <2>1. s.mode = "Unknown" => F = {}
    OBVIOUS
  <2> QED BY <1>1, <1>3, <1>6, <2>1 DEF HeaderOK, CacheOK, UnknownOK
<1>10. KnownOK(d, db)
  <2>1. \A i \in Indices : s.mode # "Unknown" /\ d.data[i].loaded => Saved(d, db, i) \subseteq d.data[i].parts
    BY <1>1, <1>3, <1>6, <1>7 DEF KnownOK
  <2>2. d.data[0].loaded = s.data[0].loaded
    BY <1>3, <1>6, Constants
  <2> QED BY <1>1, <1>6, <2>1, <2>2 DEF KnownOK
<1>11. Lacking(d, db, L)
  BY <1>1, <1>3, <1>6, <1>7, IndexIn DEF Lacking
<1>12. Apart(d)
  BY <1>1, <1>3, <1>6, Constants DEF Apart
<1>13. \A n \in 0 .. Slices : Wanted(s, n) => Wanted(d, n)
  <2> SUFFICES ASSUME NEW n \in 0 .. Slices, Wanted(s, n) PROVE Wanted(d, n)
    OBVIOUS
  <2>1. n # 0 => n - 1 \in Indices
    BY Constants DEF Indices
  <2> QED BY <1>3, <1>6, <2>1, Constants DEF Wanted
<1> QED BY <1>1, <1>3, <1>6, <1>8, <1>9, <1>10, <1>11, <1>12, <1>13 DEF MemoryOK, HalfOK

\* What is asked of the loader is neither in memory nor saved.
LEMMA ToLoadLacks ==
    ASSUME NEW s, NEW db, NEW L, MemoryOK(s, db, L), NEW r
    PROVE  \A p \in ToLoad(s, r) :
              /\ p \in Parts /\ p \notin s.data[IndexOf(p)].parts
              /\ s.mode # "Unknown" => p \notin Saved(s, db, IndexOf(p))
<1> SUFFICES ASSUME NEW p \in ToLoad(s, r)
             PROVE  /\ p \in Parts /\ p \notin s.data[IndexOf(p)].parts
                    /\ s.mode # "Unknown" => p \notin Saved(s, db, IndexOf(p))
  OBVIOUS
<1>1. PICK i \in {IndexOf(q) : q \in {q \in r : ~CacheNotLoaded(s, IndexOf(q))}} :
         p \in First(LoadMax, Missing(s, r, i))
  BY DEF ToLoad, First
<1>2. p \in Within(i) /\ p \notin s.data[i].parts /\ ~CacheNotLoaded(s, i)
  BY <1>1 DEF First, Missing
<1>3. IndexOf(p) = i /\ p \in Parts /\ i \in Indices
  BY <1>2, IndexIn
<1>4. s.mode # "Unknown" => Saved(s, db, i) \subseteq s.data[i].parts
  BY <1>2, <1>3 DEF MemoryOK, HalfOK, KnownOK, CacheNotLoaded
<1> QED BY <1>2, <1>3, <1>4

LEMMA MoreLacking ==
    ASSUME NEW s, NEW db, NEW L, MemoryOK(s, db, L), NEW K, K \subseteq Parts,
           Lacking(s, db, K), s.header.loaded
    PROVE  MemoryOK(s, db, L \union K)
  BY DEF MemoryOK, HalfOK, Lacking

\* The entries asked for are as they are read, and nobody waited for them.
LEMMA AskedReading ==
    ASSUME NEW s, NEW db, NEW L, MemoryOK(s, db, L), s.header.loaded,
           NEW F, F \subseteq Indices,
           \A i \in F : CacheNotLoaded(s, i) /\ ~s.data[i].loading,
           NEW d, d = AskedFor(s, F), NEW R, NEW found, ReadingOK(s, db, R, DOMAIN found),
           ResultsOK(s, db, found)
    PROVE  /\ ReadingOK(d, db, R \union {ReadOf(s, db, i + 1) : i \in F}, DOMAIN found)
           /\ ResultsOK(d, db, found)
<1> DEFINE Key(i) == IF i + 1 = 1 /\ s.mode = "Good" THEN 0 ELSE i + 1
           Q == {ReadOf(s, db, i + 1) : i \in F}
<1>1. \A i \in F : s.mode # "Unknown" /\ ~s.data[i].loaded
  BY DEF CacheNotLoaded
<1>2. /\ d.header = s.header /\ d.mode = s.mode
      /\ \A n \in 0 .. Slices : Wanted(s, n) => Wanted(d, n)
      /\ \A i \in F : d.data[i].loading
  BY <1>1, AskedForOK
<1>3. \A i \in F : /\ i + 1 \in 0 .. Slices /\ i + 1 # 0 /\ i + 1 - 1 = i /\ (i + 1 = 1 <=> i = 0)
                   /\ 0 \in 0 .. Slices
  BY Constants DEF Indices
<1>4. \A i \in F : Key(i) \in 0 .. Slices /\ Wanted(d, Key(i))
  <2> SUFFICES ASSUME NEW i \in F PROVE Key(i) \in 0 .. Slices /\ Wanted(d, Key(i))
    OBVIOUS
  <2>1. CASE i = 0 /\ s.mode = "Good"
    BY <1>2, <1>3, <2>1 DEF Wanted
  <2>2. CASE ~(i = 0 /\ s.mode = "Good")
    <3>1. Key(i) = i + 1
      BY <1>3, <2>2
    <3> HIDE DEF Key
    <3>2. PICK n : n = i + 1
      OBVIOUS
    <3>4. i \in Nat /\ i < Slices
      BY Constants DEF Indices
    <3>3. n \in 0 .. Slices /\ n # 0 /\ n - 1 = i /\ ~(s.mode = "Good" /\ n = 1)
      BY <2>2, <3>2, <3>4, Constants
    <3> QED BY <1>1, <1>2, <3>1, <3>2, <3>3 DEF Wanted
  <2> QED BY <2>1, <2>2
<1>5. \A i \in F : ~Wanted(s, Key(i))
  <2> SUFFICES ASSUME NEW i \in F PROVE ~Wanted(s, Key(i))
    OBVIOUS
  <2>1. CASE i = 0 /\ s.mode = "Good"
    BY <1>1, <1>3, <2>1 DEF Wanted
  <2>2. CASE ~(i = 0 /\ s.mode = "Good")
    <3>1. Key(i) = i + 1
      BY <1>3, <2>2
    <3> HIDE DEF Key
    <3>2. PICK n : n = i + 1
      OBVIOUS
    <3>4. i \in Nat /\ i < Slices
      BY Constants DEF Indices
    <3>3. n # 0 /\ n - 1 = i
      BY <3>2, <3>4
    <3> QED BY <3>1, <3>2, <3>3 DEF Wanted
  <2> QED BY <2>1, <2>2
<1>6. \A i \in F : Key(i) \notin DOMAIN found
  <2> SUFFICES ASSUME NEW i \in F, Key(i) \in DOMAIN found PROVE FALSE
    OBVIOUS
  <2>1. Key(i) = 1 /\ 0 \in DOMAIN found /\ Wanted(s, 0) /\ s.mode # "Good"
    BY <1>3, <1>5 DEF ResultsOK
  <2> QED BY <2>1 DEF Wanted
<1>7. \A i \in F : /\ ReadOf(s, db, i + 1).number = Key(i)
                   /\ ReadOf(s, db, i + 1).found = Entry(db, Key(i))
  BY DEF ReadOf
<1>8. \A i, j \in F : Key(i) = Key(j) => i = j
  <2>1. \A i \in F : i \in Nat
    BY DEF Indices
  <2> QED BY <2>1
<1> HIDE DEF Key
<1>9. ASSUME NEW r \in Q
      PROVE  /\ r.number \in 0 .. Slices /\ r.found = Entry(db, r.number)
             /\ Wanted(d, r.number) /\ r.number \notin DOMAIN found
             /\ ~Wanted(s, r.number)
  <2>1. PICK i \in F : r = ReadOf(s, db, i + 1)
    OBVIOUS
  <2> QED BY <1>4, <1>5, <1>6, <1>7, <2>1
<1>10. ASSUME NEW r \in Q, NEW q \in Q, r.number = q.number PROVE r = q
  <2>1. PICK i \in F : r = ReadOf(s, db, i + 1)
    OBVIOUS
  <2>2. PICK j \in F : q = ReadOf(s, db, j + 1)
    OBVIOUS
  <2>3. i = j
    BY <1>7, <1>8, <1>10, <2>1, <2>2
  <2> QED BY <2>1, <2>2, <2>3
<1> HIDE DEF Q
<1>11. ReadingOK(d, db, R \union Q, DOMAIN found)
  <2>1. ASSUME NEW r \in R
        PROVE  /\ r.number \in 0 .. Slices /\ r.found = Entry(db, r.number)
               /\ Wanted(s, r.number) /\ Wanted(d, r.number) /\ r.number \notin DOMAIN found
    BY <1>2 DEF ReadingOK
  <2>2. \A r, q \in R : r.number = q.number => r = q
    BY DEF ReadingOK
  <2>3. \A r, q \in R \union Q : r.number = q.number => r = q
    BY <1>9, <1>10, <2>1, <2>2
  <2>4. \A r \in R \union Q :
           /\ r.number \in 0 .. Slices /\ r.found = Entry(db, r.number)
           /\ Wanted(d, r.number) /\ r.number \notin DOMAIN found
    BY <1>9, <2>1
  <2> QED BY <2>3, <2>4 DEF ReadingOK
<1>12. ResultsOK(d, db, found)
  BY <1>2, Constants DEF ResultsOK
<1> QED BY <1>11, <1>12 DEF Q

\* What Fill does to the memory, whichever way it ends.
Filled(n, d, eb, R, K, load) ==
    /\ MemoryOK(d, eb, K \union load)
    /\ ReadingOK(d, eb, R, n) /\ ResultsOK(d, eb, results)
    /\ K \subseteq loading /\ d.header.parts = slices.header.parts
    /\ Grows(cache, eb)

LEMMA ReadIs ==
    ASSUME IInv, pc = "try"
    PROVE  /\ read \subseteq Parts /\ read # {} /\ active /\ ~stopAsync
           /\ IndexOf(Min(read)) \in Indices /\ IndexOf(Max(read)) \in Indices
<1>1. read # {} /\ read \in Reads /\ active /\ ~stopAsync
  BY DEF IInv, ThreadsOK
<1>2. read \subseteq Parts
  BY <1>1, StreamingAssumption DEF Parts
<1> DEFINE n == Slices * PartsInSlice
<1>3. n \in Nat /\ n > 0 /\ Parts = 0 .. n - 1
  BY Constants DEF Parts
<1> HIDE DEF n
<1>4. n - 1 \in Nat /\ read \subseteq Nat /\ read \subseteq 0 .. n - 1
  BY <1>2, <1>3
<1>5. Min(read) \in read /\ Max(read) \in read
  BY <1>1, <1>4, MinIn, MaxIn
<1> QED BY <1>1, <1>2, <1>5, IndexIn

\* A read that is ready leaves a slice that was not used for long.
LEMMA ReadyOK ==
    ASSUME IInv, pc = "try", slices.header.loaded,
           NEW u, u = UnloadUnused(MarkUsed(MarkUsed(slices, IndexOf(Min(read))),
                                            IndexOf(Max(read))), cache)
    PROVE  Filled(DOMAIN results, u.slices, u.cache, reading, Rest(loading, u.purged),
                  ToLoad(slices, read))
<1> DEFINE one == MarkUsed(slices, IndexOf(Min(read)))
           marked == MarkUsed(one, IndexOf(Max(read)))
           load == ToLoad(slices, read)
           K == Rest(loading, u.purged)
<1>1. /\ MemoryOK(slices, cache, loading) /\ ReadingOK(slices, cache, reading, DOMAIN results)
      /\ ResultsOK(slices, cache, results) /\ slices \in SlicesType
  BY DEF IInv, MemoryOK, HalfOK
<1>2. Alike(slices, one) /\ one \in SlicesType
  BY <1>1, ReadIs, MarkedAlike DEF Alike
<1>3. Alike(one, marked) /\ Len(marked.used) > 0
  BY <1>2, ReadIs, MarkedAlike
<1> HIDE DEF one
<1>4. Alike(slices, marked) /\ u = UnloadUnused(marked, cache)
  BY <1>2, <1>3, AlikeTwice DEF one
<1> HIDE DEF marked
<1>5. MemoryOK(marked, cache, loading)
  BY <1>1, <1>4, AlikeOK
<1>6. /\ MemoryOK(u.slices, u.cache, K) /\ Stored(slices, cache, u.slices, u.cache)
  BY <1>3, <1>4, <1>5, UnloadUnusedOK, AlikeStored
<1>7. \A p \in load : /\ p \in Parts /\ p \notin slices.data[IndexOf(p)].parts
                      /\ slices.mode # "Unknown" => p \notin Saved(slices, cache, IndexOf(p))
  BY <1>1, ToLoadLacks
<1> HIDE DEF load, K
<1>8. Lacking(u.slices, u.cache, load)
  BY <1>6, <1>7, IndexIn DEF Lacking, Stored, NothingNew
<1>9. MemoryOK(u.slices, u.cache, K \union load)
  BY <1>6, <1>7, <1>8, MoreLacking DEF Stored
<1>10. K \subseteq loading
  BY DEF K, Rest
<1> QED BY <1>1, <1>6, <1>9, <1>10, FreshReading, FreshResults DEF Filled, Stored, K, load

\* One that is not asks for what it lacks.
LEMMA UnreadyOK ==
    ASSUME IInv, NEW F, F \subseteq Indices,
           \A i \in F : CacheNotLoaded(slices, i) /\ ~slices.data[i].loading,
           NEW load, load = {} \/ load = ToLoad(slices, read),
           (load = {} /\ F = {}) \/ slices.header.loaded,
           NEW d, d = AskedFor(slices, F)
    PROVE  Filled(DOMAIN results, d, cache,
                  reading \union {ReadOf(slices, cache, i + 1) : i \in F}, loading, load)
<1>1. /\ MemoryOK(slices, cache, loading) /\ ReadingOK(slices, cache, reading, DOMAIN results)
      /\ ResultsOK(slices, cache, results) /\ slices \in SlicesType
  BY DEF IInv, MemoryOK, HalfOK
<1>2. \A i \in F : slices.mode # "Unknown" /\ ~slices.data[i].loaded
  BY DEF CacheNotLoaded
<1>3. Grows(cache, cache)
  BY DEF Grows
<1>4. MemoryOK(slices, cache, loading \union load)
  <2>1. CASE load = {}
    <3>1. loading \union load = loading
      BY <2>1
    <3> QED BY <1>1, <3>1
  <2>2. CASE load # {}
    <3>1. load = ToLoad(slices, read)
      BY <2>2
    <3>2. Lacking(slices, cache, load) /\ load \subseteq Parts
      BY <1>1, <3>1, ToLoadLacks DEF Lacking
    <3> QED BY <1>1, <2>2, <3>2, MoreLacking
  <2> QED BY <2>1, <2>2
<1>5. MemoryOK(d, cache, loading \union load) /\ d.header = slices.header
      /\ \A n \in 0 .. Slices : Wanted(slices, n) => Wanted(d, n)
  BY <1>2, <1>4, AskedForOK
<1> DEFINE Q == {ReadOf(slices, cache, i + 1) : i \in F}
<1>6. ReadingOK(d, cache, reading \union Q, DOMAIN results) /\ ResultsOK(d, cache, results)
  <2>1. CASE slices.header.loaded
    BY <1>1, <2>1, AskedReading
  <2>2. CASE F = {}
    <3>1. Q = {}
      BY <2>2
    <3> HIDE DEF Q
    <3>2. reading \union Q = reading
      BY <3>1
    <3>3. ReadingOK(d, cache, reading, DOMAIN results)
      BY <1>1, <1>5 DEF ReadingOK
    <3>4. ResultsOK(d, cache, results)
      BY <1>1, <1>5, Constants DEF ResultsOK
    <3> QED BY <3>2, <3>3, <3>4
  <2> QED BY <2>1, <2>2
<1> HIDE DEF Q
<1> QED BY <1>3, <1>5, <1>6 DEF Filled, Q

LEMMA AskedForNone ==
    ASSUME NEW s \in SlicesType
    PROVE  AskedFor(s, {}) = s
<1> DEFINE data == [i \in Indices |-> [s.data[i] EXCEPT !.loading = @ \/ i \in {}]]
<1>1. AskedFor(s, {}) = [s EXCEPT !.data = data]
  BY DEF AskedFor
<1>2. \A i \in Indices : data[i] = s.data[i]
  <2> SUFFICES ASSUME NEW i \in Indices PROVE data[i] = s.data[i]
    OBVIOUS
  <2>1. s.data[i] \in SliceType
    BY DEF SlicesType
  <2>2. data[i] = [s.data[i] EXCEPT !.loading = s.data[i].loading]
    BY <2>1 DEF SliceType
  <2> HIDE DEF data
  <2> QED BY <2>1, <2>2 DEF SliceType
<1>3. s.data = [i \in Indices |-> s.data[i]] /\ data = [i \in Indices |-> data[i]]
  BY DEF SlicesType
<1> HIDE DEF data
<1>4. data = s.data
  BY <1>2, <1>3
<1> QED BY <1>1, <1>4 DEF SlicesType

\* The memory and the calls that a Fill without an error leaves.
LEMMA FilledOK ==
    ASSUME IInv, pc = "try", error' = error, NEW R, NEW K, NEW load, NEW A,
           Filled(DOMAIN results, slices', cache', R, K, load),
           reading' = R, loading' = K \union load, A \subseteq loading \ K,
           posted' = posted \o Calls("cancel", A) \o Calls("load", load \ K),
           UNCHANGED <<read, results, requested, loadedParts, active, stopAsync, file, mainPc>>,
           pc' = "wait" \/ (pc' = "clear" /\ slices.header.parts # {})
    PROVE  IInv' /\ Grows(cache, cache')
<1>1. ThreadsOK /\ MemoryOK(slices, cache, loading) /\ ResultsOK(slices, cache, results)
  BY DEF IInv
<1>2. /\ MemoryOK(slices', cache', loading') /\ ReadingOK(slices', cache', reading', DOMAIN results')
      /\ ResultsOK(slices', cache', results') /\ K \subseteq loading
      /\ slices'.header.parts = slices.header.parts /\ Grows(cache, cache')
  BY DEF Filled
<1>3. loading \subseteq Parts /\ loading' \subseteq Parts /\ A \subseteq Parts /\ load \ K \subseteq Parts
  BY <1>1, <1>2 DEF MemoryOK, HalfOK
<1> DEFINE q == posted \o Calls("cancel", A)
<1>4. /\ q \in Seq(CallType)
      /\ \A p : p \notin A => /\ LastIn(posted, p) => LastIn(q, p)
                              /\ UncalledIn(posted, p) => UncalledIn(q, p)
  <2> DEFINE op == "cancel"
  <2>1. posted \in Seq(CallType) /\ A \subseteq Parts
    BY <1>1, <1>3 DEF ThreadsOK
  <2>2. op \in {"load", "cancel"} /\ q = posted \o Calls(op, A)
    OBVIOUS
  <2> HIDE DEF q, op
  <2> QED BY <2>1, <2>2, CallsAdded
<1> HIDE DEF q
<1>5. posted' = q \o Calls("load", load \ K)
  BY DEF q
<1> DEFINE B == load \ K
<1>6. B \subseteq Parts /\ posted' = q \o Calls("load", B)
  BY <1>3, <1>5
<1> HIDE DEF B
<1>7. /\ posted' \in Seq(CallType)
      /\ \A p : p \notin B => /\ LastIn(q, p) => LastIn(posted', p)
                              /\ UncalledIn(q, p) => UncalledIn(posted', p)
      /\ \A p \in B : LastIn(posted', p)
  <2> DEFINE op == "load"
  <2>1. op \in {"load", "cancel"} /\ posted' = q \o Calls(op, B)
    BY <1>6
  <2> HIDE DEF op
  <2>2. /\ posted' \in Seq(CallType)
        /\ \A p : p \notin B => /\ LastIn(q, p) => LastIn(posted', p)
                                /\ UncalledIn(q, p) => UncalledIn(posted', p)
        /\ \A p \in B : op = "load" => LastIn(posted', p)
    BY <1>4, <1>6, <2>1, CallsAdded
  <2> QED BY <2>2 DEF op
<1>9. ThreadsOK'
  BY <1>1, <1>2, <1>7 DEF ThreadsOK
<1>10. ASSUME error = "none", NEW p \in loading' PROVE Coming(p)'
  <2>1. CASE p \in B
    <3>1. LastIn(posted', p)
      BY <1>7, <2>1
    <3>2. LastCall(p)'
      BY <3>1 DEF LastIn, LastCall
    <3> QED BY <3>2 DEF Coming
  <2>2. CASE p \notin B
    <3>1. p \in K /\ p \in loading /\ p \notin A
      BY <1>2, <2>2 DEF B
    <3>2. Coming(p)
      BY <1>10, <3>1 DEF IInv
    <3>3. LastCall(p) => LastCall(p)'
      <4>1. LastCall(p) => LastIn(posted, p)
        BY DEF LastIn, LastCall
      <4>2. LastIn(posted', p) => LastCall(p)'
        BY DEF LastIn, LastCall
      <4> QED BY <1>4, <1>7, <2>2, <3>1, <4>1, <4>2
    <3>4. Uncalled(p) => Uncalled(p)'
      <4>1. Uncalled(p) => UncalledIn(posted, p)
        BY DEF UncalledIn, Uncalled
      <4>2. UncalledIn(posted', p) => Uncalled(p)'
        BY DEF UncalledIn, Uncalled
      <4> QED BY <1>4, <1>7, <2>2, <3>1, <4>1, <4>2
    <3> QED BY <3>2, <3>3, <3>4 DEF Coming
  <2> QED BY <2>1, <2>2
<1>11. file = "destroyed" => pc = "ended"
  BY <1>1 DEF ThreadsOK
<1> QED BY <1>2, <1>9, <1>10, <1>11 DEF IInv

LEMMA FillOK ==
    ASSUME IInv, Fill
    PROVE  IInv' /\ Grows(cache, cache')
<1> DEFINE waitHeader == ~slices.header.loaded
           ready == ~waitHeader /\ \A p \in read : p \in slices.data[IndexOf(p)].parts
           load == IF waitHeader THEN {} ELSE ToLoad(slices, read)
           marked == MarkUsed(MarkUsed(slices, IndexOf(Min(read))), IndexOf(Max(read)))
           unload == IF ready THEN UnloadUnused(marked, cache)
                              ELSE [slices |-> slices, cache |-> cache, purged |-> {}]
           fromCache == IF ready \/ waitHeader THEN {}
                        ELSE {i \in {IndexOf(p) : p \in read} :
                                 CacheNotLoaded(slices, i) /\ ~slices.data[i].loading}
           cancel == {p \in loading : IndexOf(p) \in unload.purged}
           left == loading \ cancel
           wontFill == slices.mode = "Unknown" /\ Cardinality(slices.header.parts) >= MaxPartsInHeader
           asked == AskedFor(unload.slices, fromCache)
           fine == waitHeader => slices.header.loading
           R == reading \union {ReadOf(slices, cache, i + 1) : i \in fromCache}
<1>1. /\ pc = "try"
      /\ UNCHANGED <<read, results, requested, loadedParts, active, stopAsync, file, mainPc>>
  BY DEF Fill, shared
<1>2. IF ~ready /\ wontFill
      THEN /\ error' = "NotStreamable" /\ pc' = "wait"
           /\ UNCHANGED <<slices, loading, reading, cache, posted>>
      ELSE /\ pc' = IF ready THEN "clear" ELSE "wait"
           /\ slices' = Expects(asked, fine)
           /\ cache' = unload.cache /\ reading' = R /\ loading' = left \union load
           /\ posted' = posted \o Calls("cancel", cancel) \o Calls("load", load \ left)
           /\ error' = error
  BY DEF Fill, AskedFor
<1>3. /\ MemoryOK(slices, cache, loading) /\ ThreadsOK /\ slices \in SlicesType /\ ~slices.broken
      /\ HeaderOK(slices) /\ UnknownOK(slices, cache) /\ KnownOK(slices, cache)
  BY DEF IInv, MemoryOK, HalfOK
<1>4. read \subseteq Parts /\ read # {}
  BY <1>1, ReadIs
<1> HIDE DEF asked, fine, R, unload, marked, load, cancel, left, fromCache, wontFill, ready
<1>5. fine /\ fine \in BOOLEAN
  BY <1>3 DEF fine, HeaderOK
<1>6. CASE ~ready /\ wontFill
  <2>1. UNCHANGED <<slices, loading, reading, cache, posted>> /\ error' # "none" /\ pc' = "wait"
    BY <1>2, <1>6
  <2>2. ThreadsOK'
    BY <1>1, <1>3, <2>1 DEF ThreadsOK
  <2> QED BY <1>1, <2>1, <2>2 DEF IInv, Grows
<1>7. CASE ready
  <2>1. waitHeader = FALSE /\ fromCache = {} /\ load = ToLoad(slices, read)
        /\ unload = UnloadUnused(marked, cache) /\ slices.header.loaded
    BY <1>7 DEF ready, fromCache, load, unload
  <2>2. Filled(DOMAIN results, unload.slices, unload.cache, reading, Rest(loading, unload.purged), load)
    BY <1>1, <2>1, ReadyOK DEF marked
  <2>3. unload.slices \in SlicesType /\ ~unload.slices.broken
    BY <2>2 DEF Filled, MemoryOK, HalfOK
  <2>4. asked = unload.slices
    BY <2>1, <2>3, AskedForNone DEF asked
  <2>5. slices' = unload.slices /\ cache' = unload.cache
    BY <1>2, <1>5, <1>7, <2>3, <2>4, ExpectsHolds
  <2>6. R = reading /\ left = Rest(loading, unload.purged) /\ cancel \subseteq loading \ left
    BY <2>1 DEF R, left, cancel, Rest
  <2>7. slices.header.parts # {}
    <3>1. PICK p \in read : p \in slices.data[IndexOf(p)].parts
      BY <1>4, <1>7 DEF ready
    <3>2. IndexOf(p) \in Indices
      BY <1>4, IndexIn
    <3> QED BY <1>3, <3>1, <3>2 DEF UnknownOK, KnownOK
  <2>8. /\ reading' = reading /\ loading' = left \union load /\ pc' = "clear" /\ error' = error
        /\ posted' = posted \o Calls("cancel", cancel) \o Calls("load", load \ left)
    BY <1>2, <1>7, <2>6
  <2>9. Filled(DOMAIN results, slices', cache', reading, left, load)
    BY <2>2, <2>5, <2>6
  <2> QED BY <1>1, <2>6, <2>7, <2>8, <2>9, FilledOK
<1>8. CASE ~ready /\ ~wontFill
  <2>1. unload.slices = slices /\ unload.cache = cache /\ cancel = {} /\ left = loading
        /\ pc' = "wait" /\ error' = error
    BY <1>2, <1>8 DEF unload, cancel, left
  <2>2. asked = AskedFor(slices, fromCache)
    BY <2>1 DEF asked
  <2>3. fromCache \subseteq Indices /\ \A i \in fromCache : CacheNotLoaded(slices, i) /\ ~slices.data[i].loading
    BY <1>4, IndexIn DEF fromCache
  <2>4. load = {} \/ load = ToLoad(slices, read)
    BY DEF load
  <2>5. (load = {} /\ fromCache = {}) \/ slices.header.loaded
    BY DEF load, fromCache
  <2>6. Filled(DOMAIN results, asked, cache, R, loading, load)
    BY <2>2, <2>3, <2>4, <2>5, UnreadyOK DEF R
  <2>7. asked \in SlicesType /\ ~asked.broken
    BY <2>6 DEF Filled, MemoryOK, HalfOK
  <2>8. slices' = asked
    BY <1>2, <1>5, <1>8, <2>7, ExpectsHolds
  <2>9. /\ cache' = cache /\ reading' = R /\ loading' = loading \union load
        /\ posted' = posted \o Calls("cancel", cancel) \o Calls("load", load \ loading)
    BY <1>2, <1>8, <2>1
  <2>10. Filled(DOMAIN results, slices', cache', R, loading, load)
    BY <2>6, <2>8, <2>9
  <2>11. cancel \subseteq loading \ loading
    BY <2>1
  <2> QED BY <1>1, <2>1, <2>9, <2>10, <2>11, FilledOK
<1> QED BY <1>6, <1>7, <1>8

-----------------------------------------------------------------------------
(* Theorems.                                                                 *)

LEMMA InitOK ==
    ASSUME Init, LeftInOrder(cache)
    PROVE  IInv
<1> DEFINE s == NewSlices
<1>1. /\ slices = s /\ loading = {} /\ pc = "ended" /\ read = {} /\ results = <<>>
      /\ cache \in Caches /\ reading = {ReadOf(s, cache, 0)} /\ loadedParts = <<>>
      /\ posted = <<>> /\ requested = {} /\ mainPc = "idle" /\ active = FALSE
      /\ stopAsync = FALSE /\ file = "stopped"
  BY DEF Init
<1>2. LeftInOrder(cache) /\ cache \in CacheType
  BY <1>1, CachesAssumption DEF CacheType
<1>3. /\ s.header.parts = {} /\ s.header.loading = TRUE /\ s.header.loaded = FALSE
      /\ s.header.changed = FALSE /\ s.mode = "Unknown" /\ s.broken = FALSE
      /\ \A i \in Indices : s.data[i].parts = {} /\ s.data[i].loading = FALSE
                            /\ s.data[i].loaded = FALSE /\ s.data[i].changed = FALSE
  BY DEF NewSlices, NewSlice
<1>4. s \in SlicesType
  <2> DEFINE whole == [NewSlice EXCEPT !.loading = TRUE]
             each  == [i \in Indices |-> NewSlice]
  <2>1. NewSlice \in SliceType /\ whole \in SliceType
    BY DEF NewSlice, SliceType
  <2>2. each \in [Indices -> SliceType]
    BY <2>1
  <2>3. /\ s.header = whole /\ s.data = each /\ s.used = <<>> /\ s.mode = "Unknown"
    BY DEF NewSlices
  <2>4. s.used \in Seq(Indices)
    BY <2>3
  <2> QED BY <2>1, <2>2, <2>3, <2>4 DEF NewSlices, SlicesType
<1> HIDE DEF s
<1>5. \A i \in Indices : SliceOK(s, i)
  BY <1>3 DEF SliceOK
<1>6. HeaderOK(s) /\ UnknownOK(s, cache) /\ KnownOK(s, cache)
  BY <1>2, <1>3 DEF HeaderOK, UnknownOK, KnownOK
<1>7. CacheOK(s, cache)
  <2>1. cache.first \subseteq Within(0) \ cache.header
        /\ \A i \in Indices : cache.slice[i] \subseteq Within(i)
    BY <1>2 DEF LeftInOrder
  <2> QED BY <1>2, <1>3, <2>1 DEF CacheOK
<1>8. MemoryOK(s, cache, {})
  BY <1>3, <1>4, <1>5, <1>6, <1>7 DEF MemoryOK, HalfOK, Apart, Lacking
<1>9. ReadingOK(s, cache, reading, {})
  <2>1. ReadOf(s, cache, 0).number = 0 /\ ReadOf(s, cache, 0).found = Entry(cache, 0)
    BY DEF ReadOf
  <2>2. Wanted(s, 0)
    BY <1>3 DEF Wanted
  <2> QED BY <1>1, <2>1, <2>2, Constants DEF ReadingOK
<1>10. DOMAIN results = {}
  BY <1>1
<1>11. ThreadsOK
  BY <1>1 DEF ThreadsOK
<1> QED BY <1>1, <1>8, <1>9, <1>10, <1>11 DEF IInv, ResultsOK

\* Every step keeps the invariant, and what is saved.
LEMMA StepOK ==
    ASSUME IInv, [Next]_vars
    PROVE  IInv' /\ Grows(cache, cache')
<1>1. CASE Fill
  BY <1>1, FillOK
<1>2. CASE Destroy
  BY <1>2, DestroyOK
<1>3. CASE /\ ~Fill /\ ~Destroy
           /\ Next \/ UNCHANGED vars
  <2>1. cache' = cache
    BY <1>3 DEF Next, StreamingThread, ReceiveFirst, StartWaiting, ReceiveAgain, ClearWaiting,
       Acquire, HeaderRead, Finish, Read, CacheAnswers, CacheThread, CacheLoadsWaiting,
       CacheReleases, LoaderCalled, Handler, HandlerLoadsWaiting, HandlerReleases, PartArrives,
       LoadFails, Brought, Interrupt, Stop, StopAsync, Start, cacheSide, vars
  <2>2. IInv'
    <3>1. CASE UNCHANGED vars
      <4>1. UNCHANGED <<slices, loading, error, reading, results, cache, file>> /\ SameCalls
            /\ UNCHANGED <<loadedParts, pc, read, active, stopAsync, mainPc>>
        BY <3>1 DEF vars, streaming, shared, cacheSide, mainSide, SameCalls
      <4>2. ThreadsOK'
        BY <4>1 DEF IInv, ThreadsOK, SameCalls
      <4> QED BY <4>1, <4>2, SameMemoryOK
    <3>2. CASE ReceiveFirst \/ ReceiveAgain
      BY <3>2, ReceiveStepOK
    <3>3. CASE StartWaiting \/ ClearWaiting \/ Acquire \/ CacheLoadsWaiting \/ CacheReleases
               \/ HandlerLoadsWaiting \/ HandlerReleases \/ Interrupt
      BY <3>3, WaitStepsOK
    <3>4. CASE (\E r \in Reads : Read(r)) \/ Finish
      BY <3>4, ReadStepsOK
    <3>5. CASE HeaderRead
      BY <3>5, HeaderReadOK
    <3>6. CASE \E r \in reading : CacheAnswers(r)
      BY <3>6, CacheAnswersOK
    <3>7. CASE LoaderCalled
      BY <3>7, LoaderCalledOK
    <3>8. CASE \E part \in requested : PartArrives(part) \/ LoadFails(part)
      BY <3>8, BroughtOK
    <3>9. CASE Stop \/ StopAsync
      BY <3>9, StopStepsOK
    <3>10. CASE Start
      BY <3>10, StartOK
    <3> QED BY <1>3, <3>1, <3>2, <3>3, <3>4, <3>5, <3>6, <3>7, <3>8, <3>9, <3>10
            DEF Next, StreamingThread, CacheThread, Handler
  <2> QED BY <2>1, <2>2 DEF Grows
<1> QED BY <1>1, <1>2, <1>3

\* Every state of a reader that found the cache in order, of its threads and of
\* its cache satisfies IInv.
THEOREM Invariance == LeftInOrder(cache) /\ Spec => []IInv
<1>1. Init /\ LeftInOrder(cache) => IInv
  BY InitOK
<1>2. IInv /\ [Next]_vars => IInv'
  BY StepOK
<1> QED BY <1>1, <1>2, PTL DEF Spec

\* From a cache in order, no Expects or Assert of media_streaming_reader.cpp
\* fails, however parts, entries, stops and starts meet.
THEOREM NothingFails == LeftInOrder(cache) /\ Spec => []Asserted
<1>1. IInv => Asserted
  BY DEF IInv, MemoryOK, HalfOK, Asserted
<1> QED BY <1>1, Invariance, PTL

\* From a cache in order, what is in _loadingOffsets is on its way while the file
\* plays: no read waits for a part that nobody will bring.
THEOREM LoadsAreComing == LeftInOrder(cache) /\ Spec => []LoadingIsComing
<1>1. IInv => LoadingIsComing
  <2> SUFFICES ASSUME IInv, error = "none", NEW p \in loading
               PROVE  \/ p \in requested \union ToSet(loadedParts)
                      \/ \E call \in ToSet(posted) : call.op = "load" /\ p \in call.parts
                      \/ Failed \in ToSet(loadedParts)
    BY DEF LoadingIsComing
  <2>1. Coming(p)
    BY DEF IInv
  <2>2. CASE LastCall(p)
    <3>1. PICK k \in DOMAIN posted : p \in posted[k].parts /\ posted[k].op = "load"
      BY <2>2 DEF LastCall
    <3>2. posted[k] \in ToSet(posted)
      BY DEF ToSet
    <3> QED BY <3>1, <3>2
  <2> QED BY <2>1, <2>2 DEF Coming
<1> QED BY <1>1, Invariance, PTL

\* Nothing is loaded from the cloud that the entry of its slice has, by a reader
\* that found the cache as a destroyed one leaves it.  Over entries of slices
\* without a header this fails: headerDone() counts the slices as read.
THEOREM SavedIsNotLoaded == LeftInOrder(cache) /\ Spec => []LoadsOnlyMissing
<1>1. IInv => LoadsOnlyMissing
  <2> SUFFICES ASSUME IInv, slices.mode # "Unknown", NEW p \in loading
               PROVE  p \notin EntryOf(IndexOf(p))
    BY DEF LoadsOnlyMissing
  <2>1. /\ p \in Parts /\ p \notin Saved(slices, cache, IndexOf(p))
        /\ cache.header \subseteq slices.header.parts
    BY DEF IInv, MemoryOK, HalfOK, Lacking, KnownOK
  <2>2. p \in Within(IndexOf(p))
    BY <2>1, IndexIn
  <2> QED BY <2>1, <2>2 DEF EntryOf, Saved
<1> QED BY <1>1, Invariance, PTL

\* A slice is only saved over its entry with all that the entry had, by a reader
\* that found the cache as a destroyed one leaves it.  Over entries of slices
\* without a header, as the end of the application may leave them, it fails.
THEOREM SavesGrow == LeftInOrder(cache) /\ Spec => EntriesGrow
<1>1. IInv /\ [Next]_vars =>
         [/\ cache.header \subseteq cache'.header /\ cache.first \subseteq cache'.first
          /\ \A i \in Indices : cache.slice[i] \subseteq cache'.slice[i]]_vars
  BY StepOK DEF Grows
<1> QED BY <1>1, Invariance, PTL DEF Spec, EntriesGrow

\* finalizeCache() of ~Reader() keeps the cache in order: the next reader finds
\* it as this one did.
THEOREM LeavesInOrder == LeftInOrder(cache) /\ Spec => [](file = "destroyed" => LeftInOrder(cache))
<1>1. IInv => (file = "destroyed" => LeftInOrder(cache))
  BY DEF IInv
<1> QED BY <1>1, Invariance, PTL
=============================================================================
