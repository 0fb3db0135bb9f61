---- MODULE CacheProofs ----
(***************************************************************************)
(* Proofs about PayloadCache, for any processes, episodes, requests,       *)
(* layouts, cache sizes and bounds, with a producer that may rewrite any   *)
(* episode between any two steps.                                          *)
(***************************************************************************)
EXTENDS PayloadCache, SequenceTheorems, TLAPS

----------------------------------------------------------------------------
(* The caches as sequences.                                                *)

UniqueKeys(cache) ==
    \A m, n \in DOMAIN cache : cache[m].key = cache[n].key => m = n

\* A sequence without its n-th element.
LEMMA RemoveAtProperties ==
    ASSUME NEW E, NEW s \in Seq(E), NEW n \in 1..Len(s)
    PROVE  /\ RemoveAt(s, n) \in Seq(E)
           /\ Len(RemoveAt(s, n)) = Len(s) - 1
           /\ \A i \in 1..(Len(s) - 1) :
                  RemoveAt(s, n)[i] = s[IF i < n THEN i ELSE i + 1]
    <1> DEFINE front == SubSeq(s, 1, n - 1)
               rear == SubSeq(s, n + 1, Len(s))
    <1>1. Len(s) \in Nat /\ \A i \in 1..Len(s) : s[i] \in E
        BY ElementOfSeq, LenProperties
    <1>2. /\ front \in Seq(E)
          /\ Len(front) = n - 1
          /\ \A i \in 1..(n - 1) : front[i] = s[i]
        <2>1. \A i \in 1..(n - 1) : s[i] \in E
            BY <1>1
        <2>2. 1 \in Int /\ n - 1 \in Int
            BY <1>1
        <2>3. /\ front \in Seq(E)
              /\ Len(front) = IF 1 <= n - 1 THEN (n - 1) - 1 + 1 ELSE 0
              /\ \A i \in 1..((n - 1) - 1 + 1) : front[i] = s[1 + i - 1]
            BY <2>1, <2>2, SubSeqProperties
        <2> QED BY <1>1, <2>3
    <1>3. /\ rear \in Seq(E)
          /\ Len(rear) = Len(s) - n
          /\ \A i \in 1..(Len(s) - n) : rear[i] = s[n + i]
        <2>1. \A i \in (n + 1)..Len(s) : s[i] \in E
            BY <1>1
        <2>2. n + 1 \in Int /\ Len(s) \in Int
            BY <1>1
        <2>3. /\ rear \in Seq(E)
              /\ Len(rear) = IF n + 1 <= Len(s) THEN Len(s) - (n + 1) + 1 ELSE 0
              /\ \A i \in 1..(Len(s) - (n + 1) + 1) : rear[i] = s[n + 1 + i - 1]
            BY <2>1, <2>2, SubSeqProperties
        <2> QED BY <1>1, <2>3
    <1> HIDE DEF front, rear
    <1>4. /\ front \o rear \in Seq(E)
          /\ Len(front \o rear) = Len(front) + Len(rear)
          /\ \A i \in 1..(Len(front) + Len(rear)) : (front \o rear)[i] =
                 IF i <= Len(front) THEN front[i] ELSE rear[i - Len(front)]
        BY <1>2, <1>3, ConcatProperties
    <1>5. RemoveAt(s, n) = front \o rear
        BY DEF RemoveAt, front, rear
    <1>6. Len(front) + Len(rear) = Len(s) - 1
        BY <1>1, <1>2, <1>3
    <1>7. ASSUME NEW i \in 1..(Len(s) - 1)
          PROVE  RemoveAt(s, n)[i] = s[IF i < n THEN i ELSE i + 1]
        <2>1. CASE i < n
            BY <2>1, <1>1, <1>2, <1>4, <1>5, <1>6
        <2>2. CASE ~(i < n)
            <3>1. i - Len(front) \in 1..(Len(s) - n) /\ ~(i <= Len(front))
                BY <2>2, <1>1, <1>2
            <3>2. RemoveAt(s, n)[i] = rear[i - Len(front)]
                BY <3>1, <1>4, <1>5, <1>6
            <3>3. n + (i - Len(front)) = i + 1
                BY <1>1, <1>2
            <3> QED BY <2>2, <3>1, <3>2, <3>3, <1>3
        <2> QED BY <2>1, <2>2
    <1> QED BY <1>4, <1>5, <1>6, <1>7

\* One element in front.
LEMMA ConsProperties ==
    ASSUME NEW E, NEW s \in Seq(E), NEW x \in E
    PROVE  /\ Cons(x, s) \in Seq(E)
           /\ Len(Cons(x, s)) = Len(s) + 1
           /\ Cons(x, s)[1] = x
           /\ \A i \in 2..(Len(s) + 1) : Cons(x, s)[i] = s[i - 1]
    <1>1. <<x>> \in Seq(E) /\ Len(<<x>>) = 1 /\ <<x>>[1] = x
        OBVIOUS
    <1>2. /\ <<x>> \o s \in Seq(E)
          /\ Len(<<x>> \o s) = Len(<<x>>) + Len(s)
          /\ \A i \in 1..(Len(<<x>>) + Len(s)) : (<<x>> \o s)[i] =
                 IF i <= Len(<<x>>) THEN <<x>>[i] ELSE s[i - Len(<<x>>)]
        BY <1>1, ConcatProperties
    <1>3. Len(s) \in Nat
        BY LenProperties
    <1> QED BY <1>1, <1>2, <1>3 DEF Cons

\* The entry that is found is the one asked for.
LEMMA EntryProperties ==
    ASSUME NEW E, NEW cache \in Seq(E), NEW key, Hit(cache, key)
    PROVE  /\ Entry(cache, key) \in 1..Len(cache)
           /\ cache[Entry(cache, key)] \in E
           /\ cache[Entry(cache, key)].key = key
           /\ Cached(cache, key) = cache[Entry(cache, key)].value
    <1>1. DOMAIN cache = 1..Len(cache)
        BY LenProperties
    <1>2. \E n \in DOMAIN cache : cache[n].key = key
        BY DEF Hit
    <1>3. Entry(cache, key) \in DOMAIN cache /\ cache[Entry(cache, key)].key = key
        BY <1>2 DEF Entry
    <1> QED BY <1>1, <1>3, ElementOfSeq DEF Cached

\* A hit moves an entry to the front and keeps the others.
LEMMA TouchProperties ==
    ASSUME NEW E, NEW cache \in Seq(E), NEW key, Hit(cache, key)
    PROVE  /\ Touch(cache, key) \in Seq(E)
           /\ Len(Touch(cache, key)) = Len(cache)
           /\ UniqueKeys(cache) => UniqueKeys(Touch(cache, key))
    <1> DEFINE n == Entry(cache, key)
               rest == RemoveAt(cache, n)
               touched == Cons(cache[n], rest)
               from(i) == IF i = 1 THEN n ELSE IF i - 1 < n THEN i - 1 ELSE i
    <1>1. n \in 1..Len(cache) /\ cache[n] \in E
        BY EntryProperties
    <1>2. Len(cache) \in Nat /\ DOMAIN cache = 1..Len(cache)
        BY LenProperties
    <1>3. /\ rest \in Seq(E)
          /\ Len(rest) = Len(cache) - 1
          /\ \A i \in 1..(Len(cache) - 1) : rest[i] = cache[IF i < n THEN i ELSE i + 1]
        BY <1>1, RemoveAtProperties
    <1> HIDE DEF rest
    <1>4. /\ touched \in Seq(E)
          /\ Len(touched) = Len(rest) + 1
          /\ touched[1] = cache[n]
          /\ \A i \in 2..(Len(rest) + 1) : touched[i] = rest[i - 1]
        <2> HIDE DEF n
        <2> DEFINE elt == cache[n]
        <2>1. rest \in Seq(E) /\ elt \in E
            BY <1>1, <1>3
        <2> HIDE DEF elt
        <2>2. /\ Cons(elt, rest) \in Seq(E)
              /\ Len(Cons(elt, rest)) = Len(rest) + 1
              /\ Cons(elt, rest)[1] = elt
              /\ \A i \in 2..(Len(rest) + 1) : Cons(elt, rest)[i] = rest[i - 1]
            BY <2>1, ConsProperties
        <2> QED BY <2>2 DEF elt
    <1>5. Touch(cache, key) = touched
        BY DEF Touch, touched, rest, n
    <1>6. DOMAIN touched = 1..Len(cache)
        BY <1>2, <1>3, <1>4, LenProperties
    <1> HIDE DEF touched, n
    <1>7. \A i \in 1..Len(cache) : from(i) \in 1..Len(cache) /\ touched[i] = cache[from(i)]
        <2> TAKE i \in 1..Len(cache)
        <2>1. CASE i = 1
            BY <2>1, <1>1, <1>4
        <2>2. CASE i # 1
            <3>1. i \in 2..(Len(rest) + 1) /\ i - 1 \in 1..(Len(cache) - 1)
                BY <2>2, <1>2, <1>3
            <3>2. touched[i] = cache[IF i - 1 < n THEN i - 1 ELSE (i - 1) + 1]
                BY <3>1, <1>3, <1>4
            <3>3. (i - 1) + 1 = i
                BY <3>1
            <3> QED BY <2>2, <3>1, <3>2, <3>3, <1>1, <1>2
        <2> QED BY <2>1, <2>2
    <1>8. \A i, j \in 1..Len(cache) : from(i) = from(j) => i = j
        BY <1>1, <1>2
    <1>9. ASSUME UniqueKeys(cache)
          PROVE  UniqueKeys(touched)
        <2> SUFFICES ASSUME NEW i \in 1..Len(cache), NEW j \in 1..Len(cache),
                            touched[i].key = touched[j].key
                     PROVE  i = j
            BY <1>6 DEF UniqueKeys
        <2>1. cache[from(i)].key = cache[from(j)].key
            BY <1>7
        <2>2. from(i) = from(j)
            BY <2>1, <1>2, <1>7, <1>9 DEF UniqueKeys
        <2> QED BY <2>2, <1>8
    <1> QED BY <1>3, <1>4, <1>5, <1>9, <1>2

\* A miss puts an entry in front and evicts the last one of a full cache.
LEMMA InsertProperties ==
    ASSUME NEW E, NEW cache \in Seq(E), NEW size \in Nat \ {0}, NEW key, NEW value,
           [key |-> key, value |-> value] \in E
    PROVE  /\ Insert(cache, size, key, value) \in Seq(E)
           /\ Len(cache) <= size => Len(Insert(cache, size, key, value)) <= size
           /\ UniqueKeys(cache) /\ ~Hit(cache, key) =>
                  UniqueKeys(Insert(cache, size, key, value))
    <1> DEFINE x == [key |-> key, value |-> value]
               kept == IF Len(cache) = size THEN Front(cache) ELSE cache
               grown == Cons(x, kept)
    <1>1. Len(cache) \in Nat /\ DOMAIN cache = 1..Len(cache)
        BY LenProperties
    <1>2. /\ kept \in Seq(E)
          /\ Len(kept) = IF Len(cache) = size THEN size - 1 ELSE Len(cache)
          /\ \A i \in 1..Len(kept) : i \in 1..Len(cache) /\ kept[i] = cache[i]
        <2>1. CASE Len(cache) = size
            <3>1. \A i \in 1..(Len(cache) - 1) : cache[i] \in E
                BY <1>1, ElementOfSeq
            <3>2. 1 \in Int /\ Len(cache) - 1 \in Int
                BY <1>1
            <3>3. /\ SubSeq(cache, 1, Len(cache) - 1) \in Seq(E)
                  /\ Len(SubSeq(cache, 1, Len(cache) - 1)) =
                         IF 1 <= Len(cache) - 1 THEN (Len(cache) - 1) - 1 + 1 ELSE 0
                  /\ \A i \in 1..((Len(cache) - 1) - 1 + 1) :
                         SubSeq(cache, 1, Len(cache) - 1)[i] = cache[1 + i - 1]
                BY <3>1, <3>2, SubSeqProperties
            <3>4. kept = SubSeq(cache, 1, Len(cache) - 1)
                BY <2>1 DEF Front
            <3>5. Len(kept) = size - 1
                BY <2>1, <3>3, <3>4
            <3> HIDE DEF kept
            <3>6. \A i \in 1..Len(kept) : i \in 1..Len(cache) /\ kept[i] = cache[i]
                BY <2>1, <1>1, <3>3, <3>4, <3>5
            <3> QED BY <2>1, <3>3, <3>4, <3>5, <3>6
        <2>2. CASE Len(cache) # size
            BY <2>2, <1>1
        <2> QED BY <2>1, <2>2
    <1> HIDE DEF kept
    <1>3. /\ grown \in Seq(E)
          /\ Len(grown) = Len(kept) + 1
          /\ grown[1] = x
          /\ \A i \in 2..(Len(kept) + 1) : grown[i] = kept[i - 1]
        <2>1. kept \in Seq(E) /\ x \in E
            BY <1>2
        <2> HIDE DEF x
        <2> QED BY <2>1, ConsProperties
    <1>4. Insert(cache, size, key, value) = grown
        BY DEF Insert, grown, kept, x
    <1>5. DOMAIN grown = 1..Len(grown)
        BY <1>3, LenProperties
    <1> HIDE DEF grown
    <1>6. Len(cache) <= size => Len(grown) <= size
        <2>1. /\ Len(kept) = IF Len(cache) = size THEN size - 1 ELSE Len(cache)
              /\ Len(grown) = Len(kept) + 1
            BY <1>2, <1>3
        <2>2. Len(cache) \in Nat /\ size \in Nat
            BY <1>1
        <2> QED BY <2>1, <2>2
    <1>7. Len(kept) \in Nat
        BY <1>2, LenProperties
    <1>8. ASSUME UniqueKeys(cache), ~Hit(cache, key)
          PROVE  UniqueKeys(grown)
        <2>1. \A i \in 2..Len(grown) : i - 1 \in 1..Len(cache) /\ grown[i] = cache[i - 1]
            BY <1>2, <1>3, <1>7
        <2>2. \A i \in 2..Len(grown) : grown[i].key # key
            BY <2>1, <1>1, <1>8 DEF Hit
        <2> SUFFICES ASSUME NEW i \in 1..Len(grown), NEW j \in 1..Len(grown),
                            grown[i].key = grown[j].key
                     PROVE  i = j
            BY <1>5 DEF UniqueKeys
        <2>3. x.key = key
            OBVIOUS
        <2>4. i = 1 <=> j = 1
            BY <2>2, <2>3, <1>3, <1>7
        <2>5. CASE i # 1
            <3>1. cache[i - 1].key = cache[j - 1].key
                BY <2>1, <2>4, <2>5, <1>3, <1>7
            <3>2. i - 1 \in DOMAIN cache /\ j - 1 \in DOMAIN cache
                BY <2>1, <2>4, <2>5, <1>1, <1>3, <1>7
            <3>3. i - 1 = j - 1
                BY <3>1, <3>2, <1>8 DEF UniqueKeys
            <3> QED BY <3>3, <1>3, <1>7
        <2> QED BY <2>4, <2>5
    <1> QED BY <1>3, <1>4, <1>6, <1>8

----------------------------------------------------------------------------
(* The inductive invariant.                                                *)

SchemaEntries == [key : Episodes, value : AllLayouts]

\* A cached array is of the path and the columns it is cached under.
ColumnEntries ==
    {x \in [key : Episodes \X Columns, value : Arrays] :
        x.value.episode = x.key[1] /\ x.value.columns = x.key[2]}

TopicEntries ==
    {x \in [key : Episodes \X Kinds, value : Arrays] :
        /\ x.value.episode = x.key[1]
        /\ x.value.columns = <<x.key[2], "topic">> /\ x.value.declared = x.value.columns}

Places == {"idle", "stream", "schema", "columns", "topic"}

StateTypes ==
    /\ disk \in [Episodes -> {Absent, Torn} \cup [version : Nat, layout : AllLayouts]]
    /\ versions \in [Episodes -> Nat]
    /\ pc \in [Processes -> Places]
    /\ request \in [Processes -> Requests \cup {Absent}]
    /\ arrays \in [Processes -> Seq(Arrays)]
    /\ info \in [Processes -> AllLayouts \cup {Absent}]
    /\ schemas \in [Processes -> Seq(SchemaEntries)]
    /\ columns \in [Processes -> Seq(ColumnEntries)]
    /\ topics \in [Processes -> Seq(TopicEntries)]
    /\ calls \in 0..MaxCalls

DiskIsLatest ==
    \A e \in Episodes :
        /\ versions[e] <= MaxVersion[e]
        /\ disk[e] = Torn => versions[e] < MaxVersion[e]
        /\ Whole(e) => disk[e] \in [version : {versions[e]}, layout : Layouts[e]]

Bounded(cache, size) == Len(cache) <= size /\ UniqueKeys(cache)

CachesBounded ==
    \A p \in Processes : /\ Bounded(schemas[p], SchemaSize)
                         /\ Bounded(columns[p], ColumnsSize)
                         /\ Bounded(topics[p], TopicSize)

\* The array of the n-th stream of q.
Right(q, n, array) ==
    LET key == q.streams[n]
    IN  /\ HasSource(q, key)
        /\ array.episode = SourceOf(q, key)
        /\ array.columns[1] = KindOf[key]

\* The arrays so far are those of the first streams; a resolver is at work
\* for the next one only, and there is one.
CallInProgress(p) ==
    /\ request[p] \in Requests
    /\ Len(arrays[p]) <= Len(request[p].streams)
    /\ \A n \in 1..Len(arrays[p]) : Right(request[p], n, arrays[p][n])
    /\ pc[p] # "stream" =>
           Len(arrays[p]) < Len(request[p].streams) /\ HasSource(request[p], Key(p))
    /\ pc[p] = "columns" => info[p] \in AllLayouts

CallsInProgress ==
    \A p \in Processes : IF pc[p] = "idle" THEN arrays[p] = <<>> ELSE CallInProgress(p)

CacheInv == StateTypes /\ DiskIsLatest /\ CachesBounded /\ CallsInProgress

\* A cache stays one, whether it is hit or missed.
LEMMA TouchKeeps ==
    ASSUME NEW E, NEW cache \in Seq(E), NEW size, NEW key, Bounded(cache, size), Hit(cache, key)
    PROVE  Touch(cache, key) \in Seq(E) /\ Bounded(Touch(cache, key), size)
    BY TouchProperties DEF Bounded

LEMMA InsertKeeps ==
    ASSUME NEW E, NEW cache \in Seq(E), NEW size \in Nat \ {0}, NEW key, NEW value,
           Bounded(cache, size), ~Hit(cache, key), [key |-> key, value |-> value] \in E
    PROVE  /\ Insert(cache, size, key, value) \in Seq(E)
           /\ Bounded(Insert(cache, size, key, value), size)
    BY InsertProperties DEF Bounded

----------------------------------------------------------------------------
(* Sources and columns.                                                    *)

LEMMA LayoutsType ==
    /\ AllLayouts \subseteq LayoutType
    /\ Absent \notin Requests
    /\ Absent \notin AllLayouts
    /\ \A e \in Episodes : Layouts[e] \subseteq AllLayouts
    <1>1. Layouts \in [Episodes -> SUBSET LayoutType]
        BY CacheAssumption
    <1>2. Absent \notin Requests \cup UNION {Layouts[e] : e \in Episodes}
        BY CacheAssumption
    <1> QED BY <1>1, <1>2 DEF AllLayouts

LEMMA RequestType ==
    ASSUME NEW q \in Requests
    PROVE  /\ q.streams \in Seq(Keys)
           /\ Len(q.streams) \in Nat
           /\ \A n \in 1..Len(q.streams) : q.streams[n] \in Keys
    <1>1. q.streams \in Seq(Keys)
        BY CacheAssumption DEF IsRequest
    <1> QED BY <1>1, LenProperties, ElementOfSeq

LEMMA MergedType ==
    ASSUME NEW q \in Requests
    PROVE  /\ DOMAIN Merged(q) = DOMAIN q.refs \cup DOMAIN q.sources
           /\ DOMAIN q.refs \subseteq Keys
           /\ \A k \in DOMAIN Merged(q) :
                  /\ Merged(q)[k] = IF k \in DOMAIN q.sources THEN q.sources[k] ELSE q.refs[k]
                  /\ Merged(q)[k] \in Episodes
    <1>1. IsRequest(q)
        BY CacheAssumption
    <1>2. PICK K \in SUBSET Keys : q.refs \in [K -> Episodes]
        BY <1>1 DEF IsRequest
    <1>3. PICK L \in SUBSET Sources : q.sources \in [L -> Episodes]
        BY <1>1 DEF IsRequest
    <1> QED BY <1>2, <1>3 DEF Merged

LEMMA SourceType ==
    ASSUME NEW q \in Requests, NEW key, HasSource(q, key)
    PROVE  SourceOf(q, key) \in Episodes
    BY MergedType DEF HasSource, SourceOf

\* What is asked of a file are columns of the kind asked for.
LEMMA ColumnsForType ==
    ASSUME NEW kind \in Kinds, NEW layout \in AllLayouts
    PROVE  ColumnsFor(kind, layout) \in Columns /\ ColumnsFor(kind, layout)[1] = kind
    <1>1. layout.ids \in [Kinds -> Orders \cup {NoIds}]
        BY LayoutsType DEF LayoutType
    <1>2. CASE ColumnsFor(kind, layout) = Legacy(kind)
        BY <1>2 DEF Legacy, Columns
    <1>3. CASE ColumnsFor(kind, layout) # Legacy(kind)
        <2>1. ColumnsFor(kind, layout) = Canonical(kind, layout) /\ layout.ids[kind] # NoIds
            BY <1>3 DEF ColumnsFor
        <2>2. layout.ids[kind] \in Orders
            BY <1>1, <2>1
        <2> QED BY <2>1, <2>2 DEF Canonical, Columns
    <1> QED BY <1>2, <1>3

LEMMA KindType == ASSUME NEW key \in Keys PROVE KindOf[key] \in Kinds
    BY DEF Kinds

----------------------------------------------------------------------------
(* One lemma for each group of actions.                                    *)

LEMMA InitInv == Init => CacheInv
    <1> SUFFICES ASSUME Init PROVE CacheInv
        OBVIOUS
    <1>1. MaxCalls \in Nat /\ \A e \in Episodes : MaxVersion[e] \in Nat
        BY CacheAssumption
    <1>2. StateTypes
        <2>1. <<>> \in Seq(Arrays) /\ <<>> \in Seq(SchemaEntries)
              /\ <<>> \in Seq(ColumnEntries) /\ <<>> \in Seq(TopicEntries)
            BY EmptySeq
        <2>2. 0 \in 0..MaxCalls
            BY <1>1
        <2> QED BY <2>1, <2>2 DEF Init, StateTypes, Places
    <1>3. DiskIsLatest
        <2>1. \A e \in Episodes : disk[e] = Absent /\ versions[e] = 0
            BY DEF Init
        <2>2. Absent # Torn
            BY CacheAssumption
        <2> QED BY <1>1, <2>1, <2>2 DEF DiskIsLatest, Whole
    <1>4. CachesBounded
        <2>1. Len(<<>>) = 0 /\ UniqueKeys(<<>>)
            BY DEF UniqueKeys
        <2>2. SchemaSize \in Nat /\ ColumnsSize \in Nat /\ TopicSize \in Nat
            BY CacheAssumption
        <2> QED BY <2>1, <2>2 DEF Init, CachesBounded, Bounded
    <1>5. CallsInProgress
        BY DEF Init, CallsInProgress
    <1> QED BY <1>2, <1>3, <1>4, <1>5 DEF CacheInv

\* A step that concerns process p alone.
LEMMA OthersGoOn ==
    ASSUME CallsInProgress, NEW p \in Processes,
           \A r \in Processes \ {p} :
               /\ pc'[r] = pc[r] /\ request'[r] = request[r]
               /\ arrays'[r] = arrays[r] /\ info'[r] = info[r],
           IF pc'[p] = "idle" THEN arrays'[p] = <<>> ELSE CallInProgress(p)'
    PROVE  CallsInProgress'
    <1> SUFFICES ASSUME NEW r \in Processes, r # p
                 PROVE  IF pc'[r] = "idle" THEN arrays'[r] = <<>> ELSE CallInProgress(r)'
        BY DEF CallsInProgress
    <1>1. IF pc[r] = "idle" THEN arrays[r] = <<>> ELSE CallInProgress(r)
        BY DEF CallsInProgress
    <1>2. CallInProgress(r) => CallInProgress(r)'
        BY DEF CallInProgress, Key
    <1> QED BY <1>1, <1>2

LEMMA BeginEpisodeKeepsInv ==
    ASSUME CacheInv, NEW e \in Episodes, BeginEpisode(e)
    PROVE  CacheInv'
    <1> USE DEF BeginEpisode, call, caches
    <1>1. StateTypes'
        BY DEF CacheInv, StateTypes
    <1>2. DiskIsLatest'
        BY DEF CacheInv, DiskIsLatest, StateTypes, Whole
    <1>3. CachesBounded'
        BY DEF CacheInv, CachesBounded
    <1>4. CallsInProgress'
        BY DEF CacheInv, CallsInProgress, CallInProgress, Key
    <1> QED BY <1>1, <1>2, <1>3, <1>4 DEF CacheInv

LEMMA FinishEpisodeKeepsInv ==
    ASSUME CacheInv, NEW e \in Episodes, FinishEpisode(e)
    PROVE  CacheInv'
    <1> USE DEF FinishEpisode, call, caches
    <1>1. PICK layout \in Layouts[e] :
              disk' = [disk EXCEPT ![e] = [version |-> versions[e] + 1, layout |-> layout]]
        OBVIOUS
    <1>2. layout \in AllLayouts /\ layout \in LayoutType
        BY LayoutsType
    <1>3. versions[e] \in Nat /\ MaxVersion[e] \in Nat /\ versions[e] < MaxVersion[e]
        BY CacheAssumption DEF CacheInv, StateTypes, DiskIsLatest
    <1>4. StateTypes'
        BY <1>1, <1>2, <1>3 DEF CacheInv, StateTypes
    <1>5. DiskIsLatest'
        <2> SUFFICES ASSUME NEW d \in Episodes
                     PROVE  /\ versions'[d] <= MaxVersion[d]
                            /\ disk'[d] = Torn => versions'[d] < MaxVersion[d]
                            /\ Whole(d)' => disk'[d] \in [version : {versions'[d]},
                                                          layout : Layouts[d]]
            BY DEF DiskIsLatest
        <2>1. CASE d = e
            <3>1. /\ disk'[d] = [version |-> versions[e] + 1, layout |-> layout]
                  /\ versions'[d] = versions[e] + 1
                BY <1>1, <2>1 DEF CacheInv, StateTypes
            <3>2. disk'[d] \in [version : Nat, layout : LayoutType]
                BY <3>1, <1>2, <1>3
            <3>3. disk'[d] # Torn
                BY <3>2, CacheAssumption
            <3> QED BY <2>1, <3>1, <3>3, <1>3
        <2>2. CASE d # e
            BY <2>2, <1>1 DEF CacheInv, StateTypes, DiskIsLatest, Whole
        <2> QED BY <2>1, <2>2
    <1>6. CachesBounded'
        BY DEF CacheInv, CachesBounded
    <1>7. CallsInProgress'
        BY DEF CacheInv, CallsInProgress, CallInProgress, Key
    <1> QED BY <1>4, <1>5, <1>6, <1>7 DEF CacheInv

LEMMA CallKeepsInv ==
    ASSUME CacheInv, NEW p \in Processes, Call(p)
    PROVE  CacheInv'
    <1> USE DEF Call, Goto, caches
    <1>1. PICK q \in Requests : request' = [request EXCEPT ![p] = q]
        OBVIOUS
    <1>2. StateTypes'
        <2>1. calls' \in 0..MaxCalls
            <3>1. MaxCalls \in Nat
                BY CacheAssumption
            <3>2. calls \in 0..MaxCalls /\ calls < MaxCalls /\ calls' = calls + 1
                BY DEF CacheInv, StateTypes
            <3> QED BY <3>1, <3>2
        <2> QED BY <1>1, <2>1 DEF CacheInv, StateTypes, Places
    <1>3. DiskIsLatest' /\ CachesBounded'
        BY DEF CacheInv, DiskIsLatest, Whole, CachesBounded
    <1>4. CallsInProgress'
        <2>1. pc'[p] = "stream" /\ request'[p] = q /\ arrays'[p] = <<>>
            BY <1>1 DEF CacheInv, StateTypes, CallsInProgress
        <2>2. CallInProgress(p)'
            <3>1. Len(<<>>) = 0 /\ Len(q.streams) \in Nat
                BY RequestType
            <3> QED BY <2>1, <3>1 DEF CallInProgress
        <2> QED BY <1>1, <2>1, <2>2, OthersGoOn DEF CacheInv, StateTypes
    <1> QED BY <1>2, <1>3, <1>4 DEF CacheInv

\* Whatever ends a call: the caches are as before or cold.
LEMMA LeaveKeepsInv ==
    ASSUME CacheInv, NEW p \in Processes, Leave(p),
           UNCHANGED <<disk, versions, calls>>,
           \/ UNCHANGED caches
           \/ /\ schemas' = [schemas EXCEPT ![p] = <<>>]
              /\ columns' = [columns EXCEPT ![p] = <<>>]
              /\ topics' = [topics EXCEPT ![p] = <<>>]
    PROVE  CacheInv'
    <1> USE DEF Leave, Goto, caches
    <1>1. StateTypes'
        <2>1. <<>> \in Seq(Arrays) /\ <<>> \in Seq(SchemaEntries)
              /\ <<>> \in Seq(ColumnEntries) /\ <<>> \in Seq(TopicEntries)
            BY EmptySeq
        <2> QED BY <2>1 DEF CacheInv, StateTypes, Places
    <1>2. DiskIsLatest'
        BY DEF CacheInv, DiskIsLatest, Whole
    <1>3. CachesBounded'
        <2>1. Len(<<>>) = 0 /\ UniqueKeys(<<>>)
            BY DEF UniqueKeys
        <2>2. SchemaSize \in Nat /\ ColumnsSize \in Nat /\ TopicSize \in Nat
            BY CacheAssumption
        <2>3. Bounded(<<>>, SchemaSize) /\ Bounded(<<>>, ColumnsSize) /\ Bounded(<<>>, TopicSize)
            BY <2>1, <2>2 DEF Bounded
        <2>4. CASE UNCHANGED caches
            BY <2>4 DEF CacheInv, CachesBounded
        <2>5. CASE ~UNCHANGED caches
            BY <2>3, <2>5 DEF CacheInv, CachesBounded, StateTypes
        <2> QED BY <2>4, <2>5
    <1>4. CallsInProgress'
        BY OthersGoOn DEF CacheInv, StateTypes
    <1> QED BY <1>1, <1>2, <1>3, <1>4 DEF CacheInv

LEMMA LocateKeepsInv ==
    ASSUME CacheInv, NEW p \in Processes, Locate(p)
    PROVE  CacheInv'
    <1> DEFINE found == /\ HasSource(request[p], Key(p))
                        /\ SchemeOf[Episode(p)] # "none"
                        /\ disk[Episode(p)] # Absent
    <1>1. CASE found
        <2> USE <1>1 DEF Locate, Goto, caches
        <2>1. StateTypes'
            BY DEF CacheInv, StateTypes, Places
        <2>2. DiskIsLatest' /\ CachesBounded'
            BY DEF CacheInv, DiskIsLatest, Whole, CachesBounded
        <2>3. CallsInProgress'
            <3>1. CallInProgress(p)
                BY DEF CacheInv, CallsInProgress
            <3>2. pc'[p] \in {"schema", "topic"}
                BY DEF CacheInv, StateTypes
            <3>3. CallInProgress(p)'
                BY <3>1, <3>2 DEF CallInProgress, Key
            <3> QED BY <3>2, <3>3, OthersGoOn DEF CacheInv, StateTypes
        <2> QED BY <2>1, <2>2, <2>3 DEF CacheInv
    <1>2. CASE ~found
        BY <1>2, LeaveKeepsInv DEF Locate, Raise
    <1> QED BY <1>1, <1>2

\* What is at work for a stream: the stream, its source, and its kind.
LEMMA AtWork ==
    ASSUME CacheInv, NEW p \in Processes, pc[p] \in {"schema", "columns", "topic"}
    PROVE  /\ request[p] \in Requests
           /\ Len(arrays[p]) \in Nat
           /\ Len(arrays[p]) + 1 \in 1..Len(request[p].streams)
           /\ Key(p) \in Keys
           /\ KindOf[Key(p)] \in Kinds
           /\ HasSource(request[p], Key(p))
           /\ Episode(p) \in Episodes
    <1>1. CallInProgress(p)
        BY DEF CacheInv, CallsInProgress
    <1>2. request[p] \in Requests /\ HasSource(request[p], Key(p))
        BY <1>1 DEF CallInProgress
    <1>3. Len(arrays[p]) \in Nat
        BY LenProperties DEF CacheInv, StateTypes
    <1>4. Len(arrays[p]) + 1 \in 1..Len(request[p].streams)
        BY <1>1, <1>2, <1>3, RequestType DEF CallInProgress
    <1>5. Key(p) \in Keys
        BY <1>2, <1>4, RequestType DEF Key
    <1> QED BY <1>2, <1>3, <1>4, <1>5, KindType, SourceType DEF Episode

\* The loop of project() takes an array that is right for its stream.
LEMMA ServeKeepsInv ==
    ASSUME CacheInv, NEW p \in Processes, pc[p] \in {"columns", "topic"},
           NEW array \in Arrays, Serve(p, array),
           Right(request[p], Len(arrays[p]) + 1, array),
           columns' \in [Processes -> Seq(ColumnEntries)],
           topics' \in [Processes -> Seq(TopicEntries)],
           \A r \in Processes : Bounded(columns'[r], ColumnsSize) /\ Bounded(topics'[r], TopicSize)
    PROVE  CacheInv'
    <1> USE DEF Serve, Goto
    <1>1. arrays[p] \in Seq(Arrays)
        BY DEF CacheInv, StateTypes
    <1>2. /\ Append(arrays[p], array) \in Seq(Arrays)
          /\ Len(Append(arrays[p], array)) = Len(arrays[p]) + 1
          /\ \A i \in 1..Len(arrays[p]) : Append(arrays[p], array)[i] = arrays[p][i]
          /\ Append(arrays[p], array)[Len(arrays[p]) + 1] = array
        BY <1>1, AppendProperties
    <1>3. StateTypes'
        BY <1>2 DEF CacheInv, StateTypes, Places
    <1>4. DiskIsLatest'
        BY DEF CacheInv, DiskIsLatest, Whole
    <1>5. CachesBounded'
        BY DEF CacheInv, CachesBounded
    <1>6. CallsInProgress'
        <2>1. /\ pc'[p] = "stream" /\ request'[p] = request[p]
              /\ arrays'[p] = Append(arrays[p], array)
            BY DEF CacheInv, StateTypes
        <2>2. CallInProgress(p)
            BY DEF CacheInv, CallsInProgress
        <2>3. Len(arrays[p]) + 1 \in 1..Len(request[p].streams) /\ Len(arrays[p]) \in Nat
            BY AtWork
        <2>4. ASSUME NEW n \in 1..Len(arrays'[p])
              PROVE  Right(request[p], n, arrays'[p][n])
            <3>1. CASE n \in 1..Len(arrays[p])
                BY <3>1, <1>2, <2>1, <2>2 DEF CallInProgress
            <3>2. CASE n \notin 1..Len(arrays[p])
                <4>1. n = Len(arrays[p]) + 1
                    BY <3>2, <1>2, <2>1, <2>3
                <4> QED BY <4>1, <1>2, <2>1
            <3> QED BY <3>1, <3>2
        <2>5. CallInProgress(p)'
            BY <1>2, <2>1, <2>2, <2>3, <2>4 DEF CallInProgress
        <2> QED BY <2>1, <2>5, OthersGoOn DEF CacheInv, StateTypes
    <1> QED BY <1>3, <1>4, <1>5, <1>6 DEF CacheInv

LEMMA ReadSchemaKeepsInv ==
    ASSUME CacheInv, NEW p \in Processes, ReadSchema(p)
    PROVE  CacheInv'
    <1> DEFINE e == Episode(p)
               cache == schemas[p]
    <1>1. pc[p] = "schema"
        BY DEF ReadSchema
    <1>2. /\ e \in Episodes
          /\ cache \in Seq(SchemaEntries)
          /\ Bounded(cache, SchemaSize)
          /\ SchemaSize \in Nat \ {0}
        BY <1>1, AtWork, CacheAssumption DEF CacheInv, StateTypes, CachesBounded
    <1>3. ASSUME NEW layout \in AllLayouts, NEW new \in Seq(SchemaEntries),
                 Bounded(new, SchemaSize),
                 schemas' = [schemas EXCEPT ![p] = new],
                 info' = [info EXCEPT ![p] = layout], Goto(p, "columns"),
                 UNCHANGED <<disk, versions, request, arrays, before, warm, columns,
                             topics, results, calls>>
          PROVE  CacheInv'
        <2> USE <1>3 DEF Goto
        <2>1. StateTypes'
            BY DEF CacheInv, StateTypes, Places
        <2>2. DiskIsLatest'
            BY DEF CacheInv, DiskIsLatest, Whole
        <2>3. CachesBounded'
            BY DEF CacheInv, CachesBounded, StateTypes
        <2>4. CallsInProgress'
            <3>1. CallInProgress(p)
                BY <1>1 DEF CacheInv, CallsInProgress
            <3>2. pc'[p] = "columns" /\ info'[p] = layout
                BY DEF CacheInv, StateTypes
            <3>3. CallInProgress(p)'
                BY <1>1, <3>1, <3>2 DEF CallInProgress, Key
            <3> QED BY <3>2, <3>3, OthersGoOn DEF CacheInv, StateTypes
        <2> QED BY <2>1, <2>2, <2>3, <2>4 DEF CacheInv
    <1>4. CASE Hit(cache, e) /\ schemas' = [schemas EXCEPT ![p] = Touch(cache, e)]
        <2>1. cache \in Seq(SchemaEntries) /\ Bounded(cache, SchemaSize) /\ Hit(cache, e)
            BY <1>2, <1>4
        <2>2. /\ Touch(cache, e) \in Seq(SchemaEntries)
              /\ Bounded(Touch(cache, e), SchemaSize)
            <3> HIDE DEF cache, e
            <3> QED BY <2>1, TouchKeeps
        <2>3. Cached(cache, e) \in AllLayouts
            <3> HIDE DEF cache, e
            <3>1. /\ cache[Entry(cache, e)] \in SchemaEntries
                  /\ Cached(cache, e) = cache[Entry(cache, e)].value
                BY <2>1, EntryProperties
            <3> QED BY <3>1 DEF SchemaEntries
        <2> QED BY <1>1, <1>3, <1>4, <2>2, <2>3 DEF ReadSchema
    <1>5. CASE ~Hit(cache, e) /\ Whole(e)
        <2>1. disk[e].layout \in AllLayouts
            BY <1>2, <1>5, LayoutsType DEF CacheInv, DiskIsLatest
        <2>2. [key |-> e, value |-> disk[e].layout] \in SchemaEntries
            BY <1>2, <2>1 DEF SchemaEntries
        <2>3. /\ Insert(cache, SchemaSize, e, disk[e].layout) \in Seq(SchemaEntries)
              /\ Bounded(Insert(cache, SchemaSize, e, disk[e].layout), SchemaSize)
            BY <1>2, <1>5, <2>2, InsertKeeps
        <2> QED BY <1>1, <1>3, <1>5, <2>1, <2>3 DEF ReadSchema
    <1>6. CASE Raise(p)
        BY <1>6, LeaveKeepsInv DEF Raise
    <1> QED BY <1>4, <1>5, <1>6 DEF ReadSchema

LEMMA ReadColumnsKeepsInv ==
    ASSUME CacheInv, NEW p \in Processes, ReadColumns(p)
    PROVE  CacheInv'
    <1> DEFINE e == Episode(p)
               cols == Asked(p)
               cache == columns[p]
               key == ColumnsKey(e, cols)
               declared == ColumnsFor(KindOf[Key(p)], disk[e].layout)
               array == ArrayOf(e, cols, declared)
    <1>1. pc[p] = "columns"
        BY DEF ReadColumns
    <1>2. /\ e \in Episodes
          /\ cache \in Seq(ColumnEntries)
          /\ Bounded(cache, ColumnsSize)
          /\ ColumnsSize \in Nat \ {0}
        BY <1>1, AtWork, CacheAssumption DEF CacheInv, StateTypes, CachesBounded
    <1>3. cols \in Columns /\ cols[1] = KindOf[Key(p)]
        <2>1. info[p] \in AllLayouts
            BY <1>1 DEF CacheInv, CallsInProgress, CallInProgress
        <2> QED BY <1>1, <2>1, AtWork, ColumnsForType DEF Asked
    <1>4. ASSUME NEW a \in Arrays, a.episode = e, a.columns = cols,
                 NEW new \in Seq(ColumnEntries), Bounded(new, ColumnsSize),
                 columns' = [columns EXCEPT ![p] = new],
                 Serve(p, a), UNCHANGED topics
          PROVE  CacheInv'
        <2>1. Right(request[p], Len(arrays[p]) + 1, a)
            BY <1>1, <1>3, <1>4, AtWork DEF Right, Key, Episode
        <2>2. /\ columns' \in [Processes -> Seq(ColumnEntries)]
              /\ topics' \in [Processes -> Seq(TopicEntries)]
            BY <1>4 DEF CacheInv, StateTypes
        <2>3. \A r \in Processes :
                  Bounded(columns'[r], ColumnsSize) /\ Bounded(topics'[r], TopicSize)
            BY <1>4 DEF CacheInv, StateTypes, CachesBounded
        <2> QED BY <1>1, <1>4, <2>1, <2>2, <2>3, ServeKeepsInv
    <1>5. CASE /\ Hit(cache, key)
               /\ columns' = [columns EXCEPT ![p] = Touch(cache, key)]
               /\ Serve(p, Cached(cache, key)) /\ UNCHANGED topics
        <2>1. /\ Touch(cache, key) \in Seq(ColumnEntries)
              /\ Bounded(Touch(cache, key), ColumnsSize)
            BY <1>2, <1>5, TouchKeeps
        <2>2. /\ cache[Entry(cache, key)] \in ColumnEntries
              /\ cache[Entry(cache, key)].key = key
              /\ Cached(cache, key) = cache[Entry(cache, key)].value
            BY <1>2, <1>5, EntryProperties
        <2>3. /\ Cached(cache, key) \in Arrays
              /\ Cached(cache, key).episode = e
              /\ Cached(cache, key).columns = cols
            BY <2>2 DEF ColumnEntries, ColumnsKey
        <2> QED BY <1>4, <1>5, <2>1, <2>3
    <1>6. CASE /\ ~Hit(cache, key) /\ Whole(e)
               /\ columns' = [columns EXCEPT ![p] =
                                 Insert(cache, ColumnsSize, key, array)]
               /\ Serve(p, array) /\ UNCHANGED topics
        <2>1. disk[e].version \in Nat /\ declared \in Columns
            <3>1. disk[e].version \in Nat /\ disk[e].layout \in AllLayouts
                BY <1>2, <1>6, LayoutsType DEF CacheInv, StateTypes, DiskIsLatest
            <3> QED BY <1>1, <3>1, AtWork, ColumnsForType
        <2>2. /\ array \in Arrays
              /\ array.episode = e
              /\ array.columns = cols
            BY <1>2, <1>3, <2>1 DEF ArrayOf, Arrays
        <2>3. [key |-> key, value |-> array] \in ColumnEntries
            BY <1>2, <1>3, <2>2 DEF ColumnEntries, ColumnsKey
        <2>4. /\ Insert(cache, ColumnsSize, key, array) \in Seq(ColumnEntries)
              /\ Bounded(Insert(cache, ColumnsSize, key, array), ColumnsSize)
            BY <1>2, <1>6, <2>3, InsertKeeps
        <2> QED BY <1>4, <1>6, <2>2, <2>4
    <1>7. CASE Raise(p)
        BY <1>7, LeaveKeepsInv DEF Raise
    <1> QED BY <1>5, <1>6, <1>7 DEF ReadColumns

LEMMA ReadTopicKeepsInv ==
    ASSUME CacheInv, NEW p \in Processes, ReadTopic(p)
    PROVE  CacheInv'
    <1> DEFINE e == Episode(p)
               kind == KindOf[Key(p)]
               cache == topics[p]
               key == <<e, kind>>
               array == ArrayOf(e, <<kind, "topic">>, <<kind, "topic">>)
    <1>1. pc[p] = "topic"
        BY DEF ReadTopic
    <1>2. /\ e \in Episodes /\ kind \in Kinds
          /\ cache \in Seq(TopicEntries)
          /\ Bounded(cache, TopicSize)
          /\ TopicSize \in Nat \ {0}
        BY <1>1, AtWork, CacheAssumption DEF CacheInv, StateTypes, CachesBounded
    <1>3. <<kind, "topic">> \in Columns
        BY <1>2 DEF Columns
    <1>4. ASSUME NEW a \in Arrays, a.episode = e, a.columns = <<kind, "topic">>,
                 NEW new \in Seq(TopicEntries), Bounded(new, TopicSize),
                 topics' = [topics EXCEPT ![p] = new],
                 Serve(p, a), UNCHANGED columns
          PROVE  CacheInv'
        <2>1. Right(request[p], Len(arrays[p]) + 1, a)
            BY <1>1, <1>4, AtWork DEF Right, Key, Episode
        <2>2. /\ columns' \in [Processes -> Seq(ColumnEntries)]
              /\ topics' \in [Processes -> Seq(TopicEntries)]
            BY <1>4 DEF CacheInv, StateTypes
        <2>3. \A r \in Processes :
                  Bounded(columns'[r], ColumnsSize) /\ Bounded(topics'[r], TopicSize)
            BY <1>4 DEF CacheInv, StateTypes, CachesBounded
        <2> QED BY <1>1, <1>4, <2>1, <2>2, <2>3, ServeKeepsInv
    <1>5. CASE /\ Hit(cache, key)
               /\ topics' = [topics EXCEPT ![p] = Touch(cache, key)]
               /\ Serve(p, Cached(cache, key)) /\ UNCHANGED columns
        <2>1. /\ Touch(cache, key) \in Seq(TopicEntries)
              /\ Bounded(Touch(cache, key), TopicSize)
            BY <1>2, <1>5, TouchKeeps
        <2>2. /\ cache[Entry(cache, key)] \in TopicEntries
              /\ cache[Entry(cache, key)].key = key
              /\ Cached(cache, key) = cache[Entry(cache, key)].value
            BY <1>2, <1>5, EntryProperties
        <2>3. /\ Cached(cache, key) \in Arrays
              /\ Cached(cache, key).episode = e
              /\ Cached(cache, key).columns = <<kind, "topic">>
            BY <2>2 DEF TopicEntries
        <2> QED BY <1>4, <1>5, <2>1, <2>3
    <1>6. CASE /\ ~Hit(cache, key) /\ Whole(e)
               /\ topics' = [topics EXCEPT ![p] = Insert(cache, TopicSize, key, array)]
               /\ Serve(p, array) /\ UNCHANGED columns
        <2>1. disk[e].version \in Nat
            BY <1>2, <1>6 DEF CacheInv, StateTypes, DiskIsLatest
        <2>2. /\ array \in Arrays
              /\ array.episode = e
              /\ array.columns = <<kind, "topic">>
              /\ array.declared = array.columns
            BY <1>2, <1>3, <2>1 DEF ArrayOf, Arrays
        <2>3. [key |-> key, value |-> array] \in TopicEntries
            BY <1>2, <2>2 DEF TopicEntries
        <2>4. /\ Insert(cache, TopicSize, key, array) \in Seq(TopicEntries)
              /\ Bounded(Insert(cache, TopicSize, key, array), TopicSize)
            BY <1>2, <1>6, <2>3, InsertKeeps
        <2> QED BY <1>4, <1>6, <2>2, <2>4
    <1>7. CASE Raise(p)
        BY <1>7, LeaveKeepsInv DEF Raise
    <1> QED BY <1>5, <1>6, <1>7 DEF ReadTopic

LEMMA HashSourcesKeepsInv ==
    ASSUME CacheInv, NEW p \in Processes, HashSources(p)
    PROVE  CacheInv'
    BY LeaveKeepsInv DEF HashSources, Return

LEMMA RestartKeepsInv ==
    ASSUME CacheInv, NEW p \in Processes, Restart(p)
    PROVE  CacheInv'
    BY LeaveKeepsInv DEF Restart

\* CacheInv holds in every reachable state.
THEOREM CacheInvariant == Spec => []CacheInv
    <1>1. CacheInv /\ Next => CacheInv'
        BY BeginEpisodeKeepsInv, FinishEpisodeKeepsInv, CallKeepsInv, LocateKeepsInv,
           ReadSchemaKeepsInv, ReadColumnsKeepsInv, ReadTopicKeepsInv,
           HashSourcesKeepsInv, RestartKeepsInv
           DEF Next
    <1>2. CacheInv /\ UNCHANGED vars => CacheInv'
        BY DEF CacheInv, vars, call, caches, StateTypes, DiskIsLatest, CachesBounded,
               CallsInProgress, CallInProgress, Whole, Key
    <1> QED BY InitInv, <1>1, <1>2, PTL DEF Spec

\* TypeOK holds in every reachable state: a file that is whole is the latest
\* version written of it, a cache holds at most maxsize entries of the right
\* kind and never two for one key, and a resolver at work has a request.
THEOREM TypeCorrect == Spec => []TypeOK
    <1>1. ASSUME CacheInv
          PROVE  TypeOK
        <2>1. \A e \in Episodes :
                  /\ Whole(e) => disk[e] \in [version : {versions[e]}, layout : Layouts[e]]
                  /\ versions[e] \in 0..MaxVersion[e]
            <3> TAKE e \in Episodes
            <3>1. versions[e] \in Nat /\ MaxVersion[e] \in Nat /\ versions[e] <= MaxVersion[e]
                BY <1>1, CacheAssumption DEF CacheInv, StateTypes, DiskIsLatest
            <3> QED BY <1>1, <3>1 DEF CacheInv, DiskIsLatest
        <2>2. ASSUME NEW p \in Processes
              PROVE  /\ pc[p] # "idle" => request[p] # Absent
                     /\ pc[p] = "columns" => info[p] # Absent
                     /\ arrays[p] \in Seq(Arrays)
            BY <1>1, LayoutsType
               DEF CacheInv, StateTypes, CallsInProgress, CallInProgress
        <2>3. ASSUME NEW p \in Processes
              PROVE  IsCache(schemas[p], SchemaSize, AllLayouts)
            <3>1. schemas[p] \in Seq(SchemaEntries) /\ Bounded(schemas[p], SchemaSize)
                BY <1>1 DEF CacheInv, StateTypes, CachesBounded
            <3>2. \A n \in DOMAIN schemas[p] : schemas[p][n] \in SchemaEntries
                BY <3>1, LenProperties, ElementOfSeq
            <3> QED BY <3>1, <3>2 DEF IsCache, Bounded, UniqueKeys, SchemaEntries
        <2>4. ASSUME NEW p \in Processes
              PROVE  IsCache(columns[p], ColumnsSize, Arrays)
            <3>1. columns[p] \in Seq(ColumnEntries) /\ Bounded(columns[p], ColumnsSize)
                BY <1>1 DEF CacheInv, StateTypes, CachesBounded
            <3>2. \A n \in DOMAIN columns[p] : columns[p][n] \in ColumnEntries
                BY <3>1, LenProperties, ElementOfSeq
            <3>3. \A n \in DOMAIN columns[p] : columns[p][n].value \in Arrays
                BY <3>2 DEF ColumnEntries
            <3> QED BY <3>1, <3>3 DEF IsCache, Bounded, UniqueKeys
        <2>5. ASSUME NEW p \in Processes
              PROVE  IsCache(topics[p], TopicSize, Arrays)
            <3>1. topics[p] \in Seq(TopicEntries) /\ Bounded(topics[p], TopicSize)
                BY <1>1 DEF CacheInv, StateTypes, CachesBounded
            <3>2. \A n \in DOMAIN topics[p] : topics[p][n] \in TopicEntries
                BY <3>1, LenProperties, ElementOfSeq
            <3>3. \A n \in DOMAIN topics[p] : topics[p][n].value \in Arrays
                BY <3>2 DEF TopicEntries
            <3> QED BY <3>1, <3>3 DEF IsCache, Bounded, UniqueKeys
        <2> QED BY <1>1, <2>1, <2>2, <2>3, <2>4, <2>5
                DEF TypeOK, CacheInv, StateTypes, Places
    <1> QED BY CacheInvariant, <1>1, PTL

\* EveryStreamGetsItsOwnArray holds in every reachable state, for any caches,
\* evictions and rewrites: the source of an array is the one _payload_sources
\* and project() give its stream, and its columns are of that stream's kind.
THEOREM OwnArrays == Spec => []EveryStreamGetsItsOwnArray
    <1>1. ASSUME CacheInv
          PROVE  EveryStreamGetsItsOwnArray
        <2> SUFFICES ASSUME NEW p \in Processes, NEW n \in DOMAIN arrays[p]
                     PROVE  LET key == request[p].streams[n] IN
                            /\ CASE key \in DOMAIN request[p].sources ->
                                        arrays[p][n].episode = request[p].sources[key]
                                 [] /\ key \notin DOMAIN request[p].sources
                                    /\ key \in DOMAIN request[p].refs ->
                                        arrays[p][n].episode = request[p].refs[key]
                                 [] OTHER ->
                                        arrays[p][n].episode = request[p].sources[Bare(key)]
                            /\ arrays[p][n].columns[1] = KindOf[key]
            BY DEF EveryStreamGetsItsOwnArray
        <2> DEFINE q == request[p]
                   key == q.streams[n]
        <2>1. n \in 1..Len(arrays[p]) /\ Len(arrays[p]) \in Nat
            BY <1>1, LenProperties DEF CacheInv, StateTypes
        <2>2. pc[p] # "idle"
            BY <1>1, <2>1 DEF CacheInv, CallsInProgress
        <2>3. CallInProgress(p)
            BY <1>1, <2>2 DEF CacheInv, CallsInProgress
        <2>4. q \in Requests /\ Right(q, n, arrays[p][n])
            BY <2>1, <2>3 DEF CallInProgress
        <2>5. key \in Keys
            <3>1. n \in 1..Len(q.streams)
                BY <2>1, <2>3, <2>4, RequestType DEF CallInProgress
            <3> QED BY <2>4, <3>1, RequestType
        <2>6. Bare(key) \notin Keys
            <3>1. Bare(key)[1] = ""
                BY DEF Bare
            <3> QED BY <3>1, CacheAssumption
        <2>7. /\ HasSource(q, key)
              /\ arrays[p][n].episode = SourceOf(q, key)
              /\ arrays[p][n].columns[1] = KindOf[key]
            BY <2>4 DEF Right
        <2> HIDE DEF key, q
        <2>8. CASE key \in DOMAIN Merged(q)
            BY <2>4, <2>7, <2>8, MergedType DEF SourceOf, key, q
        <2>9. CASE key \notin DOMAIN Merged(q)
            <3>1. Bare(key) \in DOMAIN q.sources /\ key \notin DOMAIN q.sources \cup DOMAIN q.refs
                <4>1. DOMAIN Merged(q) = DOMAIN q.refs \cup DOMAIN q.sources
                      /\ DOMAIN q.refs \subseteq Keys
                    BY <2>4, MergedType
                <4>2. Bare(key) \in DOMAIN Merged(q)
                    BY <2>7, <2>9 DEF HasSource
                <4> QED BY <2>6, <2>9, <4>1, <4>2
            <3>2. SourceOf(q, key) = q.sources[Bare(key)]
                BY <2>4, <2>7, <2>9, <3>1, MergedType DEF HasSource, SourceOf
            <3> QED BY <2>7, <3>1, <3>2 DEF key, q
        <2> QED BY <2>8, <2>9
    <1> QED BY CacheInvariant, <1>1, PTL
====
