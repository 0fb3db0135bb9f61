---- MODULE PayloadCache ----
(***************************************************************************)
(* How project() gets its payload arrays: the merge of Session stream_refs *)
(* and payload_sources, the registry, the Parquet and MCAP resolvers with  *)
(* their lru_caches, and the source hashes taken when the table is built.  *)
(*                                                                         *)
(* A process makes one call of Pipeline.run after another; the caches are  *)
(* its own, live as long as it does and are keyed by path, never by what   *)
(* the path holds. A producer, another program, writes the episode files   *)
(* meanwhile. An array is the episode, version and columns it came from,   *)
(* and the columns which that version itself calls for (history).          *)
(***************************************************************************)
EXTENDS Integers, Sequences, FiniteSets, SequencesExt

CONSTANTS
    Processes,
    Episodes,      \* the episode files
    SchemeOf,      \* "parquet", "mcap" or "none", by episode: its URI's scheme
    KindOf,        \* stream key <<device, stream>> to payload_kind
    Requests,      \* see IsRequest
    Orders,        \* the tuples of sensor ids a file may declare
    Layouts,       \* the Parquet layouts the producer writes, by episode
    SchemaSize,    \* maxsize of _schema_info
    ColumnsSize,   \* maxsize of _read_columns
    TopicSize,     \* maxsize of _read_topic
    MaxVersion,    \* bound: versions of an episode, by episode
    MaxCalls,      \* bound: calls of run, over all processes
    Absent,        \* no such file
    Torn,          \* the producer is writing it
    NoIds          \* the metadata declares no sensor ids

Keys == DOMAIN KindOf
Kinds == {KindOf[k] : k \in Keys}

\* A payload kind's columns, by naming scheme: mag.<id>.* and dyn.<id>.* for
\* the ids in their order, or Layout-B; an MCAP topic counts as one column set.
Columns == Kinds \X (Orders \cup {"legacy", "topic"})

\* What _schema_info reads: the sensor ids by kind, and the column names.
LayoutType == [ids : [Kinds -> Orders \cup {NoIds}], names : SUBSET Columns]

\* stream_refs of the session's devices, payload_sources of the request, and
\* the streams of the timeline. payload_sources may use a bare stream id, which
\* has no device.
Bare(key) == <<"", key[2]>>
Sources == Keys \cup {Bare(k) : k \in Keys}
IsRequest(q) ==
    /\ q.streams \in Seq(Keys)
    /\ \E K \in SUBSET Keys : q.refs \in [K -> Episodes]
    /\ \E K \in SUBSET Sources : q.sources \in [K -> Episodes]

\* Every stream has a device.
ASSUME CacheAssumption ==
    /\ \A k \in Keys : k = <<k[1], k[2]>> /\ k[1] # ""
    /\ SchemeOf \in [Episodes -> {"parquet", "mcap", "none"}]
    /\ \A q \in Requests : IsRequest(q)
    /\ Layouts \in [Episodes -> SUBSET LayoutType]
    /\ {SchemaSize, ColumnsSize, TopicSize, MaxCalls} \subseteq Nat \ {0}
    /\ MaxVersion \in [Episodes -> Nat \ {0}]
    /\ NoIds \notin Orders
    /\ Absent # Torn
    /\ \A x \in {Absent, Torn} : x \notin [version : Nat, layout : LayoutType]
    /\ Absent \notin Requests \cup UNION {Layouts[e] : e \in Episodes}

VARIABLES
    disk,      \* the episode files: Absent, Torn, or version and layout
    versions,  \* how many versions the producer has written of each
    pc,        \* where each process is
    request,   \* the request it serves
    arrays,    \* what resolve_stream has returned so far
    info,      \* what _schema_info returned for the stream in hand
    before,    \* the source digests when the call began (history)
    warm,      \* TRUE: the process has served a call before this one
    schemas, columns, topics,   \* the three caches, latest use first
    results,   \* the calls that came through
    calls      \* how many were made

call == <<pc, request, arrays, info, before, warm>>
caches == <<schemas, columns, topics>>
vars == <<disk, versions, call, caches, results, calls>>

----------------------------------------------------------------------------
(* functools.lru_cache: a sequence of entries, the last one next to go.    *)

Hit(cache, key) == \E n \in DOMAIN cache : cache[n].key = key

Entry(cache, key) == CHOOSE n \in DOMAIN cache : cache[n].key = key

Cached(cache, key) == cache[Entry(cache, key)].value

Touch(cache, key) ==
    LET n == Entry(cache, key) IN Cons(cache[n], RemoveAt(cache, n))

\* Seeded fault: nothing is ever evicted.
InsertUnbounded(cache, size, key, value) ==
    Cons([key |-> key, value |-> value], cache)

Insert(cache, size, key, value) ==
    Cons([key |-> key, value |-> value],
         IF Len(cache) = size THEN Front(cache) ELSE cache)

----------------------------------------------------------------------------
(* _payload_sources and project()'s look-up in it.                         *)

\* sources.update(req.payload_sources): the same key is overridden.
Merged(q) ==
    [k \in DOMAIN q.refs \cup DOMAIN q.sources |->
        IF k \in DOMAIN q.sources THEN q.sources[k] ELSE q.refs[k]]

\* payload_sources.get(key) or payload_sources.get(stream_id)
HasSource(q, key) == {key, Bare(key)} \cap DOMAIN Merged(q) # {}

SourceOf(q, key) ==
    IF key \in DOMAIN Merged(q) THEN Merged(q)[key] ELSE Merged(q)[Bare(key)]

\* _source_hashes: of every source with a scheme, used or not, that is a file.
Digest(e) == <<e, IF disk[e] = Torn THEN Torn ELSE disk[e].version>>

SourceHashes(q) ==
    {Digest(e) : e \in {Merged(q)[k] : k \in DOMAIN Merged(q)}
                       \cap {e \in Episodes : disk[e] # Absent /\ SchemeOf[e] # "none"}}

----------------------------------------------------------------------------
(* _columns_for: the sensor-id columns when they are declared and there,   *)
(* the legacy ones otherwise. For the tactile kind alone, declared columns *)
(* that are not there are asked for when there are no legacy ones either.  *)

Canonical(kind, layout) == <<kind, layout.ids[kind]>>
Legacy(kind) == <<kind, "legacy">>

ColumnsFor(kind, layout) ==
    IF /\ layout.ids[kind] # NoIds
       /\ \/ Canonical(kind, layout) \in layout.names
          \/ kind = "bmm350_cluster_uT" /\ Legacy(kind) \notin layout.names
    THEN Canonical(kind, layout) ELSE Legacy(kind)

Whole(e) == disk[e] \notin {Absent, Torn}

ArrayOf(e, cols, declared) ==
    [episode |-> e, version |-> disk[e].version, columns |-> cols, declared |-> declared]

\* Seeded fault: the array cache is keyed by the path alone.
ColumnsKeyPathOnly(e, cols) == e

\* The key of _read_columns.
ColumnsKey(e, cols) == <<e, cols>>

----------------------------------------------------------------------------
Init ==
    /\ disk = [e \in Episodes |-> Absent]
    /\ versions = [e \in Episodes |-> 0]
    /\ pc = [p \in Processes |-> "idle"]
    /\ request = [p \in Processes |-> Absent]
    /\ arrays = [p \in Processes |-> <<>>]
    /\ info = [p \in Processes |-> Absent]
    /\ before = [p \in Processes |-> {}]
    /\ warm = [p \in Processes |-> FALSE]
    /\ schemas = [p \in Processes |-> <<>>]
    /\ columns = [p \in Processes |-> <<>>]
    /\ topics = [p \in Processes |-> <<>>]
    /\ results = {}
    /\ calls = 0

Goto(p, label) == pc' = [pc EXCEPT ![p] = label]

\* The producer opens an episode file for writing, and closes it.
BeginEpisode(e) ==
    /\ versions[e] < MaxVersion[e]
    /\ disk[e] # Torn
    /\ disk' = [disk EXCEPT ![e] = Torn]
    /\ UNCHANGED <<versions, call, caches, results, calls>>

FinishEpisode(e) ==
    /\ disk[e] = Torn
    /\ versions' = [versions EXCEPT ![e] = versions[e] + 1]
    /\ \E layout \in Layouts[e] :
           disk' = [disk EXCEPT ![e] = [version |-> versions[e] + 1, layout |-> layout]]
    /\ UNCHANGED <<call, caches, results, calls>>

\* Pipeline.run begins.
Call(p) ==
    /\ pc[p] = "idle"
    /\ calls < MaxCalls
    /\ calls' = calls + 1
    /\ \E q \in Requests :
           /\ request' = [request EXCEPT ![p] = q]
           /\ before' = [before EXCEPT ![p] = SourceHashes(q)]
    /\ Goto(p, "stream")
    /\ UNCHANGED <<disk, versions, arrays, info, warm, caches, results>>

\* The frame of run is gone.
Leave(p) ==
    /\ Goto(p, "idle")
    /\ request' = [request EXCEPT ![p] = Absent]
    /\ arrays' = [arrays EXCEPT ![p] = <<>>]
    /\ info' = [info EXCEPT ![p] = Absent]
    /\ before' = [before EXCEPT ![p] = {}]

\* An exception leaves run: the caches stay.
Raise(p) ==
    /\ Leave(p)
    /\ warm' = [warm EXCEPT ![p] = TRUE]
    /\ UNCHANGED <<disk, versions, caches, results, calls>>

Key(p) == request[p].streams[Len(arrays[p]) + 1]
Episode(p) == SourceOf(request[p], Key(p))
Asked(p) == ColumnsFor(KindOf[Key(p)], info[p])

\* The stream loop of project(): the source, the resolver, path.exists().
Locate(p) ==
    /\ pc[p] = "stream"
    /\ Len(arrays[p]) < Len(request[p].streams)
    /\ IF HasSource(request[p], Key(p)) /\ SchemeOf[Episode(p)] # "none"
             /\ disk[Episode(p)] # Absent
       THEN /\ Goto(p, IF SchemeOf[Episode(p)] = "parquet" THEN "schema" ELSE "topic")
            /\ UNCHANGED <<disk, versions, request, arrays, info, before, warm,
                           caches, results, calls>>
       ELSE Raise(p)

\* _schema_info
ReadSchema(p) ==
    LET e == Episode(p)
        cache == schemas[p]
        Returns(layout) == /\ info' = [info EXCEPT ![p] = layout]
                           /\ Goto(p, "columns")
                           /\ UNCHANGED <<disk, versions, request, arrays, before,
                                          warm, columns, topics, results, calls>>
    IN  /\ pc[p] = "schema"
        /\ \/ /\ Hit(cache, e)
              /\ schemas' = [schemas EXCEPT ![p] = Touch(cache, e)]
              /\ Returns(Cached(cache, e))
           \/ /\ ~Hit(cache, e) /\ Whole(e)
              /\ schemas' = [schemas EXCEPT ![p] =
                                Insert(cache, SchemaSize, e, disk[e].layout)]
              /\ Returns(disk[e].layout)
           \/ ~Hit(cache, e) /\ ~Whole(e) /\ Raise(p)

\* resolve_stream returns to the loop of project().
Serve(p, array) ==
    /\ arrays' = [arrays EXCEPT ![p] = Append(arrays[p], array)]
    /\ info' = [info EXCEPT ![p] = Absent]
    /\ Goto(p, "stream")
    /\ UNCHANGED <<disk, versions, request, before, warm, schemas, results, calls>>

\* _read_columns: a missing column raises, and an exception is not cached.
ReadColumns(p) ==
    LET e == Episode(p)
        cache == columns[p]
        key == ColumnsKey(e, Asked(p))
        there == Whole(e) /\ Asked(p) \in disk[e].layout.names
        array == ArrayOf(e, Asked(p), ColumnsFor(KindOf[Key(p)], disk[e].layout))
    IN  /\ pc[p] = "columns"
        /\ \/ /\ Hit(cache, key)
              /\ columns' = [columns EXCEPT ![p] = Touch(cache, key)]
              /\ Serve(p, Cached(cache, key))
              /\ UNCHANGED topics
           \/ /\ ~Hit(cache, key) /\ there
              /\ columns' = [columns EXCEPT ![p] = Insert(cache, ColumnsSize, key, array)]
              /\ Serve(p, array)
              /\ UNCHANGED topics
           \/ ~Hit(cache, key) /\ ~there /\ Raise(p)

\* _read_topic: every message of the topic.
ReadTopic(p) ==
    LET e == Episode(p)
        cache == topics[p]
        key == <<e, KindOf[Key(p)]>>
        topic == <<KindOf[Key(p)], "topic">>
        array == ArrayOf(e, topic, topic)
    IN  /\ pc[p] = "topic"
        /\ \/ /\ Hit(cache, key)
              /\ topics' = [topics EXCEPT ![p] = Touch(cache, key)]
              /\ Serve(p, Cached(cache, key))
              /\ UNCHANGED columns
           \/ /\ ~Hit(cache, key) /\ Whole(e)
              /\ topics' = [topics EXCEPT ![p] = Insert(cache, TopicSize, key, array)]
              /\ Serve(p, array)
              /\ UNCHANGED columns
           \/ ~Hit(cache, key) /\ ~Whole(e) /\ Raise(p)

Return(p, hashes) ==
    /\ results' = results \cup
           {[request |-> request[p], arrays |-> arrays[p], hashes |-> hashes,
             before |-> before[p], fresh |-> ~warm[p]]}
    /\ warm' = [warm EXCEPT ![p] = TRUE]
    /\ Leave(p)
    /\ UNCHANGED <<disk, versions, caches, calls>>

\* Seeded fault: the sources are hashed when the call begins.
HashSourcesFirst(p) ==
    /\ pc[p] = "stream"
    /\ Len(arrays[p]) = Len(request[p].streams)
    /\ Return(p, before[p])

\* _source_hashes, once project() is through; the rest of run is Pipeline's.
HashSources(p) ==
    /\ pc[p] = "stream"
    /\ Len(arrays[p]) = Len(request[p].streams)
    /\ Return(p, SourceHashes(request[p]))

\* Seeded fault: the caches outlive the process.
RestartWarm(p) ==
    /\ Leave(p)
    /\ warm' = [warm EXCEPT ![p] = FALSE]
    /\ UNCHANGED <<disk, versions, caches, results, calls>>

\* The process ends, in a call or between two; another takes its place.
Restart(p) ==
    /\ Leave(p)
    /\ warm' = [warm EXCEPT ![p] = FALSE]
    /\ schemas' = [schemas EXCEPT ![p] = <<>>]
    /\ columns' = [columns EXCEPT ![p] = <<>>]
    /\ topics' = [topics EXCEPT ![p] = <<>>]
    /\ UNCHANGED <<disk, versions, results, calls>>

Next ==
    \/ \E e \in Episodes : BeginEpisode(e) \/ FinishEpisode(e)
    \/ \E p \in Processes :
           \/ Call(p) \/ Locate(p) \/ ReadSchema(p) \/ ReadColumns(p)
           \/ ReadTopic(p) \/ HashSources(p) \/ Restart(p)

Spec == Init /\ [][Next]_vars

----------------------------------------------------------------------------
(* Properties.                                                             *)

Arrays == [episode : Episodes, version : Nat, columns : Columns, declared : Columns]

AllLayouts == UNION {Layouts[e] : e \in Episodes}

\* A cache holds at most maxsize entries and never two for one key.
IsCache(cache, size, Values) ==
    /\ Len(cache) <= size
    /\ \A n \in DOMAIN cache : cache[n].value \in Values
    /\ \A m, n \in DOMAIN cache : cache[m].key = cache[n].key => m = n

TypeOK ==
    /\ \A e \in Episodes : Whole(e) =>
           disk[e] \in [version : {versions[e]}, layout : Layouts[e]]
    /\ \A e \in Episodes : versions[e] \in 0..MaxVersion[e]
    /\ pc \in [Processes -> {"idle", "stream", "schema", "columns", "topic"}]
    /\ request \in [Processes -> Requests \cup {Absent}]
    /\ info \in [Processes -> AllLayouts \cup {Absent}]
    /\ \A p \in Processes :
           /\ pc[p] # "idle" => request[p] # Absent
           /\ pc[p] = "columns" => info[p] # Absent
           /\ arrays[p] \in Seq(Arrays)
           /\ IsCache(schemas[p], SchemaSize, AllLayouts)
           /\ IsCache(columns[p], ColumnsSize, Arrays)
           /\ IsCache(topics[p], TopicSize, Arrays)
    /\ calls \in 0..MaxCalls

\* Whatever the caches served before, to whichever request and in whatever
\* order they evicted: the n-th array of a table is read from the source the
\* caller gave for exactly the n-th stream, or else from the session's
\* reference, or else from a source given for a bare stream id, and holds the
\* columns of that stream's kind (_payload_sources, project, resolve_stream).
EveryStreamGetsItsOwnArray ==
    \A p \in Processes : \A n \in DOMAIN arrays[p] :
        LET key == request[p].streams[n] IN
        /\ CASE key \in DOMAIN request[p].sources ->
                    arrays[p][n].episode = request[p].sources[key]
             [] key \notin DOMAIN request[p].sources /\ key \in DOMAIN request[p].refs ->
                    arrays[p][n].episode = request[p].refs[key]
             [] OTHER -> arrays[p][n].episode = request[p].sources[Bare(key)]
        /\ arrays[p][n].columns[1] = KindOf[key]

\* No episode has been written over so far, nor is one being.
NeverRewritten ==
    \A e \in Episodes : versions[e] = 0 \/ (versions[e] = 1 /\ disk[e] # Torn)

\* As long as no episode is rewritten, the source hashes of a finished call
\* hold the digest of every file its table was read from, those still being
\* written when the call began included (project, then _source_hashes).
LineageCoversTable ==
    NeverRewritten => \A r \in results : \A n \in DOMAIN r.arrays :
        <<r.arrays[n].episode, r.arrays[n].version>> \in r.hashes

Settled(hashes) == \A d \in hashes : d[2] # Torn

\* The first call of a process, which every `materialize` command is, with
\* sources that are whole and the same at both its ends.
Undisturbed(r) == r.fresh /\ r.before = r.hashes /\ Settled(r.hashes)

\* Under a producer that rewrites: such a call takes nothing from before, and
\* its lineage covers its table.
FirstCallIsCurrent ==
    \A r \in results : Undisturbed(r) =>
        \A n \in DOMAIN r.arrays :
            <<r.arrays[n].episode, r.arrays[n].version>> \in r.hashes

\* The two caches of a Parquet file are filled and evicted apart, and the
\* column names are the same in every sensor order. Still no table pairs the
\* order of one file, or of one version, with the columns of another, as long
\* as no episode is rewritten, and under rewrites in such a call: each array is
\* in the order its own file declares (_schema_info, _read_columns).
OrdersNeverMix ==
    \A r \in results : NeverRewritten \/ Undisturbed(r) =>
        \A n \in DOMAIN r.arrays : r.arrays[n].columns = r.arrays[n].declared

\* As long as no episode is rewritten, two calls with the same request build
\* the same table, whatever the caches of either held and whatever else was
\* being written (_schema_info, _read_columns, _read_topic).
SameInputsWhileWrittenOnce ==
    NeverRewritten => \A r, s \in results :
        r.request = s.request => r.arrays = s.arrays
====
