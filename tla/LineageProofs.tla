---- MODULE LineageProofs ----
(***************************************************************************)
(* Proofs about PayloadCache, continued: what the source hashes of a       *)
(* finished call say of the arrays its table was built from.               *)
(***************************************************************************)
EXTENDS CacheProofs

----------------------------------------------------------------------------
(* The inductive invariant.                                                *)

Digests == Episodes \X (Nat \cup {Torn})

HistoryTypes ==
    /\ warm \in [Processes -> BOOLEAN]
    /\ before \in [Processes -> SUBSET Digests]

\* An episode has a version as soon as it is there, unless it is being written.
FilesThere ==
    \A e \in Episodes : /\ Whole(e) => versions[e] >= 1
                        /\ disk[e] = Absent => versions[e] = 0

\* The episodes that _source_hashes takes the digests of.
Used(q) == {Merged(q)[k] : k \in DOMAIN Merged(q)} \cap {e \in Episodes : SchemeOf[e] # "none"}

\* What a process may hold: versions that were written and, in its first call,
\* none older than those its sources had when the call began.
Readable(p) ==
    {a \in Arrays :
        /\ a.version \in 1..versions[a.episode]
        /\ ~warm[p] => \A d \in before[p] :
                           d[1] = a.episode /\ d[2] # Torn => d[2] <= a.version}

ColumnsHeld(p) == {x \in ColumnEntries : x.value \in Readable(p)}
TopicsHeld(p) == {x \in TopicEntries : x.value \in Readable(p)}
ArraysHeld(p) == {a \in Readable(p) : a.episode \in Used(request[p])}

CallLineage(p) ==
    /\ columns[p] \in Seq(ColumnsHeld(p))
    /\ topics[p] \in Seq(TopicsHeld(p))
    /\ arrays[p] \in Seq(ArraysHeld(p))
    /\ \A d \in before[p] : d[2] # Torn => d[2] <= versions[d[1]]
    /\ pc[p] = "idle" => before[p] = {}
    /\ pc[p] = "idle" /\ ~warm[p] => columns[p] = <<>> /\ topics[p] = <<>>
    /\ pc[p] \in {"schema", "columns"} => SchemeOf[Episode(p)] = "parquet"
    /\ pc[p] = "topic" => SchemeOf[Episode(p)] = "mcap"

CallsLineage == \A p \in Processes : CallLineage(p)

LineageInv ==
    /\ CacheInv
    /\ HistoryTypes
    /\ FilesThere
    /\ CallsLineage
    /\ LineageCoversTable
    /\ FirstCallIsCurrent

----------------------------------------------------------------------------
(* What any step leaves alone.                                             *)

\* An episode that is there stays, and its versions only grow.
FilesGrow ==
    \A e \in Episodes : /\ versions'[e] \in Nat
                        /\ versions[e] <= versions'[e]
                        /\ disk'[e] = Absent => disk[e] = Absent

LEMMA HeldGrows ==
    ASSUME StateTypes, NEW p \in Processes,
           \A e \in Episodes : versions'[e] \in Nat /\ versions[e] <= versions'[e],
           warm'[p] \/ (warm'[p] = warm[p] /\ before'[p] = before[p]),
           columns[p] \in Seq(ColumnsHeld(p)), topics[p] \in Seq(TopicsHeld(p))
    PROVE  /\ Readable(p) \subseteq Readable(p)'
           /\ columns[p] \in Seq(ColumnsHeld(p)')
           /\ topics[p] \in Seq(TopicsHeld(p)')
    <1>1. Readable(p) \subseteq Readable(p)'
        <2> SUFFICES ASSUME NEW a \in Readable(p)
                     PROVE  a \in Readable(p)'
            OBVIOUS
        <2>1. a \in Arrays /\ a.episode \in Episodes /\ a.version \in 1..versions[a.episode]
            BY DEF Readable, Arrays
        <2>2. versions[a.episode] \in Nat /\ versions'[a.episode] \in Nat
              /\ versions[a.episode] <= versions'[a.episode]
            BY <2>1 DEF StateTypes
        <2>3. a.version \in 1..versions'[a.episode]
            BY <2>1, <2>2
        <2> QED BY <2>1, <2>3 DEF Readable, Arrays
    <1>2. ColumnsHeld(p) \subseteq ColumnsHeld(p)' /\ TopicsHeld(p) \subseteq TopicsHeld(p)'
        BY <1>1 DEF ColumnsHeld, TopicsHeld, ColumnEntries, TopicEntries, Arrays
    <1> HIDE DEF ColumnsHeld, TopicsHeld
    <1> QED BY <1>1, <1>2, SeqMonotonic

\* What a process may hold depends on the files and on its own call.
LEMMA HeldStays ==
    ASSUME NEW p \in Processes, UNCHANGED versions, before'[p] = before[p],
           warm'[p] = warm[p], request'[p] = request[p]
    PROVE  /\ Readable(p)' = Readable(p)
           /\ ColumnsHeld(p)' = ColumnsHeld(p)
           /\ TopicsHeld(p)' = TopicsHeld(p)
           /\ ArraysHeld(p)' = ArraysHeld(p)
    <1>1. Readable(p)' = Readable(p)
        BY DEF Readable, Arrays
    <1> QED BY <1>1 DEF ColumnsHeld, TopicsHeld, ArraysHeld, ColumnEntries, TopicEntries, Arrays

\* A step that concerns process p alone.
LEMMA OthersLineage ==
    ASSUME CallsLineage, NEW p \in Processes, UNCHANGED versions,
           \A r \in Processes \ {p} :
               /\ pc'[r] = pc[r] /\ request'[r] = request[r] /\ arrays'[r] = arrays[r]
               /\ before'[r] = before[r] /\ warm'[r] = warm[r]
               /\ columns'[r] = columns[r] /\ topics'[r] = topics[r],
           CallLineage(p)'
    PROVE  CallsLineage'
    <1> SUFFICES ASSUME NEW r \in Processes, r # p
                 PROVE  CallLineage(r)'
        BY DEF CallsLineage
    <1>1. CallLineage(r)
        BY DEF CallsLineage
    <1>2. Episode(r)' = Episode(r)
        BY DEF Episode, Key
    <1> QED BY <1>1, <1>2, HeldStays DEF CallLineage

\* What was not rewritten before a step was not rewritten after it either.
LEMMA WrittenOnce ==
    ASSUME StateTypes, NEW e \in Episodes, BeginEpisode(e) \/ FinishEpisode(e), NeverRewritten'
    PROVE  NeverRewritten
    <1> SUFFICES ASSUME NEW d \in Episodes
                 PROVE  versions[d] = 0 \/ (versions[d] = 1 /\ disk[d] # Torn)
        BY DEF NeverRewritten
    <1>1. versions'[d] = 0 \/ (versions'[d] = 1 /\ disk'[d] # Torn)
        BY DEF NeverRewritten
    <1>2. versions[d] \in Nat
        BY DEF StateTypes
    <1>3. CASE d = e
        BY <1>1, <1>2, <1>3 DEF StateTypes, BeginEpisode, FinishEpisode
    <1>4. CASE d # e
        BY <1>1, <1>4 DEF StateTypes, BeginEpisode, FinishEpisode
    <1> QED BY <1>3, <1>4

\* A step that adds no result.
LEMMA SameResults ==
    ASSUME LineageCoversTable, FirstCallIsCurrent, UNCHANGED results,
           NeverRewritten' => NeverRewritten
    PROVE  LineageCoversTable' /\ FirstCallIsCurrent'
    BY DEF LineageCoversTable, FirstCallIsCurrent

----------------------------------------------------------------------------
(* One lemma for each group of actions.                                    *)

LEMMA InitLineage == Init => LineageInv
    <1> SUFFICES ASSUME Init PROVE LineageInv
        OBVIOUS
    <1>1. CacheInv
        BY InitInv
    <1>2. HistoryTypes
        BY DEF Init, HistoryTypes
    <1>3. FilesThere
        BY DEF Init, FilesThere, Whole
    <1>4. CallsLineage
        <2> SUFFICES ASSUME NEW p \in Processes PROVE CallLineage(p)
            BY DEF CallsLineage
        <2>1. <<>> \in Seq(ColumnsHeld(p)) /\ <<>> \in Seq(TopicsHeld(p))
              /\ <<>> \in Seq(ArraysHeld(p))
            BY EmptySeq
        <2> QED BY <2>1 DEF Init, CallLineage
    <1>5. LineageCoversTable /\ FirstCallIsCurrent
        BY DEF Init, LineageCoversTable, FirstCallIsCurrent
    <1> QED BY <1>1, <1>2, <1>3, <1>4, <1>5 DEF LineageInv

LEMMA ProducerLineage ==
    ASSUME LineageInv, CacheInv', NEW e \in Episodes, BeginEpisode(e) \/ FinishEpisode(e)
    PROVE  LineageInv'
    <1>1. StateTypes /\ StateTypes' /\ DiskIsLatest /\ versions[e] \in Nat
        BY DEF LineageInv, CacheInv, StateTypes
    <1>2. \A d \in Episodes : versions'[d] \in Nat /\ versions[d] <= versions'[d]
        <2> TAKE d \in Episodes
        <2>1. versions[d] \in Nat /\ versions[e] + 1 \in Nat
            BY <1>1 DEF StateTypes
        <2>2. versions'[d] = versions[d] \/ versions'[d] = versions[d] + 1
            BY <1>1 DEF StateTypes, BeginEpisode, FinishEpisode
        <2> QED BY <2>1, <2>2
    <1>3. UNCHANGED <<call, caches, results>>
        BY DEF BeginEpisode, FinishEpisode
    <1>4. HistoryTypes'
        BY <1>3 DEF LineageInv, HistoryTypes, call
    <1>5. FilesThere'
        <2> SUFFICES ASSUME NEW d \in Episodes
                     PROVE  /\ Whole(d)' => versions'[d] >= 1
                            /\ disk'[d] = Absent => versions'[d] = 0
            BY DEF FilesThere
        <2>1. /\ Whole(d) => versions[d] >= 1
              /\ disk[d] = Absent => versions[d] = 0
            BY DEF LineageInv, FilesThere
        <2>2. CASE d # e
            BY <1>1, <2>1, <2>2 DEF BeginEpisode, FinishEpisode, StateTypes, Whole
        <2>3. CASE d = e /\ BeginEpisode(e)
            <3>1. disk'[d] = Torn
                BY <1>1, <2>3 DEF BeginEpisode, StateTypes
            <3> QED BY <3>1, CacheAssumption DEF Whole
        <2>4. CASE d = e /\ FinishEpisode(e)
            <3>1. versions'[d] = versions[d] + 1
                BY <1>1, <2>4 DEF FinishEpisode, StateTypes
            <3>2. PICK layout \in Layouts[e] :
                      disk'[d] = [version |-> versions[e] + 1, layout |-> layout]
                BY <1>1, <2>4 DEF FinishEpisode, StateTypes
            <3>3. disk'[d] \in [version : Nat, layout : LayoutType]
                BY <1>1, <3>2, LayoutsType
            <3>4. disk'[d] # Absent
                BY <3>3, CacheAssumption
            <3> QED BY <1>1, <2>4, <3>1, <3>4
        <2> QED BY <2>2, <2>3, <2>4
    <1>6. CallsLineage'
        <2> SUFFICES ASSUME NEW p \in Processes PROVE CallLineage(p)'
            BY DEF CallsLineage
        <2>1. CallLineage(p)
            BY DEF LineageInv, CallsLineage
        <2>2. /\ Readable(p) \subseteq Readable(p)'
              /\ columns[p] \in Seq(ColumnsHeld(p)')
              /\ topics[p] \in Seq(TopicsHeld(p)')
            BY <1>1, <1>2, <1>3, <2>1, HeldGrows DEF CallLineage, call
        <2>3. ArraysHeld(p) \subseteq ArraysHeld(p)'
            BY <1>3, <2>2 DEF ArraysHeld, call
        <2>4. arrays[p] \in Seq(ArraysHeld(p)')
            BY <2>1, <2>3, SeqMonotonic DEF CallLineage
        <2>5. \A d \in before[p] : d[2] # Torn => d[2] <= versions'[d[1]]
            <3> TAKE d \in before[p]
            <3>1. d \in Digests /\ d[1] \in Episodes /\ (d[2] # Torn => d[2] \in Nat)
                BY DEF LineageInv, HistoryTypes, Digests
            <3>2. d[2] # Torn => d[2] <= versions[d[1]]
                BY <2>1 DEF CallLineage
            <3> QED BY <1>1, <1>2, <3>1, <3>2 DEF StateTypes
        <2>6. Episode(p)' = Episode(p)
            BY <1>3 DEF Episode, Key, call
        <2> QED BY <1>3, <2>1, <2>2, <2>4, <2>5, <2>6 DEF CallLineage, call, caches
    <1>7. LineageCoversTable' /\ FirstCallIsCurrent'
        BY <1>1, <1>3, WrittenOnce, SameResults DEF LineageInv
    <1> QED BY <1>4, <1>5, <1>6, <1>7 DEF LineageInv

\* What a call has to take care of: its own lineage, and the results.
LEMMA StepOfOne ==
    ASSUME LineageInv, CacheInv', HistoryTypes', NEW p \in Processes,
           UNCHANGED <<disk, versions>>,
           \A r \in Processes \ {p} :
               /\ pc'[r] = pc[r] /\ request'[r] = request[r] /\ arrays'[r] = arrays[r]
               /\ before'[r] = before[r] /\ warm'[r] = warm[r]
               /\ columns'[r] = columns[r] /\ topics'[r] = topics[r],
           CallLineage(p)',
           (LineageCoversTable' /\ FirstCallIsCurrent') \/ UNCHANGED results
    PROVE  LineageInv'
    <1>1. FilesThere'
        BY DEF LineageInv, FilesThere, Whole
    <1>2. CallsLineage'
        BY OthersLineage DEF LineageInv
    <1>3. NeverRewritten' => NeverRewritten
        BY DEF NeverRewritten
    <1>4. LineageCoversTable' /\ FirstCallIsCurrent'
        BY <1>3, SameResults DEF LineageInv
    <1> QED BY <1>1, <1>2, <1>4 DEF LineageInv

\* Whatever ends a call.
LEMMA LeaveLineage ==
    ASSUME LineageInv, NEW p \in Processes, Leave(p), UNCHANGED versions,
           \/ warm' = [warm EXCEPT ![p] = TRUE] /\ UNCHANGED caches
           \/ /\ warm' = [warm EXCEPT ![p] = FALSE]
              /\ columns' = [columns EXCEPT ![p] = <<>>]
              /\ topics' = [topics EXCEPT ![p] = <<>>]
    PROVE  HistoryTypes' /\ CallLineage(p)'
    <1> USE DEF Leave, Goto, caches
    <1>1. StateTypes /\ HistoryTypes /\ CallLineage(p)
        BY DEF LineageInv, CacheInv, CallsLineage
    <1>2. HistoryTypes'
        BY <1>1 DEF HistoryTypes
    <1>3. pc'[p] = "idle" /\ arrays'[p] = <<>> /\ before'[p] = {}
        BY <1>1 DEF StateTypes, HistoryTypes
    <1>4. arrays'[p] \in Seq(ArraysHeld(p)')
        BY <1>3, EmptySeq
    <1>5. /\ columns'[p] \in Seq(ColumnsHeld(p)') /\ topics'[p] \in Seq(TopicsHeld(p)')
          /\ ~warm'[p] => columns'[p] = <<>> /\ topics'[p] = <<>>
        <2>1. CASE warm' = [warm EXCEPT ![p] = TRUE] /\ UNCHANGED caches
            <3>1. warm'[p] /\ \A e \in Episodes : versions'[e] \in Nat /\ versions[e] <= versions'[e]
                BY <1>1, <2>1 DEF StateTypes, HistoryTypes
            <3>2. columns[p] \in Seq(ColumnsHeld(p)') /\ topics[p] \in Seq(TopicsHeld(p)')
                BY <1>1, <3>1, HeldGrows DEF CallLineage
            <3> QED BY <2>1, <3>1, <3>2
        <2>2. CASE warm' # [warm EXCEPT ![p] = TRUE] \/ ~UNCHANGED caches
            <3>1. columns'[p] = <<>> /\ topics'[p] = <<>>
                BY <1>1, <2>2 DEF StateTypes
            <3> QED BY <3>1, EmptySeq
        <2> QED BY <2>1, <2>2
    <1> QED BY <1>2, <1>3, <1>4, <1>5 DEF CallLineage

\* The digests taken now are those of the latest versions.
LEMMA DigestsType ==
    ASSUME LineageInv, NEW q \in Requests, NEW d \in SourceHashes(q)
    PROVE  /\ d \in Digests
           /\ disk[d[1]] # Absent
           /\ d[2] # Torn => d[2] = versions[d[1]] /\ disk[d[1]] # Torn
    <1>1. PICK e \in Episodes : d = Digest(e) /\ disk[e] # Absent
        BY DEF SourceHashes
    <1>2. /\ d[1] = e
          /\ d[2] = IF disk[e] = Torn THEN Torn ELSE disk[e].version
        BY <1>1 DEF Digest
    <1>3. versions[e] \in Nat
        BY DEF LineageInv, CacheInv, StateTypes
    <1>4. disk[e] # Torn => disk[e].version = versions[e]
        BY <1>1 DEF LineageInv, CacheInv, DiskIsLatest, Whole
    <1> QED BY <1>1, <1>2, <1>3, <1>4 DEF Digests, Digest

LEMMA CallLineageStep ==
    ASSUME LineageInv, NEW p \in Processes, Call(p)
    PROVE  LineageInv'
    <1> USE DEF Call, Goto, caches
    <1>1. StateTypes /\ HistoryTypes /\ CallLineage(p)
        BY DEF LineageInv, CacheInv, CallsLineage
    <1>2. PICK q \in Requests : /\ request' = [request EXCEPT ![p] = q]
                                /\ before' = [before EXCEPT ![p] = SourceHashes(q)]
        OBVIOUS
    <1>3. HistoryTypes'
        <2>1. SourceHashes(q) \subseteq Digests
            BY DigestsType
        <2> QED BY <1>1, <1>2, <2>1 DEF HistoryTypes
    <1>4. /\ pc'[p] = "stream" /\ before'[p] = SourceHashes(q) /\ warm'[p] = warm[p]
          /\ columns'[p] = columns[p] /\ topics'[p] = topics[p] /\ arrays'[p] = <<>>
        BY <1>1, <1>2 DEF StateTypes, HistoryTypes, LineageInv, CacheInv, CallsInProgress
    <1>5. columns'[p] \in Seq(ColumnsHeld(p)') /\ topics'[p] \in Seq(TopicsHeld(p)')
        <2>1. CASE warm[p]
            <3>1. \A e \in Episodes : versions'[e] \in Nat /\ versions[e] <= versions'[e]
                BY <1>1 DEF StateTypes
            <3> QED BY <1>1, <1>4, <2>1, <3>1, HeldGrows DEF CallLineage
        <2>2. CASE ~warm[p]
            <3>1. columns'[p] = <<>> /\ topics'[p] = <<>>
                BY <1>1, <1>4, <2>2 DEF CallLineage
            <3> QED BY <3>1, EmptySeq
        <2> QED BY <2>1, <2>2
    <1>6. arrays'[p] \in Seq(ArraysHeld(p)')
        BY <1>4, EmptySeq
    <1>7. \A d \in before'[p] : d[2] # Torn => d[2] <= versions'[d[1]]
        <2> TAKE d \in before'[p]
        <2>1. d \in Digests /\ (d[2] # Torn => d[2] = versions[d[1]])
            BY <1>4, DigestsType
        <2>2. versions[d[1]] \in Nat /\ versions' = versions
            BY <1>1, <2>1 DEF Digests, StateTypes
        <2> QED BY <2>1, <2>2
    <1>8. CallLineage(p)'
        BY <1>4, <1>5, <1>6, <1>7 DEF CallLineage
    <1>9. CacheInv'
        BY CallKeepsInv DEF LineageInv
    <1>10. \A r \in Processes \ {p} :
               /\ pc'[r] = pc[r] /\ request'[r] = request[r] /\ arrays'[r] = arrays[r]
               /\ before'[r] = before[r] /\ warm'[r] = warm[r]
               /\ columns'[r] = columns[r] /\ topics'[r] = topics[r]
        BY <1>1, <1>2 DEF StateTypes, HistoryTypes
    <1> QED BY <1>3, <1>8, <1>9, <1>10, StepOfOne

LEMMA RaiseLineage ==
    ASSUME LineageInv, NEW p \in Processes, Raise(p) \/ Restart(p)
    PROVE  LineageInv'
    <1> USE DEF Raise, Restart, Leave, Goto, caches
    <1>1. StateTypes /\ HistoryTypes
        BY DEF LineageInv, CacheInv
    <1>2. CacheInv'
        BY LeaveKeepsInv DEF LineageInv
    <1>3. HistoryTypes' /\ CallLineage(p)'
        BY LeaveLineage
    <1>4. \A r \in Processes \ {p} :
               /\ pc'[r] = pc[r] /\ request'[r] = request[r] /\ arrays'[r] = arrays[r]
               /\ before'[r] = before[r] /\ warm'[r] = warm[r]
               /\ columns'[r] = columns[r] /\ topics'[r] = topics[r]
        BY <1>1 DEF StateTypes, HistoryTypes
    <1> QED BY <1>2, <1>3, <1>4, StepOfOne

LEMMA LocateLineage ==
    ASSUME LineageInv, NEW p \in Processes, Locate(p)
    PROVE  LineageInv'
    <1>1. StateTypes /\ HistoryTypes /\ CallLineage(p)
        BY DEF LineageInv, CacheInv, CallsLineage
    <1>2. CASE Raise(p)
        BY <1>2, RaiseLineage
    <1>3. CASE ~Raise(p)
        <2> USE <1>3 DEF Locate, Goto, caches
        <2>1. Episode(p) \in Episodes
            BY <1>1, SourceType
               DEF LineageInv, CacheInv, CallsInProgress, CallInProgress, Episode
        <2>2. SchemeOf[Episode(p)] \in {"parquet", "mcap"}
            BY <2>1, CacheAssumption
        <2>3. /\ pc'[p] = IF SchemeOf[Episode(p)] = "parquet" THEN "schema" ELSE "topic"
              /\ UNCHANGED <<disk, versions, request, arrays, info, before, warm,
                             caches, results, calls>>
            BY <1>1 DEF StateTypes
        <2>4. Episode(p)' = Episode(p)
            BY <2>3 DEF Episode, Key
        <2>5. UNCHANGED <<columns, topics>>
            BY <2>3
        <2>6. CallLineage(p)'
            BY <1>1, <2>2, <2>3, <2>4, <2>5, HeldStays DEF CallLineage
        <2>7. CacheInv' /\ HistoryTypes'
            BY <2>3, LocateKeepsInv DEF LineageInv, HistoryTypes
        <2>8. \A r \in Processes \ {p} : pc'[r] = pc[r]
            BY <1>1 DEF StateTypes
        <2> QED BY <2>3, <2>6, <2>7, <2>8, StepOfOne
    <1> QED BY <1>2, <1>3

LEMMA ReadSchemaLineage ==
    ASSUME LineageInv, NEW p \in Processes, ReadSchema(p)
    PROVE  LineageInv'
    <1>1. StateTypes /\ HistoryTypes /\ CallLineage(p)
        BY DEF LineageInv, CacheInv, CallsLineage
    <1>2. CASE Raise(p)
        BY <1>2, RaiseLineage
    <1>3. CASE ~Raise(p)
        <2>1. /\ pc[p] = "schema"
              /\ pc' = [pc EXCEPT ![p] = "columns"]
              /\ UNCHANGED <<disk, versions, request, arrays, before, warm, columns,
                             topics, results, calls>>
            BY <1>3 DEF ReadSchema, Goto
        <2>2. pc'[p] = "columns"
            BY <1>1, <2>1 DEF StateTypes
        <2>3. Episode(p)' = Episode(p)
            BY <2>1 DEF Episode, Key
        <2>4. CallLineage(p)'
            BY <1>1, <2>1, <2>2, <2>3, HeldStays DEF CallLineage
        <2>5. CacheInv' /\ HistoryTypes'
            BY <2>1, ReadSchemaKeepsInv DEF LineageInv, HistoryTypes
        <2>6. \A r \in Processes \ {p} : pc'[r] = pc[r]
            BY <1>1, <2>1 DEF StateTypes
        <2> QED BY <2>1, <2>4, <2>5, <2>6, StepOfOne
    <1> QED BY <1>2, <1>3

\* The source of a stream is one whose digest is taken.
LEMMA UsedAtWork ==
    ASSUME LineageInv, NEW p \in Processes, pc[p] \in {"columns", "topic"}
    PROVE  Episode(p) \in Episodes /\ Episode(p) \in Used(request[p])
    <1>1. Episode(p) \in Episodes /\ HasSource(request[p], Key(p))
        BY AtWork DEF LineageInv
    <1>2. SchemeOf[Episode(p)] \in {"parquet", "mcap"}
        BY DEF LineageInv, CallsLineage, CallLineage
    <1> QED BY <1>1, <1>2 DEF HasSource, SourceOf, Used, Episode

\* What is read now is the latest version.
LEMMA ReadNow ==
    ASSUME LineageInv, NEW p \in Processes, NEW e \in Episodes, Whole(e),
           NEW cols \in Columns, NEW declared \in Columns
    PROVE  ArrayOf(e, cols, declared) \in Readable(p)
    <1>1. versions[e] \in Nat /\ versions[e] >= 1 /\ disk[e].version = versions[e]
        BY DEF LineageInv, CacheInv, StateTypes, DiskIsLatest, FilesThere
    <1> DEFINE array == ArrayOf(e, cols, declared)
    <1>2. array \in Arrays /\ array.episode = e /\ array.version = versions[e]
        BY <1>1 DEF ArrayOf, Arrays
    <1>3. \A d \in before[p] : d[1] = e /\ d[2] # Torn => d[2] <= versions[e]
        BY DEF LineageInv, CallsLineage, CallLineage
    <1> QED BY <1>1, <1>2, <1>3 DEF Readable

\* The columns that the file at hand calls for now.
LEMMA DeclaredType ==
    ASSUME LineageInv, NEW p \in Processes, pc[p] \in {"columns", "topic"}, Whole(Episode(p))
    PROVE  ColumnsFor(KindOf[Key(p)], disk[Episode(p)].layout) \in Columns
    <1>1. Episode(p) \in Episodes /\ KindOf[Key(p)] \in Kinds
        BY AtWork DEF LineageInv
    <1>2. disk[Episode(p)].layout \in AllLayouts
        BY <1>1, LayoutsType DEF LineageInv, CacheInv, DiskIsLatest
    <1> QED BY <1>1, <1>2, ColumnsForType

LEMMA ServeLineage ==
    ASSUME LineageInv, CacheInv', NEW p \in Processes, pc[p] \in {"columns", "topic"},
           NEW array \in Readable(p), array.episode = Episode(p), Serve(p, array),
           columns'[p] \in Seq(ColumnsHeld(p)), topics'[p] \in Seq(TopicsHeld(p)),
           \A r \in Processes \ {p} : columns'[r] = columns[r] /\ topics'[r] = topics[r]
    PROVE  LineageInv'
    <1>1. StateTypes /\ HistoryTypes /\ CallLineage(p)
        BY DEF LineageInv, CacheInv, CallsLineage
    <1>2. /\ UNCHANGED <<disk, versions, request, before, warm, schemas, results, calls>>
          /\ pc'[p] = "stream" /\ arrays'[p] = Append(arrays[p], array)
          /\ \A r \in Processes \ {p} : pc'[r] = pc[r] /\ arrays'[r] = arrays[r]
        BY <1>1 DEF Serve, Goto, StateTypes
    <1>3. ColumnsHeld(p)' = ColumnsHeld(p) /\ TopicsHeld(p)' = TopicsHeld(p)
          /\ ArraysHeld(p)' = ArraysHeld(p)
        BY <1>2, HeldStays
    <1>4. arrays'[p] \in Seq(ArraysHeld(p)')
        <2>1. array \in ArraysHeld(p)
            BY UsedAtWork DEF ArraysHeld
        <2>2. arrays[p] \in Seq(ArraysHeld(p))
            BY <1>1 DEF CallLineage
        <2>3. Append(arrays[p], array) \in Seq(ArraysHeld(p))
            BY <2>1, <2>2, AppendProperties
        <2> QED BY <1>2, <1>3, <2>3
    <1>5. CallLineage(p)'
        BY <1>1, <1>2, <1>3, <1>4 DEF CallLineage
    <1>6. HistoryTypes'
        BY <1>2 DEF LineageInv, HistoryTypes
    <1> QED BY <1>2, <1>5, <1>6, StepOfOne

LEMMA ReadColumnsLineage ==
    ASSUME LineageInv, NEW p \in Processes, ReadColumns(p)
    PROVE  LineageInv'
    <1> DEFINE e == Episode(p)
               cols == Asked(p)
               cache == columns[p]
               key == ColumnsKey(e, cols)
               declared == ColumnsFor(KindOf[Key(p)], disk[e].layout)
               array == ArrayOf(e, cols, declared)
               held == ColumnsHeld(p)
    <1>1. /\ StateTypes /\ CallLineage(p) /\ pc[p] = "columns" /\ e \in Episodes
          /\ ColumnsSize \in Nat \ {0} /\ Bounded(cache, ColumnsSize) /\ cache \in Seq(held)
          /\ topics[p] \in Seq(TopicsHeld(p))
        BY UsedAtWork, CacheAssumption
           DEF LineageInv, CacheInv, CachesBounded, CallsLineage, CallLineage, ReadColumns
    <1>2. cols \in Columns
        <2>1. info[p] \in AllLayouts
            BY <1>1 DEF LineageInv, CacheInv, CallsInProgress, CallInProgress
        <2> QED BY <1>1, <2>1, AtWork, ColumnsForType DEF Asked, LineageInv
    <1>3. CacheInv'
        BY ReadColumnsKeepsInv DEF LineageInv
    <1>4. ASSUME NEW a \in Readable(p), a.episode = e, NEW new \in Seq(held),
                 columns' = [columns EXCEPT ![p] = new], Serve(p, a), UNCHANGED topics
          PROVE  LineageInv'
        <2>1. /\ columns'[p] = new /\ topics'[p] = topics[p]
              /\ \A r \in Processes \ {p} : columns'[r] = columns[r] /\ topics'[r] = topics[r]
            BY <1>1, <1>4 DEF StateTypes
        <2>2. columns'[p] \in Seq(ColumnsHeld(p)) /\ topics'[p] \in Seq(TopicsHeld(p))
            BY <1>1, <2>1
        <2> QED BY <1>1, <1>3, <1>4, <2>1, <2>2, ServeLineage
    <1> HIDE DEF cache, held
    <1>5. CASE Hit(cache, key)
        <2>1. /\ Touch(cache, key) \in Seq(held)
              /\ cache[Entry(cache, key)] \in held
              /\ cache[Entry(cache, key)].key = key
              /\ Cached(cache, key) = cache[Entry(cache, key)].value
            BY <1>1, <1>5, TouchKeeps, EntryProperties
        <2>2. Cached(cache, key) \in Readable(p) /\ Cached(cache, key).episode = e
            BY <2>1 DEF held, ColumnsHeld, ColumnEntries, ColumnsKey
        <2>3. /\ columns' = [columns EXCEPT ![p] = Touch(cache, key)]
              /\ Serve(p, Cached(cache, key)) /\ UNCHANGED topics
            BY <1>5 DEF ReadColumns, cache
        <2> QED BY <1>4, <2>1, <2>2, <2>3
    <1>6. CASE ~Hit(cache, key) /\ ~Raise(p)
        <2>1. /\ Whole(e) /\ Serve(p, array) /\ UNCHANGED topics
              /\ columns' = [columns EXCEPT ![p] = Insert(cache, ColumnsSize, key, array)]
            BY <1>6 DEF ReadColumns, cache
        <2>2. /\ array \in Readable(p) /\ array.episode = e /\ array.columns = cols
            BY <1>1, <1>2, <2>1, DeclaredType, ReadNow DEF ArrayOf
        <2>3. [key |-> key, value |-> array] \in held
            BY <1>1, <1>2, <2>2 DEF held, ColumnsHeld, ColumnEntries, ColumnsKey, Readable
        <2>4. Insert(cache, ColumnsSize, key, array) \in Seq(held)
            BY <1>1, <1>6, <2>3, InsertKeeps
        <2> QED BY <1>4, <2>1, <2>2, <2>4
    <1>7. CASE Raise(p)
        BY <1>7, RaiseLineage
    <1> QED BY <1>5, <1>6, <1>7

LEMMA ReadTopicLineage ==
    ASSUME LineageInv, NEW p \in Processes, ReadTopic(p)
    PROVE  LineageInv'
    <1> DEFINE e == Episode(p)
               kind == KindOf[Key(p)]
               cache == topics[p]
               key == <<e, kind>>
               array == ArrayOf(e, <<kind, "topic">>, <<kind, "topic">>)
               held == TopicsHeld(p)
    <1>1. /\ StateTypes /\ CallLineage(p) /\ pc[p] = "topic" /\ e \in Episodes
          /\ TopicSize \in Nat \ {0} /\ Bounded(cache, TopicSize) /\ cache \in Seq(held)
          /\ columns[p] \in Seq(ColumnsHeld(p))
        BY UsedAtWork, CacheAssumption
           DEF LineageInv, CacheInv, CachesBounded, CallsLineage, CallLineage, ReadTopic
    <1>2. kind \in Kinds /\ <<kind, "topic">> \in Columns
        BY <1>1, AtWork DEF LineageInv, Columns
    <1>3. CacheInv'
        BY ReadTopicKeepsInv DEF LineageInv
    <1>4. ASSUME NEW a \in Readable(p), a.episode = e, NEW new \in Seq(held),
                 topics' = [topics EXCEPT ![p] = new], Serve(p, a), UNCHANGED columns
          PROVE  LineageInv'
        <2>1. /\ topics'[p] = new /\ columns'[p] = columns[p]
              /\ \A r \in Processes \ {p} : columns'[r] = columns[r] /\ topics'[r] = topics[r]
            BY <1>1, <1>4 DEF StateTypes
        <2>2. columns'[p] \in Seq(ColumnsHeld(p)) /\ topics'[p] \in Seq(TopicsHeld(p))
            BY <1>1, <2>1
        <2> QED BY <1>1, <1>3, <1>4, <2>1, <2>2, ServeLineage
    <1> HIDE DEF cache, held
    <1>5. CASE Hit(cache, key)
        <2>1. /\ Touch(cache, key) \in Seq(held)
              /\ cache[Entry(cache, key)] \in held
              /\ cache[Entry(cache, key)].key = key
              /\ Cached(cache, key) = cache[Entry(cache, key)].value
            <3> HIDE DEF key, e
            <3>1. Touch(cache, key) \in Seq(held)
                BY <1>1, <1>5, TouchKeeps
            <3> QED BY <1>1, <1>5, <3>1, EntryProperties
        <2>2. Cached(cache, key) \in Readable(p) /\ Cached(cache, key).episode = e
            BY <2>1 DEF held, TopicsHeld, TopicEntries
        <2>3. /\ topics' = [topics EXCEPT ![p] = Touch(cache, key)]
              /\ Serve(p, Cached(cache, key)) /\ UNCHANGED columns
            BY <1>5 DEF ReadTopic, cache
        <2> QED BY <1>4, <2>1, <2>2, <2>3
    <1>6. CASE ~Hit(cache, key) /\ ~Raise(p)
        <2>1. /\ Whole(e) /\ Serve(p, array) /\ UNCHANGED columns
              /\ topics' = [topics EXCEPT ![p] = Insert(cache, TopicSize, key, array)]
            BY <1>6 DEF ReadTopic, cache
        <2>2. /\ array \in Readable(p) /\ array.episode = e
              /\ array.columns = <<kind, "topic">> /\ array.declared = array.columns
            BY <1>1, <1>2, <2>1, ReadNow DEF ArrayOf
        <2>3. [key |-> key, value |-> array] \in held
            BY <1>1, <1>2, <2>2 DEF held, TopicsHeld, TopicEntries, Readable
        <2>4. Insert(cache, TopicSize, key, array) \in Seq(held)
            BY <1>1, <1>6, <2>3, InsertKeeps
        <2> QED BY <1>4, <2>1, <2>2, <2>4
    <1>7. CASE Raise(p)
        BY <1>7, RaiseLineage
    <1> QED BY <1>5, <1>6, <1>7

\* A table's arrays when its sources are hashed: each is of an episode whose
\* digest is taken.
LEMMA HashedFile ==
    ASSUME LineageInv, NEW p \in Processes, pc[p] = "stream", NEW n \in DOMAIN arrays[p]
    PROVE  LET a == arrays[p][n]
               e == a.episode
               hashes == SourceHashes(request[p])
           IN  /\ a \in Readable(p)
               /\ e \in Episodes /\ versions[e] \in Nat /\ a.version \in 1..versions[e]
               /\ disk[e] # Torn => Whole(e) /\ <<e, versions[e]>> \in hashes
               /\ Settled(hashes) => disk[e] # Torn /\ versions[e] # Torn
    <1> DEFINE q == request[p]
               a == arrays[p][n]
               e == a.episode
               v == versions[e]
    <1>1. /\ a \in Readable(p) /\ e \in Used(q)
        <2>1. arrays[p] \in Seq(ArraysHeld(p))
            BY DEF LineageInv, CallsLineage, CallLineage
        <2>2. a \in ArraysHeld(p)
            BY <2>1, LenProperties, ElementOfSeq
        <2> QED BY <2>2 DEF ArraysHeld
    <1>2. q \in Requests
        BY DEF LineageInv, CacheInv, CallsInProgress, CallInProgress
    <1>3. /\ e \in Episodes /\ v \in Nat /\ a.version \in 1..v
        BY <1>1 DEF Readable, Arrays, LineageInv, CacheInv, StateTypes
    <1>4. disk[e] # Absent
        BY <1>3 DEF LineageInv, FilesThere
    <1>5. Digest(e) \in SourceHashes(q)
        BY <1>1, <1>3, <1>4 DEF Used, SourceHashes
    <1>6. disk[e] # Torn => Whole(e) /\ Digest(e) = <<e, v>>
        <2>1. disk[e] # Torn => disk[e].version = v
            BY <1>3, <1>4 DEF LineageInv, CacheInv, DiskIsLatest, Whole
        <2> QED BY <1>4, <2>1 DEF Digest, Whole
    <1> HIDE DEF q, a, e, v
    <1>7. Settled(SourceHashes(q)) => disk[e] # Torn /\ v # Torn
        <2>1. Settled(SourceHashes(q)) => Digest(e)[2] # Torn
            BY <1>5 DEF Settled
        <2>2. Digest(e)[2] = Torn \/ disk[e] # Torn
            BY DEF Digest
        <2> QED BY <1>6, <2>1, <2>2
    <1> QED BY <1>1, <1>3, <1>5, <1>6, <1>7 DEF q, a, e, v

\* And it is no newer than its digest, nor older when the sources were the
\* same at both ends of a first call.
LEMMA HashedArray ==
    ASSUME LineageInv, NEW p \in Processes, pc[p] = "stream", NEW n \in DOMAIN arrays[p]
    PROVE  LET a == arrays[p][n]
               hashes == SourceHashes(request[p])
           IN  /\ NeverRewritten => <<a.episode, a.version>> \in hashes
               /\ ~warm[p] /\ before[p] = hashes /\ Settled(hashes) =>
                      <<a.episode, a.version>> \in hashes
    <1> DEFINE a == arrays[p][n]
               e == a.episode
               v == versions[e]
               hashes == SourceHashes(request[p])
    <1>1. /\ a \in Readable(p) /\ e \in Episodes /\ v \in Nat /\ a.version \in 1..v
          /\ disk[e] # Torn => Whole(e) /\ <<e, v>> \in hashes
          /\ Settled(hashes) => disk[e] # Torn /\ v # Torn
        BY HashedFile
    <1> HIDE DEF a, e, v, hashes
    <1>2. ASSUME NeverRewritten
          PROVE  <<e, a.version>> \in hashes
        <2>1. v = 1 /\ disk[e] # Torn
            BY <1>1, <1>2 DEF NeverRewritten, v
        <2> QED BY <1>1, <2>1
    <1>3. ASSUME ~warm[p], before[p] = hashes, Settled(hashes)
          PROVE  <<e, a.version>> \in hashes
        <2>1. v <= a.version
            BY <1>1, <1>3 DEF Readable, e
        <2>2. v = a.version
            BY <1>1, <2>1
        <2> QED BY <1>1, <1>3, <2>2
    <1> QED BY <1>2, <1>3 DEF a, e, hashes

LEMMA HashSourcesLineage ==
    ASSUME LineageInv, NEW p \in Processes, HashSources(p)
    PROVE  LineageInv'
    <1> DEFINE hashes == SourceHashes(request[p])
               r == [request |-> request[p], arrays |-> arrays[p], hashes |-> hashes,
                     before |-> before[p], fresh |-> ~warm[p]]
    <1>1. /\ pc[p] = "stream" /\ Leave(p) /\ UNCHANGED <<disk, versions, caches, calls>>
          /\ warm' = [warm EXCEPT ![p] = TRUE] /\ results' = results \cup {r}
        BY DEF HashSources, Return
    <1>2. HistoryTypes' /\ CallLineage(p)'
        BY <1>1, LeaveLineage
    <1>3. CacheInv'
        BY HashSourcesKeepsInv DEF LineageInv
    <1>4. NeverRewritten' <=> NeverRewritten
        BY <1>1 DEF NeverRewritten
    <1>5. LineageCoversTable'
        <2>1. NeverRewritten => \A n \in DOMAIN r.arrays :
                  <<r.arrays[n].episode, r.arrays[n].version>> \in r.hashes
            BY <1>1, HashedArray
        <2> HIDE DEF r
        <2> QED BY <1>1, <1>4, <2>1 DEF LineageInv, LineageCoversTable
    <1>6. FirstCallIsCurrent'
        <2>1. Undisturbed(r) => \A n \in DOMAIN r.arrays :
                  <<r.arrays[n].episode, r.arrays[n].version>> \in r.hashes
            BY <1>1, HashedArray DEF Undisturbed
        <2> HIDE DEF r
        <2> QED BY <1>1, <2>1 DEF LineageInv, FirstCallIsCurrent
    <1>7. \A s \in Processes \ {p} :
               /\ pc'[s] = pc[s] /\ request'[s] = request[s] /\ arrays'[s] = arrays[s]
               /\ before'[s] = before[s] /\ warm'[s] = warm[s]
               /\ columns'[s] = columns[s] /\ topics'[s] = topics[s]
        BY <1>1 DEF LineageInv, CacheInv, StateTypes, HistoryTypes, Leave, Goto, caches
    <1> QED BY <1>1, <1>2, <1>3, <1>5, <1>6, <1>7, StepOfOne

----------------------------------------------------------------------------
(* The theorems.                                                           *)

\* LineageInv holds in every reachable state.
THEOREM LineageInvariant == Spec => []LineageInv
    <1>1. LineageInv /\ Next => LineageInv'
        <2> SUFFICES ASSUME LineageInv, Next PROVE LineageInv'
            OBVIOUS
        <2>1. ASSUME NEW e \in Episodes, BeginEpisode(e) \/ FinishEpisode(e)
              PROVE  LineageInv'
            BY <2>1, ProducerLineage, BeginEpisodeKeepsInv, FinishEpisodeKeepsInv DEF LineageInv
        <2> QED BY <2>1, CallLineageStep, LocateLineage, ReadSchemaLineage,
                   ReadColumnsLineage, ReadTopicLineage, HashSourcesLineage, RaiseLineage
                DEF Next
    <1>2. LineageInv /\ UNCHANGED vars => LineageInv'
        <2> SUFFICES ASSUME LineageInv, UNCHANGED vars PROVE LineageInv'
            OBVIOUS
        <2> USE DEF vars, call, caches
        <2>1. CacheInv'
            BY DEF LineageInv, CacheInv, StateTypes, DiskIsLatest, CachesBounded,
                   CallsInProgress, CallInProgress, Whole, Key
        <2>2. HistoryTypes' /\ FilesThere'
            BY DEF LineageInv, HistoryTypes, FilesThere, Whole
        <2>3. CallsLineage'
            <3> SUFFICES ASSUME NEW p \in Processes PROVE CallLineage(p)'
                BY DEF CallsLineage
            <3>1. Episode(p)' = Episode(p)
                BY DEF Episode, Key
            <3>2. CallLineage(p)
                BY DEF LineageInv, CallsLineage
            <3> QED BY <3>1, <3>2, HeldStays DEF CallLineage
        <2>4. LineageCoversTable' /\ FirstCallIsCurrent'
            BY DEF LineageInv, LineageCoversTable, FirstCallIsCurrent, NeverRewritten
        <2> QED BY <2>1, <2>2, <2>3, <2>4 DEF LineageInv
    <1> QED BY InitLineage, <1>1, <1>2, PTL DEF Spec

\* LineageCoversTable holds in every reachable state: with producers that write
\* an episode once, the manifest's source hashes name every version that the
\* table was read from, cached or not.
THEOREM LineageCovers == Spec => []LineageCoversTable
    <1>1. LineageInv => LineageCoversTable
        BY DEF LineageInv
    <1> QED BY LineageInvariant, <1>1, PTL

\* FirstCallIsCurrent holds in every reachable state: with producers that
\* rewrite, the same is true of a process' first call, when its sources are the
\* same at both its ends.
THEOREM FirstCall == Spec => []FirstCallIsCurrent
    <1>1. LineageInv => FirstCallIsCurrent
        BY DEF LineageInv
    <1> QED BY LineageInvariant, <1>1, PTL

----------------------------------------------------------------------------
(***************************************************************************)
(* A table never pairs the sensor order of one file with the columns of    *)
(* another.                                                                *)
(***************************************************************************)

----------------------------------------------------------------------------
(* The inductive invariant.                                                *)

\* The file is what it was when p may first have read it: no episode has been
\* rewritten, or it is whole and of the version it had when p's first call
\* began.
Steady(p, e) ==
    \/ NeverRewritten
    \/ ~warm[p] /\ Whole(e) /\ versions[e] # Torn /\ <<e, versions[e]>> \in before[p]

InOrder(array) == array.columns = array.declared

\* What p may hold of a steady file e.
SchemasOf(e) ==
    {x \in SchemaEntries : x.key = e => Whole(e) /\ x.value = disk[e].layout}
ColumnsOf(e) == {x \in ColumnEntries : x.key[1] = e => InOrder(x.value)}
ArraysOf(e) == {a \in Arrays : a.episode = e => InOrder(a)}

OrderOf(p, e) ==
    /\ schemas[p] \in Seq(SchemasOf(e))
    /\ pc[p] = "columns" /\ Episode(p) = e => Whole(e) /\ info[p] = disk[e].layout
    /\ columns[p] \in Seq(ColumnsOf(e))
    /\ arrays[p] \in Seq(ArraysOf(e))

CallInOrder(p) ==
    /\ \A e \in Episodes : Steady(p, e) => OrderOf(p, e)
    /\ pc[p] = "idle" /\ ~warm[p] => schemas[p] = <<>>

OrderInv ==
    /\ LineageInv
    /\ \A p \in Processes : CallInOrder(p)
    /\ OrdersNeverMix

----------------------------------------------------------------------------
(* What any step leaves alone.                                             *)

\* A step that leaves the files alone and concerns process p alone.
LEMMA OthersInOrder ==
    ASSUME OrderInv, LineageInv', NEW p \in Processes, UNCHANGED <<disk, versions>>,
           \A r \in Processes \ {p} :
               /\ pc'[r] = pc[r] /\ request'[r] = request[r] /\ arrays'[r] = arrays[r]
               /\ info'[r] = info[r] /\ before'[r] = before[r] /\ warm'[r] = warm[r]
               /\ schemas'[r] = schemas[r] /\ columns'[r] = columns[r],
           CallInOrder(p)',
           OrdersNeverMix' \/ UNCHANGED results
    PROVE  OrderInv'
    <1>1. NeverRewritten' <=> NeverRewritten
        BY DEF NeverRewritten
    <1>2. ASSUME NEW r \in Processes, r # p
          PROVE  CallInOrder(r)'
        <2>1. CallInOrder(r)
            BY DEF OrderInv
        <2>2. ASSUME NEW e \in Episodes, Steady(r, e)'
              PROVE  OrderOf(r, e)'
            <3>1. Steady(r, e)
                BY <1>1, <1>2, <2>2 DEF Steady, Whole
            <3>2. OrderOf(r, e)
                BY <2>1, <3>1 DEF CallInOrder
            <3>3. Episode(r)' = Episode(r)
                BY <1>2 DEF Episode, Key
            <3>4. UNCHANGED <<SchemasOf(e), ColumnsOf(e), ArraysOf(e)>>
                BY DEF SchemasOf, ColumnsOf, ArraysOf, SchemaEntries, ColumnEntries, Arrays,
                       InOrder, Whole
            <3> QED BY <1>2, <3>2, <3>3, <3>4 DEF OrderOf, Whole
        <2> QED BY <1>2, <2>1, <2>2 DEF CallInOrder
    <1>3. OrdersNeverMix'
        BY <1>1 DEF OrderInv, OrdersNeverMix, Undisturbed, Settled
    <1> QED BY <1>2, <1>3 DEF OrderInv

----------------------------------------------------------------------------
(* One lemma for each group of actions.                                    *)

LEMMA InitInOrder == Init => OrderInv
    <1> SUFFICES ASSUME Init PROVE OrderInv
        OBVIOUS
    <1>1. ASSUME NEW p \in Processes, NEW e \in Episodes PROVE OrderOf(p, e)
        <2>1. <<>> \in Seq(SchemasOf(e)) /\ <<>> \in Seq(ColumnsOf(e)) /\ <<>> \in Seq(ArraysOf(e))
            BY EmptySeq
        <2> QED BY <2>1 DEF Init, OrderOf
    <1> QED BY <1>1, InitLineage DEF Init, OrderInv, CallInOrder, OrdersNeverMix

\* A file that is steady after the producer's step was so before it, and is
\* still what it was.
LEMMA SteadyStays ==
    ASSUME LineageInv, LineageInv', NEW d \in Episodes, BeginEpisode(d) \/ FinishEpisode(d),
           NEW p \in Processes, NEW e \in Episodes, Steady(p, e)'
    PROVE  Steady(p, e) /\ (Whole(e) => Whole(e)' /\ disk'[e] = disk[e])
    <1>1. /\ StateTypes /\ FilesThere /\ UNCHANGED <<warm, before>>
          /\ versions[e] \in Nat /\ versions[d] \in Nat
        BY DEF LineageInv, CacheInv, StateTypes, BeginEpisode, FinishEpisode, call
    <1>2. ASSUME d # e
          PROVE  disk'[e] = disk[e] /\ versions'[e] = versions[e]
        BY <1>1, <1>2 DEF BeginEpisode, FinishEpisode, StateTypes
    <1>3. CASE NeverRewritten'
        <2>1. NeverRewritten
            BY <1>1, <1>3, WrittenOnce
        <2>2. ASSUME Whole(e), d = e PROVE FALSE
            <3>1. versions[e] >= 1
                BY <1>1, <2>2 DEF FilesThere
            <3>2. BeginEpisode(e)
                BY <2>2 DEF FinishEpisode, Whole
            <3>3. disk'[e] = Torn /\ versions'[e] = versions[e]
                BY <1>1, <3>2 DEF BeginEpisode, StateTypes
            <3>4. versions'[e] = 0
                BY <1>3, <3>3 DEF NeverRewritten
            <3> QED BY <1>1, <3>1, <3>3, <3>4
        <2> QED BY <1>2, <2>1, <2>2 DEF Steady, Whole
    <1>4. CASE ~NeverRewritten'
        <2>1. /\ ~warm[p] /\ Whole(e)' /\ versions'[e] # Torn
              /\ <<e, versions'[e]>> \in before[p]
            BY <1>1, <1>4 DEF Steady
        <2>2. versions'[e] <= versions[e]
            BY <2>1 DEF LineageInv, CallsLineage, CallLineage
        <2>3. d # e
            <3>1. CASE BeginEpisode(d)
                BY <1>1, <2>1, <3>1 DEF BeginEpisode, StateTypes, Whole
            <3>2. CASE FinishEpisode(d)
                BY <1>1, <2>2, <3>2 DEF FinishEpisode, StateTypes
            <3> QED BY <3>1, <3>2
        <2> QED BY <1>2, <2>1, <2>3 DEF Steady, Whole
    <1> QED BY <1>3, <1>4

LEMMA ProducerInOrder ==
    ASSUME OrderInv, LineageInv', NEW d \in Episodes, BeginEpisode(d) \/ FinishEpisode(d)
    PROVE  OrderInv'
    <1>1. UNCHANGED <<call, caches, results>>
        BY DEF BeginEpisode, FinishEpisode
    <1>2. ASSUME NEW p \in Processes, NEW e \in Episodes, Steady(p, e)'
          PROVE  OrderOf(p, e)'
        <2>1. Steady(p, e) /\ (Whole(e) => Whole(e)' /\ disk'[e] = disk[e])
            BY <1>2, SteadyStays DEF OrderInv
        <2>2. OrderOf(p, e)
            BY <2>1 DEF OrderInv, CallInOrder
        <2>3. SchemasOf(e) \subseteq SchemasOf(e)'
            BY <2>1 DEF SchemasOf, SchemaEntries
        <2>4. schemas[p] \in Seq(SchemasOf(e)')
            BY <2>2, <2>3, SeqMonotonic DEF OrderOf
        <2>5. Episode(p)' = Episode(p)
            BY <1>1 DEF Episode, Key, call
        <2>6. UNCHANGED <<ColumnsOf(e), ArraysOf(e)>>
            BY DEF ColumnsOf, ArraysOf, ColumnEntries, Arrays, InOrder
        <2> QED BY <1>1, <2>1, <2>2, <2>4, <2>5, <2>6 DEF OrderOf, call, caches
    <1>3. OrdersNeverMix'
        <2>1. NeverRewritten' => NeverRewritten
            BY WrittenOnce DEF OrderInv, LineageInv, CacheInv
        <2> QED BY <1>1, <2>1 DEF OrderInv, OrdersNeverMix, Undisturbed, Settled
    <1> QED BY <1>1, <1>2, <1>3 DEF OrderInv, CallInOrder, call, caches

\* A step of p outside its resolvers: what it holds is as before or gone, and
\* gone unless its call is the one it was, or not its first.
LEMMA OutsideInOrder ==
    ASSUME OrderInv, LineageInv', NEW p \in Processes, UNCHANGED <<disk, versions>>,
           \A r \in Processes \ {p} :
               /\ pc'[r] = pc[r] /\ request'[r] = request[r] /\ arrays'[r] = arrays[r]
               /\ info'[r] = info[r] /\ before'[r] = before[r] /\ warm'[r] = warm[r]
               /\ schemas'[r] = schemas[r] /\ columns'[r] = columns[r],
           pc'[p] # "columns",
           schemas'[p] \in {schemas[p], <<>>}, columns'[p] \in {columns[p], <<>>},
           arrays'[p] \in {arrays[p], <<>>},
           \/ warm'[p]
           \/ warm'[p] = warm[p] /\ before'[p] = before[p]
           \/ schemas'[p] = <<>> /\ columns'[p] = <<>> /\ arrays'[p] = <<>>,
           pc'[p] = "idle" => warm'[p] \/ schemas'[p] = <<>>,
           OrdersNeverMix' \/ UNCHANGED results
    PROVE  OrderInv'
    <1>1. ASSUME NEW e \in Episodes, Steady(p, e)'
          PROVE  OrderOf(p, e)'
        <2>1. UNCHANGED <<SchemasOf(e), ColumnsOf(e), ArraysOf(e)>>
            BY DEF SchemasOf, ColumnsOf, ArraysOf, SchemaEntries, ColumnEntries, Arrays,
                   InOrder, Whole
        <2>2. <<>> \in Seq(SchemasOf(e)) /\ <<>> \in Seq(ColumnsOf(e)) /\ <<>> \in Seq(ArraysOf(e))
            BY EmptySeq
        <2>3. CASE schemas'[p] = <<>> /\ columns'[p] = <<>> /\ arrays'[p] = <<>>
            BY <2>1, <2>2, <2>3 DEF OrderOf
        <2>4. CASE warm'[p] \/ (warm'[p] = warm[p] /\ before'[p] = before[p])
            <3>1. Steady(p, e)
                BY <1>1, <2>4 DEF Steady, Whole, NeverRewritten
            <3>2. OrderOf(p, e)
                BY <3>1 DEF OrderInv, CallInOrder
            <3> QED BY <2>1, <2>2, <3>2 DEF OrderOf
        <2> QED BY <2>3, <2>4
    <1>2. CallInOrder(p)'
        BY <1>1 DEF CallInOrder
    <1> QED BY <1>2, OthersInOrder

LEMMA RaiseInOrder ==
    ASSUME OrderInv, LineageInv', NEW p \in Processes, Raise(p) \/ Restart(p)
    PROVE  OrderInv'
    <1>1. StateTypes /\ HistoryTypes
        BY DEF OrderInv, LineageInv, CacheInv
    <1> QED BY <1>1, OutsideInOrder
            DEF StateTypes, HistoryTypes, Raise, Restart, Leave, Goto, caches

LEMMA CallStepInOrder ==
    ASSUME OrderInv, LineageInv', NEW p \in Processes, Call(p)
    PROVE  OrderInv'
    <1>1. /\ StateTypes /\ HistoryTypes /\ pc[p] = "idle" /\ arrays[p] = <<>>
          /\ warm[p] \/ (schemas[p] = <<>> /\ columns[p] = <<>>)
        BY DEF OrderInv, CallInOrder, LineageInv, CacheInv, CallsInProgress, CallsLineage,
               CallLineage, Call
    <1> QED BY <1>1, OutsideInOrder DEF StateTypes, HistoryTypes, Call, Goto, caches

LEMMA LocateInOrder ==
    ASSUME OrderInv, LineageInv', NEW p \in Processes, Locate(p)
    PROVE  OrderInv'
    <1>1. CASE Raise(p)
        BY <1>1, RaiseInOrder
    <1>2. CASE ~Raise(p)
        <2>1. StateTypes
            BY DEF OrderInv, LineageInv, CacheInv
        <2>2. /\ pc'[p] \in {"schema", "topic"} /\ \A r \in Processes \ {p} : pc'[r] = pc[r]
              /\ UNCHANGED <<disk, versions, request, arrays, info, before, warm, caches, results>>
            BY <1>2, <2>1 DEF Locate, Goto, StateTypes
        <2> QED BY <2>2, OutsideInOrder DEF caches
    <1> QED BY <1>1, <1>2

LEMMA HashSourcesInOrder ==
    ASSUME OrderInv, LineageInv', NEW p \in Processes, HashSources(p)
    PROVE  OrderInv'
    <1> DEFINE hashes == SourceHashes(request[p])
               r == [request |-> request[p], arrays |-> arrays[p], hashes |-> hashes,
                     before |-> before[p], fresh |-> ~warm[p]]
    <1>1. /\ pc[p] = "stream" /\ Leave(p) /\ UNCHANGED <<disk, versions, caches, calls>>
          /\ warm' = [warm EXCEPT ![p] = TRUE] /\ results' = results \cup {r}
        BY DEF HashSources, Return
    <1>2. ASSUME NeverRewritten \/ Undisturbed(r), NEW n \in DOMAIN arrays[p]
          PROVE  InOrder(arrays[p][n])
        <2> DEFINE a == arrays[p][n]
        <2>1. /\ LineageInv /\ arrays[p] \in Seq(Arrays) /\ a \in Arrays
              /\ \A e \in Episodes : Steady(p, e) => OrderOf(p, e)
            BY LenProperties, ElementOfSeq
               DEF OrderInv, CallInOrder, LineageInv, CacheInv, StateTypes
        <2>2. a.episode \in Episodes
            BY <2>1 DEF Arrays
        <2>3. Steady(p, a.episode)
            <3>1. CASE NeverRewritten
                BY <3>1 DEF Steady
            <3>2. CASE Undisturbed(r)
                <4>1. <<a.episode, versions[a.episode]>> \in before[p]
                      /\ Whole(a.episode) /\ versions[a.episode] # Torn /\ ~warm[p]
                    BY <1>1, <2>1, <3>2, HashedFile DEF Undisturbed
                <4> QED BY <4>1 DEF Steady
            <3> QED BY <1>2, <3>1, <3>2
        <2>4. arrays[p] \in Seq(ArraysOf(a.episode))
            BY <2>1, <2>2, <2>3 DEF OrderOf
        <2>5. arrays[p][n] \in ArraysOf(a.episode)
            BY <2>4, LenProperties, ElementOfSeq
        <2> QED BY <2>5 DEF ArraysOf
    <1>3. OrdersNeverMix'
        <2>1. NeverRewritten \/ Undisturbed(r) =>
                  \A n \in DOMAIN r.arrays : r.arrays[n].columns = r.arrays[n].declared
            BY <1>2 DEF InOrder
        <2>2. NeverRewritten' <=> NeverRewritten
            BY <1>1 DEF NeverRewritten
        <2> HIDE DEF r
        <2> QED BY <1>1, <2>1, <2>2 DEF OrderInv, OrdersNeverMix, Undisturbed, Settled
    <1>4. StateTypes /\ HistoryTypes
        BY DEF OrderInv, LineageInv, CacheInv
    <1>5. /\ \A s \in Processes \ {p} :
               /\ pc'[s] = pc[s] /\ request'[s] = request[s] /\ arrays'[s] = arrays[s]
               /\ info'[s] = info[s] /\ before'[s] = before[s] /\ warm'[s] = warm[s]
               /\ schemas'[s] = schemas[s] /\ columns'[s] = columns[s]
          /\ pc'[p] = "idle" /\ arrays'[p] = <<>> /\ warm'[p]
          /\ schemas'[p] = schemas[p] /\ columns'[p] = columns[p]
        BY <1>1, <1>4 DEF StateTypes, HistoryTypes, Leave, Goto, caches
    <1> QED BY <1>1, <1>3, <1>5, OutsideInOrder

LEMMA ReadSchemaInOrder ==
    ASSUME OrderInv, LineageInv', NEW p \in Processes, ReadSchema(p)
    PROVE  OrderInv'
    <1> DEFINE e == Episode(p)
               cache == schemas[p]
    <1>1. /\ StateTypes /\ pc[p] = "schema" /\ e \in Episodes
          /\ SchemaSize \in Nat \ {0} /\ Bounded(cache, SchemaSize)
        BY AtWork, CacheAssumption
           DEF OrderInv, LineageInv, CacheInv, CachesBounded, ReadSchema
    \* For every steady file, the cache and what is taken from it are its own.
    <1>2. ASSUME NEW layout, NEW new,
                 \A d \in Episodes : Steady(p, d) =>
                     /\ new \in Seq(SchemasOf(d))
                     /\ d = e => Whole(d) /\ layout = disk[d].layout,
                 schemas' = [schemas EXCEPT ![p] = new], info' = [info EXCEPT ![p] = layout],
                 Goto(p, "columns"),
                 UNCHANGED <<disk, versions, request, arrays, before, warm, columns, results>>
          PROVE  OrderInv'
        <2>1. /\ schemas'[p] = new /\ info'[p] = layout /\ pc'[p] = "columns"
              /\ \A r \in Processes \ {p} : pc'[r] = pc[r] /\ info'[r] = info[r]
                                            /\ schemas'[r] = schemas[r]
            BY <1>1, <1>2 DEF StateTypes, Goto
        <2>2. Episode(p)' = Episode(p)
            BY <1>2 DEF Episode, Key
        <2>3. ASSUME NEW d \in Episodes, Steady(p, d)'
              PROVE  OrderOf(p, d)'
            <3>1. Steady(p, d)
                BY <1>2, <2>3 DEF Steady, Whole, NeverRewritten
            <3>2. OrderOf(p, d)
                BY <3>1 DEF OrderInv, CallInOrder
            <3>3. UNCHANGED <<SchemasOf(d), ColumnsOf(d), ArraysOf(d)>>
                BY <1>2 DEF SchemasOf, ColumnsOf, ArraysOf, SchemaEntries, ColumnEntries,
                            Arrays, InOrder, Whole
            <3>4. new \in Seq(SchemasOf(d)) /\ (d = e => Whole(d) /\ layout = disk[d].layout)
                BY <1>2, <3>1
            <3> QED BY <1>2, <2>1, <2>2, <3>2, <3>3, <3>4 DEF OrderOf, Whole
        <2>4. CallInOrder(p)'
            BY <2>1, <2>3 DEF CallInOrder
        <2> QED BY <1>2, <2>1, <2>4, OthersInOrder
    <1>3. ASSUME NEW d \in Episodes, Steady(p, d) PROVE cache \in Seq(SchemasOf(d))
        BY <1>3 DEF OrderInv, CallInOrder, OrderOf
    <1> HIDE DEF e, cache
    <1>4. CASE Hit(cache, e) /\ ~Raise(p)
        <2>1. /\ schemas' = [schemas EXCEPT ![p] = Touch(cache, e)]
              /\ info' = [info EXCEPT ![p] = Cached(cache, e)] /\ Goto(p, "columns")
              /\ UNCHANGED <<disk, versions, request, arrays, before, warm, columns, results>>
            BY <1>4 DEF ReadSchema, cache, e
        <2>2. ASSUME NEW d \in Episodes, Steady(p, d)
              PROVE  /\ Touch(cache, e) \in Seq(SchemasOf(d))
                     /\ d = e => Whole(d) /\ Cached(cache, e) = disk[d].layout
            <3>1. cache \in Seq(SchemasOf(d))
                BY <1>3, <2>2
            <3>2. Touch(cache, e) \in Seq(SchemasOf(d))
                BY <1>1, <1>4, <3>1, TouchKeeps
            <3>3. /\ cache[Entry(cache, e)] \in SchemasOf(d)
                  /\ cache[Entry(cache, e)].key = e
                  /\ Cached(cache, e) = cache[Entry(cache, e)].value
                BY <1>4, <3>1, EntryProperties
            <3> QED BY <3>2, <3>3 DEF SchemasOf
        <2> QED BY <1>2, <2>1, <2>2
    <1>5. CASE ~Hit(cache, e) /\ ~Raise(p)
        <2>1. /\ schemas' = [schemas EXCEPT ![p] = Insert(cache, SchemaSize, e, disk[e].layout)]
              /\ info' = [info EXCEPT ![p] = disk[e].layout] /\ Goto(p, "columns") /\ Whole(e)
              /\ UNCHANGED <<disk, versions, request, arrays, before, warm, columns, results>>
            BY <1>5 DEF ReadSchema, cache, e
        <2>2. disk[e].layout \in AllLayouts
            BY <1>1, <2>1, LayoutsType DEF OrderInv, LineageInv, CacheInv, DiskIsLatest
        <2>3. ASSUME NEW d \in Episodes, Steady(p, d)
              PROVE  Insert(cache, SchemaSize, e, disk[e].layout) \in Seq(SchemasOf(d))
            <3>1. [key |-> e, value |-> disk[e].layout] \in SchemasOf(d)
                BY <1>1, <2>1, <2>2 DEF SchemasOf, SchemaEntries
            <3>2. cache \in Seq(SchemasOf(d))
                BY <1>3, <2>3
            <3> QED BY <1>1, <1>5, <3>1, <3>2, InsertKeeps
        <2> QED BY <1>2, <2>1, <2>3
    <1>6. CASE Raise(p)
        BY <1>6, RaiseInOrder
    <1> QED BY <1>4, <1>5, <1>6

\* What a cache or the file gives for the stream in hand is in order when its
\* file is steady.
LEMMA ServeInOrder ==
    ASSUME OrderInv, LineageInv', NEW p \in Processes, pc[p] \in {"columns", "topic"},
           NEW array \in Arrays, Serve(p, array), array.episode = Episode(p),
           Steady(p, Episode(p)) => InOrder(array),
           \A d \in Episodes : Steady(p, d) => columns'[p] \in Seq(ColumnsOf(d)),
           \A r \in Processes \ {p} : columns'[r] = columns[r]
    PROVE  OrderInv'
    <1>1. StateTypes
        BY DEF OrderInv, LineageInv, CacheInv
    <1>2. /\ UNCHANGED <<disk, versions, request, before, warm, schemas, results>>
          /\ pc'[p] = "stream" /\ arrays'[p] = Append(arrays[p], array)
          /\ \A r \in Processes \ {p} : pc'[r] = pc[r] /\ arrays'[r] = arrays[r]
                                        /\ info'[r] = info[r]
        BY <1>1 DEF Serve, Goto, StateTypes
    <1>3. ASSUME NEW d \in Episodes, Steady(p, d)'
          PROVE  OrderOf(p, d)'
        <2>1. Steady(p, d)
            BY <1>2, <1>3 DEF Steady, Whole, NeverRewritten
        <2>2. OrderOf(p, d) /\ columns'[p] \in Seq(ColumnsOf(d))
            BY <2>1 DEF OrderInv, CallInOrder
        <2>3. UNCHANGED <<SchemasOf(d), ColumnsOf(d), ArraysOf(d)>>
            BY <1>2 DEF SchemasOf, ColumnsOf, ArraysOf, SchemaEntries, ColumnEntries,
                        Arrays, InOrder, Whole
        <2>4. array \in ArraysOf(d)
            BY <2>1 DEF ArraysOf
        <2>5. Append(arrays[p], array) \in Seq(ArraysOf(d))
            <3>1. arrays[p] \in Seq(ArraysOf(d))
                BY <2>2 DEF OrderOf
            <3> QED BY <2>4, <3>1, AppendProperties
        <2> QED BY <1>2, <2>2, <2>3, <2>5 DEF OrderOf
    <1>4. CallInOrder(p)'
        BY <1>2, <1>3 DEF CallInOrder
    <1> QED BY <1>2, <1>4, OthersInOrder

LEMMA ReadColumnsInOrder ==
    ASSUME OrderInv, LineageInv', NEW p \in Processes, ReadColumns(p)
    PROVE  OrderInv'
    <1> DEFINE e == Episode(p)
               cols == Asked(p)
               declared == ColumnsFor(KindOf[Key(p)], disk[e].layout)
               array == ArrayOf(e, cols, declared)
               cache == columns[p]
               key == ColumnsKey(e, cols)
    <1>1. /\ StateTypes /\ LineageInv /\ pc[p] = "columns" /\ e \in Episodes
          /\ cache \in Seq(ColumnEntries)
          /\ ColumnsSize \in Nat \ {0} /\ Bounded(cache, ColumnsSize)
        BY UsedAtWork, CacheAssumption
           DEF OrderInv, LineageInv, CacheInv, CachesBounded, StateTypes, ReadColumns
    <1>2. ASSUME NEW d \in Episodes, Steady(p, d) PROVE cache \in Seq(ColumnsOf(d))
        BY <1>2 DEF OrderInv, CallInOrder, OrderOf
    <1>3. ASSUME NEW a \in Arrays, a.episode = e, Steady(p, e) => InOrder(a), Serve(p, a),
                 NEW new, \A d \in Episodes : Steady(p, d) => new \in Seq(ColumnsOf(d)),
                 columns' = [columns EXCEPT ![p] = new]
          PROVE  OrderInv'
        <2>1. columns'[p] = new /\ \A r \in Processes \ {p} : columns'[r] = columns[r]
            BY <1>1, <1>3 DEF StateTypes
        <2> QED BY <1>1, <1>3, <2>1, ServeInOrder
    <1> HIDE DEF cache
    <1>4. CASE Hit(cache, key) /\ ~Raise(p)
        <2>1. /\ columns' = [columns EXCEPT ![p] = Touch(cache, key)]
              /\ Serve(p, Cached(cache, key))
            BY <1>4 DEF ReadColumns, cache
        <2>2. /\ cache[Entry(cache, key)] \in ColumnEntries
              /\ cache[Entry(cache, key)].key = key
              /\ Cached(cache, key) = cache[Entry(cache, key)].value
            BY <1>1, <1>4, EntryProperties
        <2>3. Cached(cache, key) \in Arrays /\ Cached(cache, key).episode = e
            BY <2>2 DEF ColumnEntries, ColumnsKey
        <2>4. ASSUME Steady(p, e) PROVE InOrder(Cached(cache, key))
            <3>1. cache \in Seq(ColumnsOf(e))
                BY <1>1, <1>2, <2>4
            <3>2. cache[Entry(cache, key)] \in ColumnsOf(e)
                BY <1>4, <3>1, EntryProperties
            <3> QED BY <2>2, <3>2 DEF ColumnsOf, ColumnsKey
        <2>5. ASSUME NEW d \in Episodes, Steady(p, d) PROVE Touch(cache, key) \in Seq(ColumnsOf(d))
            <3>1. cache \in Seq(ColumnsOf(d))
                BY <1>2, <2>5
            <3> QED BY <1>1, <1>4, <3>1, TouchKeeps
        <2> QED BY <1>3, <2>1, <2>3, <2>4, <2>5
    <1>5. CASE ~Hit(cache, key) /\ ~Raise(p)
        <2>1. /\ columns' = [columns EXCEPT ![p] = Insert(cache, ColumnsSize, key, array)]
              /\ Serve(p, array) /\ Whole(e)
            BY <1>5 DEF ReadColumns, cache
        <2>2. cols \in Columns /\ declared \in Columns
            <3>1. info[p] \in AllLayouts
                BY <1>1 DEF LineageInv, CacheInv, CallsInProgress, CallInProgress
            <3> QED BY <1>1, <2>1, <3>1, AtWork, ColumnsForType, DeclaredType
                    DEF Asked, LineageInv
        <2>3. array \in Arrays /\ array.episode = e /\ array.columns = cols /\ array.declared = declared
            <3>1. disk[e].version \in Nat
                BY <1>1, <2>1 DEF LineageInv, CacheInv, DiskIsLatest, StateTypes
            <3> QED BY <1>1, <2>2, <3>1 DEF ArrayOf, Arrays
        <2>4. ASSUME Steady(p, e) PROVE InOrder(array)
            <3>1. info[p] = disk[e].layout
                BY <1>1, <2>4 DEF OrderInv, CallInOrder, OrderOf
            <3> QED BY <2>3, <3>1 DEF InOrder, Asked
        <2>5. ASSUME NEW d \in Episodes, Steady(p, d)
              PROVE  Insert(cache, ColumnsSize, key, array) \in Seq(ColumnsOf(d))
            <3>1. [key |-> key, value |-> array] \in ColumnsOf(d)
                BY <1>1, <2>2, <2>3, <2>4, <2>5 DEF ColumnsOf, ColumnEntries, ColumnsKey
            <3>2. cache \in Seq(ColumnsOf(d))
                BY <1>2, <2>5
            <3> QED BY <1>1, <1>5, <3>1, <3>2, InsertKeeps
        <2> QED BY <1>3, <2>1, <2>3, <2>4, <2>5
    <1>6. CASE Raise(p)
        BY <1>6, RaiseInOrder
    <1> QED BY <1>4, <1>5, <1>6

LEMMA ReadTopicInOrder ==
    ASSUME OrderInv, LineageInv', NEW p \in Processes, ReadTopic(p)
    PROVE  OrderInv'
    <1> DEFINE e == Episode(p)
               kind == KindOf[Key(p)]
               topic == <<kind, "topic">>
               cache == topics[p]
               key == <<e, kind>>
    <1>1. /\ StateTypes /\ LineageInv /\ pc[p] = "topic" /\ e \in Episodes
          /\ kind \in Kinds /\ cache \in Seq(TopicEntries)
        BY AtWork DEF OrderInv, LineageInv, CacheInv, StateTypes, ReadTopic
    <1>2. ASSUME NEW a \in Arrays, a.episode = e, InOrder(a), Serve(p, a), UNCHANGED columns
          PROVE  OrderInv'
        BY <1>1, <1>2, ServeInOrder DEF OrderInv, CallInOrder, OrderOf
    <1> HIDE DEF cache
    <1>3. CASE Hit(cache, key) /\ ~Raise(p)
        <2>1. /\ cache[Entry(cache, key)] \in TopicEntries
              /\ cache[Entry(cache, key)].key = key
              /\ Cached(cache, key) = cache[Entry(cache, key)].value
            BY <1>1, <1>3, EntryProperties
        <2>2. /\ Cached(cache, key) \in Arrays /\ Cached(cache, key).episode = e
              /\ InOrder(Cached(cache, key))
            BY <2>1 DEF TopicEntries, InOrder
        <2>3. Serve(p, Cached(cache, key)) /\ UNCHANGED columns
            BY <1>3 DEF ReadTopic, cache
        <2> QED BY <1>2, <2>2, <2>3
    <1>4. CASE ~Hit(cache, key) /\ ~Raise(p)
        <2>1. Whole(e) /\ Serve(p, ArrayOf(e, topic, topic)) /\ UNCHANGED columns
            BY <1>4 DEF ReadTopic, cache
        <2>2. disk[e].version \in Nat /\ topic \in Columns
            BY <1>1, <2>1 DEF LineageInv, CacheInv, DiskIsLatest, StateTypes, Columns
        <2>3. /\ ArrayOf(e, topic, topic) \in Arrays /\ ArrayOf(e, topic, topic).episode = e
              /\ InOrder(ArrayOf(e, topic, topic))
            BY <1>1, <2>2 DEF ArrayOf, Arrays, InOrder
        <2> QED BY <1>2, <2>1, <2>3
    <1>5. CASE Raise(p)
        BY <1>5, RaiseInOrder
    <1> QED BY <1>3, <1>4, <1>5

----------------------------------------------------------------------------
(* The theorems.                                                           *)

\* OrderInv holds in every reachable state.
THEOREM OrderInvariant == Spec => []OrderInv
    <1>1. OrderInv /\ LineageInv' /\ Next => OrderInv'
        BY ProducerInOrder, CallStepInOrder, LocateInOrder, ReadSchemaInOrder,
           ReadColumnsInOrder, ReadTopicInOrder, HashSourcesInOrder, RaiseInOrder
           DEF Next
    <1>2. OrderInv /\ LineageInv' /\ UNCHANGED vars => OrderInv'
        <2> SUFFICES ASSUME OrderInv, LineageInv', UNCHANGED vars
                     PROVE  OrderInv'
            OBVIOUS
        <2> USE DEF vars, call, caches
        <2>1. ASSUME NEW p \in Processes PROVE CallInOrder(p)'
            <3>1. CallInOrder(p)
                BY DEF OrderInv
            <3>2. ASSUME NEW e \in Episodes, Steady(p, e)' PROVE OrderOf(p, e)'
                <4>1. OrderOf(p, e)
                    BY <3>1, <3>2 DEF CallInOrder, Steady, Whole, NeverRewritten
                <4> QED BY <4>1 DEF OrderOf, SchemasOf, ColumnsOf, ArraysOf, SchemaEntries,
                                    ColumnEntries, Arrays, InOrder, Whole, Episode, Key
            <3> QED BY <3>1, <3>2 DEF CallInOrder
        <2>2. OrdersNeverMix'
            BY DEF OrderInv, OrdersNeverMix, NeverRewritten, Undisturbed, Settled
        <2> QED BY <2>1, <2>2 DEF OrderInv
    <1> QED BY LineageInvariant, InitInOrder, <1>1, <1>2, PTL DEF Spec

\* OrdersNeverMix holds in every reachable state: whatever the two caches of a
\* Parquet file hold and evict, no array is read in an order that its own file
\* does not declare, unless an episode was rewritten, and not even then in a
\* first call whose sources stay the same.
THEOREM OrdersKept == Spec => []OrdersNeverMix
    <1>1. OrderInv => OrdersNeverMix
        BY DEF OrderInv
    <1> QED BY OrderInvariant, <1>1, PTL

----------------------------------------------------------------------------
(***************************************************************************)
(* As long as no episode is written over, what a table holds is a function *)
(* of the request.                                                         *)
(***************************************************************************)

----------------------------------------------------------------------------
(* The inductive invariant.                                                *)

\* The array of the n-th stream of q, as its file holds it now.
IsCurrent(q, n, array) ==
    LET key == q.streams[n]
        e == SourceOf(q, key)
    IN  /\ Whole(e)
        /\ array.episode = e /\ array.version = 1
        /\ array.columns = IF SchemeOf[e] = "parquet"
                           THEN ColumnsFor(KindOf[key], disk[e].layout)
                           ELSE <<KindOf[key], "topic">>

SchemasNow == {x \in SchemaEntries : Whole(x.key) /\ x.value = disk[x.key].layout}

CallIsCurrent(p) ==
    /\ schemas[p] \in Seq(SchemasNow)
    /\ pc[p] = "columns" => Whole(Episode(p)) /\ info[p] = disk[Episode(p)].layout
    /\ \A n \in 1..Len(arrays[p]) : IsCurrent(request[p], n, arrays[p][n])

ResultIsCurrent(r) ==
    /\ r.arrays \in Seq(Arrays)
    /\ Len(r.arrays) = Len(r.request.streams)
    /\ \A n \in 1..Len(r.arrays) : IsCurrent(r.request, n, r.arrays[n])

AllIsCurrent ==
    /\ \A p \in Processes : CallIsCurrent(p)
    /\ \A r \in results : ResultIsCurrent(r)

CurrentInv == LineageInv /\ (NeverRewritten => AllIsCurrent)

----------------------------------------------------------------------------
(* What any step leaves alone.                                             *)

\* An array at hand is of the only version there is.
LEMMA OnlyVersion ==
    ASSUME LineageInv, NeverRewritten, NEW p \in Processes, NEW a \in Readable(p)
    PROVE  a.version = 1 /\ a.episode \in Episodes /\ Whole(a.episode)
    <1>1. a.episode \in Episodes /\ a.version \in 1..versions[a.episode]
        BY DEF Readable, Arrays
    <1>2. versions[a.episode] \in Nat
        BY <1>1 DEF LineageInv, CacheInv, StateTypes
    <1>3. versions[a.episode] = 1 /\ disk[a.episode] # Torn
        BY <1>1, <1>2 DEF NeverRewritten
    <1>4. disk[a.episode] # Absent
        BY <1>1, <1>3 DEF LineageInv, FilesThere
    <1> QED BY <1>1, <1>3, <1>4 DEF Whole

\* A step that leaves the files alone and concerns process p alone.
LEMMA OthersCurrent ==
    ASSUME CurrentInv, LineageInv', NEW p \in Processes, UNCHANGED <<disk, versions>>,
           \A r \in Processes \ {p} :
               /\ pc'[r] = pc[r] /\ request'[r] = request[r] /\ arrays'[r] = arrays[r]
               /\ info'[r] = info[r] /\ schemas'[r] = schemas[r],
           NeverRewritten => CallIsCurrent(p)',
           NeverRewritten => \A r \in results' \ results : ResultIsCurrent(r)'
    PROVE  CurrentInv'
    <1> SUFFICES ASSUME NeverRewritten'
                 PROVE  AllIsCurrent'
        BY DEF CurrentInv
    <1>1. NeverRewritten /\ AllIsCurrent
        BY DEF NeverRewritten, CurrentInv
    <1>2. SchemasNow' = SchemasNow
        BY DEF SchemasNow, SchemaEntries, Whole
    <1>3. \A q, n, a : IsCurrent(q, n, a) => IsCurrent(q, n, a)'
        BY DEF IsCurrent, Whole
    <1>4. ASSUME NEW r \in Processes
          PROVE  CallIsCurrent(r)'
        <2>1. CASE r = p
            BY <1>1, <2>1
        <2>2. CASE r # p
            <3>1. CallIsCurrent(r)
                BY <1>1 DEF AllIsCurrent
            <3>2. Episode(r)' = Episode(r)
                BY <2>2 DEF Episode, Key
            <3> QED BY <1>2, <1>3, <2>2, <3>1, <3>2 DEF CallIsCurrent, Whole
        <2> QED BY <2>1, <2>2
    <1>5. ASSUME NEW r \in results'
          PROVE  ResultIsCurrent(r)'
        <2>1. CASE r \in results
            BY <1>1, <1>3, <2>1 DEF AllIsCurrent, ResultIsCurrent, Arrays
        <2>2. CASE r \notin results
            BY <1>1, <2>2
        <2> QED BY <2>1, <2>2
    <1> QED BY <1>4, <1>5 DEF AllIsCurrent

----------------------------------------------------------------------------
(* One lemma for each group of actions.                                    *)

LEMMA InitCurrent == Init => CurrentInv
    <1> SUFFICES ASSUME Init PROVE CurrentInv
        OBVIOUS
    <1>1. ASSUME NEW p \in Processes PROVE CallIsCurrent(p)
        <2>1. <<>> \in Seq(SchemasNow) /\ Len(<<>>) = 0
            BY EmptySeq
        <2> QED BY <2>1 DEF Init, CallIsCurrent
    <1> QED BY <1>1, InitLineage DEF Init, CurrentInv, AllIsCurrent

LEMMA ProducerCurrent ==
    ASSUME CurrentInv, LineageInv', NEW e \in Episodes, BeginEpisode(e) \/ FinishEpisode(e)
    PROVE  CurrentInv'
    <1> SUFFICES ASSUME NeverRewritten'
                 PROVE  AllIsCurrent'
        BY DEF CurrentInv
    <1>1. StateTypes /\ NeverRewritten /\ AllIsCurrent
        BY WrittenOnce DEF CurrentInv, LineageInv, CacheInv
    <1>2. UNCHANGED <<call, caches, results>>
        BY DEF BeginEpisode, FinishEpisode
    <1>3. ASSUME NEW d \in Episodes, Whole(d)
          PROVE  disk'[d] = disk[d] /\ Whole(d)'
        <2>1. versions[d] >= 1 /\ versions[d] \in Nat
            BY <1>1, <1>3 DEF CurrentInv, LineageInv, FilesThere, StateTypes
        <2>2. d # e
            <3>1. CASE BeginEpisode(e)
                <4>1. disk'[e] = Torn /\ versions'[e] = versions[e]
                    BY <1>1, <3>1 DEF BeginEpisode, StateTypes
                <4>2. versions'[e] = 0
                    BY <4>1 DEF NeverRewritten
                <4>3. versions[e] = 0 /\ versions[d] # 0
                    BY <2>1, <4>1, <4>2
                <4> QED BY <4>3
            <3>2. CASE FinishEpisode(e)
                BY <1>3, <3>2 DEF FinishEpisode, Whole
            <3> QED BY <3>1, <3>2
        <2>3. disk'[d] = disk[d]
            BY <1>1, <2>2 DEF BeginEpisode, FinishEpisode, StateTypes
        <2> QED BY <1>3, <2>3 DEF Whole
    <1>4. SchemasNow \subseteq SchemasNow'
        BY <1>3 DEF SchemasNow, SchemaEntries
    <1>5. ASSUME NEW q, NEW n, NEW a \in Arrays, IsCurrent(q, n, a)
          PROVE  IsCurrent(q, n, a)'
        <2>1. /\ a.episode = SourceOf(q, q.streams[n]) /\ a.episode \in Episodes
              /\ Whole(SourceOf(q, q.streams[n]))
            BY <1>5 DEF IsCurrent, Arrays
        <2> QED BY <1>3, <1>5, <2>1 DEF IsCurrent
    <1>6. ASSUME NEW p \in Processes
          PROVE  CallIsCurrent(p)'
        <2>1. CallIsCurrent(p)
            BY <1>1 DEF AllIsCurrent
        <2>2. schemas[p] \in Seq(SchemasNow')
            BY <1>4, <2>1, SeqMonotonic DEF CallIsCurrent
        <2>3. pc[p] = "columns" => Episode(p) \in Episodes
            BY AtWork DEF CurrentInv, LineageInv
        <2>4. Episode(p)' = Episode(p)
            BY <1>2 DEF Episode, Key, call
        <2>5. \A n \in 1..Len(arrays[p]) : arrays[p][n] \in Arrays
            BY <1>1, ElementOfSeq DEF StateTypes
        <2>6. \A n \in 1..Len(arrays[p]) : IsCurrent(request[p], n, arrays[p][n])'
            <3>1. \A n \in 1..Len(arrays[p]) : IsCurrent(request[p], n, arrays[p][n])
                BY <2>1 DEF CallIsCurrent
            <3>2. request' = request /\ arrays' = arrays
                BY <1>2 DEF call
            <3> QED BY <1>5, <2>5, <3>1, <3>2 DEF IsCurrent, Whole
        <2>7. pc[p] = "columns" =>
                  Whole(Episode(p))' /\ info'[p] = disk'[Episode(p)].layout
            <3>1. pc[p] = "columns" => Whole(Episode(p)) /\ info[p] = disk[Episode(p)].layout
                BY <2>1 DEF CallIsCurrent
            <3> QED BY <1>2, <1>3, <2>3, <2>4, <3>1 DEF call, Whole
        <2> QED BY <1>2, <2>2, <2>4, <2>6, <2>7 DEF CallIsCurrent, call, caches
    <1>7. ASSUME NEW r \in results
          PROVE  ResultIsCurrent(r)'
        <2>1. ResultIsCurrent(r)
            BY <1>1 DEF AllIsCurrent
        <2>2. \A n \in 1..Len(r.arrays) : r.arrays[n] \in Arrays
            BY <2>1, ElementOfSeq DEF ResultIsCurrent
        <2>3. \A n \in 1..Len(r.arrays) : IsCurrent(r.request, n, r.arrays[n])'
            BY <1>5, <2>1, <2>2 DEF ResultIsCurrent
        <2> QED BY <2>1, <2>3 DEF ResultIsCurrent, Arrays
    <1> QED BY <1>2, <1>6, <1>7 DEF AllIsCurrent

\* A step of p outside its resolvers: the caches are as before or cold, and
\* the arrays are as before or gone.
LEMMA OutsideCurrent ==
    ASSUME CurrentInv, LineageInv', NEW p \in Processes, UNCHANGED <<disk, versions>>,
           \A r \in Processes \ {p} :
               /\ pc'[r] = pc[r] /\ request'[r] = request[r] /\ arrays'[r] = arrays[r]
               /\ info'[r] = info[r] /\ schemas'[r] = schemas[r],
           pc'[p] # "columns",
           schemas'[p] = schemas[p] \/ schemas'[p] = <<>>,
           arrays'[p] = <<>> \/ (arrays'[p] = arrays[p] /\ request'[p] = request[p]),
           NeverRewritten => \A r \in results' \ results : ResultIsCurrent(r)'
    PROVE  CurrentInv'
    <1>1. SchemasNow' = SchemasNow
        BY DEF SchemasNow, SchemaEntries, Whole
    <1>2. ASSUME NeverRewritten PROVE CallIsCurrent(p)'
        <2>1. CallIsCurrent(p)
            BY <1>2 DEF CurrentInv, AllIsCurrent
        <2>2. schemas'[p] \in Seq(SchemasNow')
            BY <1>1, <2>1, EmptySeq DEF CallIsCurrent
        <2>3. \A n \in 1..Len(arrays'[p]) : IsCurrent(request[p], n, arrays[p][n])'
            <3>1. CASE arrays'[p] = <<>>
                <4>1. Len(arrays'[p]) = 0
                    BY <3>1
                <4> QED BY <4>1
            <3>2. CASE arrays'[p] = arrays[p] /\ request'[p] = request[p]
                BY <2>1, <3>2 DEF CallIsCurrent, IsCurrent, Whole
            <3> QED BY <3>1, <3>2
        <2> QED BY <2>2, <2>3 DEF CallIsCurrent
    <1> QED BY <1>2, OthersCurrent

LEMMA RaiseCurrent ==
    ASSUME CurrentInv, LineageInv', NEW p \in Processes, Raise(p) \/ Restart(p)
    PROVE  CurrentInv'
    <1>1. StateTypes
        BY DEF CurrentInv, LineageInv, CacheInv
    <1> QED BY <1>1, OutsideCurrent DEF StateTypes, Raise, Restart, Leave, Goto, caches

LEMMA CallCurrent ==
    ASSUME CurrentInv, LineageInv', NEW p \in Processes, Call(p)
    PROVE  CurrentInv'
    <1> USE DEF Call, Goto, caches
    <1>1. StateTypes /\ arrays[p] = <<>>
        BY DEF CurrentInv, LineageInv, CacheInv, CallsInProgress
    <1>2. \A r \in Processes \ {p} : pc'[r] = pc[r] /\ request'[r] = request[r]
        BY <1>1 DEF StateTypes
    <1>3. pc'[p] # "columns" /\ arrays'[p] = <<>> /\ schemas'[p] = schemas[p]
        BY <1>1 DEF StateTypes
    <1> QED BY <1>2, <1>3, OutsideCurrent

LEMMA LocateCurrent ==
    ASSUME CurrentInv, LineageInv', NEW p \in Processes, Locate(p)
    PROVE  CurrentInv'
    <1>1. CASE Raise(p)
        BY <1>1, RaiseCurrent
    <1>2. CASE ~Raise(p)
        <2> USE <1>2 DEF Locate, Goto, caches
        <2>1. pc'[p] # "columns" /\ \A r \in Processes \ {p} : pc'[r] = pc[r]
            BY DEF CurrentInv, LineageInv, CacheInv, StateTypes
        <2> QED BY <2>1, OutsideCurrent
    <1> QED BY <1>1, <1>2

LEMMA HashSourcesCurrent ==
    ASSUME CurrentInv, LineageInv', NEW p \in Processes, HashSources(p)
    PROVE  CurrentInv'
    <1> DEFINE r == [request |-> request[p], arrays |-> arrays[p],
                     hashes |-> SourceHashes(request[p]),
                     before |-> before[p], fresh |-> ~warm[p]]
    <1>1. /\ Len(arrays[p]) = Len(request[p].streams) /\ results' = results \cup {r}
          /\ Leave(p) /\ UNCHANGED <<disk, versions, caches>>
        BY DEF HashSources, Return
    <1>2. arrays[p] \in Seq(Arrays)
        BY DEF CurrentInv, LineageInv, CacheInv, StateTypes
    <1>3. NeverRewritten => ResultIsCurrent(r)
        BY <1>1, <1>2 DEF CurrentInv, AllIsCurrent, CallIsCurrent, ResultIsCurrent
    <1>4. NeverRewritten => \A s \in results' \ results : ResultIsCurrent(s)'
        <2> SUFFICES ASSUME NeverRewritten, NEW s \in results' \ results
                     PROVE  ResultIsCurrent(s)'
            OBVIOUS
        <2>1. s = r
            BY <1>1
        <2>2. ResultIsCurrent(s)
            BY <1>3, <2>1
        <2> QED BY <1>1, <2>2 DEF ResultIsCurrent, IsCurrent, Whole, Arrays
    <1>5. StateTypes
        BY DEF CurrentInv, LineageInv, CacheInv
    <1>6. /\ \A s \in Processes \ {p} :
               /\ pc'[s] = pc[s] /\ request'[s] = request[s] /\ arrays'[s] = arrays[s]
               /\ info'[s] = info[s] /\ schemas'[s] = schemas[s]
          /\ pc'[p] # "columns" /\ arrays'[p] = <<>> /\ schemas'[p] = schemas[p]
        BY <1>1, <1>5 DEF StateTypes, Leave, Goto, caches
    <1> QED BY <1>1, <1>4, <1>6, OutsideCurrent

LEMMA ReadSchemaCurrent ==
    ASSUME CurrentInv, LineageInv', NEW p \in Processes, ReadSchema(p)
    PROVE  CurrentInv'
    <1> DEFINE e == Episode(p)
               cache == schemas[p]
    <1>1. /\ StateTypes /\ pc[p] = "schema" /\ e \in Episodes
          /\ SchemaSize \in Nat \ {0} /\ Bounded(cache, SchemaSize)
        BY AtWork, CacheAssumption
           DEF CurrentInv, LineageInv, CacheInv, CachesBounded, ReadSchema
    <1>2. SchemasNow' = SchemasNow \/ disk' # disk
        BY DEF SchemasNow, SchemaEntries, Whole
    <1>3. ASSUME NEW layout, NEW new,
                 NeverRewritten => new \in Seq(SchemasNow) /\ Whole(e) /\ layout = disk[e].layout,
                 schemas' = [schemas EXCEPT ![p] = new], info' = [info EXCEPT ![p] = layout],
                 Goto(p, "columns"), UNCHANGED <<disk, versions, request, arrays, results>>
          PROVE  CurrentInv'
        <2>1. /\ schemas'[p] = new /\ info'[p] = layout /\ pc'[p] = "columns"
              /\ \A r \in Processes \ {p} : pc'[r] = pc[r] /\ info'[r] = info[r]
                                            /\ schemas'[r] = schemas[r]
            BY <1>1, <1>3 DEF StateTypes, Goto
        <2>2. Episode(p)' = Episode(p)
            BY <1>3 DEF Episode, Key
        <2>3. ASSUME NeverRewritten PROVE CallIsCurrent(p)'
            <3>1. CallIsCurrent(p)
                BY <2>3 DEF CurrentInv, AllIsCurrent
            <3> QED BY <1>2, <1>3, <2>1, <2>2, <2>3, <3>1 DEF CallIsCurrent, IsCurrent, Whole
        <2> QED BY <1>3, <2>1, <2>3, OthersCurrent
    <1>4. NeverRewritten => cache \in Seq(SchemasNow)
        BY DEF CurrentInv, AllIsCurrent, CallIsCurrent
    <1> HIDE DEF e, cache
    <1>5. CASE Hit(cache, e) /\ ~Raise(p)
        <2>1. /\ schemas' = [schemas EXCEPT ![p] = Touch(cache, e)]
              /\ info' = [info EXCEPT ![p] = Cached(cache, e)] /\ Goto(p, "columns")
              /\ UNCHANGED <<disk, versions, request, arrays, results>>
            BY <1>5 DEF ReadSchema, cache, e
        <2>2. ASSUME NeverRewritten
              PROVE  /\ Touch(cache, e) \in Seq(SchemasNow)
                     /\ Whole(e) /\ Cached(cache, e) = disk[e].layout
            <3>1. cache \in Seq(SchemasNow)
                BY <1>4, <2>2
            <3>2. Touch(cache, e) \in Seq(SchemasNow)
                BY <1>1, <1>5, <3>1, TouchKeeps
            <3>3. /\ cache[Entry(cache, e)] \in SchemasNow
                  /\ cache[Entry(cache, e)].key = e
                  /\ Cached(cache, e) = cache[Entry(cache, e)].value
                BY <1>5, <3>1, EntryProperties
            <3> QED BY <3>2, <3>3 DEF SchemasNow
        <2> QED BY <1>3, <2>1, <2>2
    <1>6. CASE ~Hit(cache, e) /\ ~Raise(p)
        <2>1. /\ schemas' = [schemas EXCEPT ![p] = Insert(cache, SchemaSize, e, disk[e].layout)]
              /\ info' = [info EXCEPT ![p] = disk[e].layout] /\ Goto(p, "columns")
              /\ Whole(e) /\ UNCHANGED <<disk, versions, request, arrays, results>>
            BY <1>6 DEF ReadSchema, cache, e
        <2>2. disk[e].layout \in AllLayouts
            BY <1>1, <2>1, LayoutsType DEF CurrentInv, LineageInv, CacheInv, DiskIsLatest
        <2>3. [key |-> e, value |-> disk[e].layout] \in SchemasNow
            BY <1>1, <2>1, <2>2 DEF SchemasNow, SchemaEntries
        <2>4. NeverRewritten => Insert(cache, SchemaSize, e, disk[e].layout) \in Seq(SchemasNow)
            BY <1>1, <1>4, <1>6, <2>3, InsertKeeps
        <2> QED BY <1>3, <2>1, <2>4
    <1>7. CASE Raise(p)
        BY <1>7, RaiseCurrent
    <1> QED BY <1>5, <1>6, <1>7

\* What a cache or the file gives for the stream in hand is its current array.
LEMMA ServeCurrent ==
    ASSUME CurrentInv, LineageInv', NEW p \in Processes, pc[p] \in {"columns", "topic"},
           NEW array \in Readable(p), Serve(p, array),
           array.episode = Episode(p),
           NeverRewritten => array.columns =
               IF SchemeOf[Episode(p)] = "parquet"
               THEN ColumnsFor(KindOf[Key(p)], disk[Episode(p)].layout)
               ELSE <<KindOf[Key(p)], "topic">>
    PROVE  CurrentInv'
    <1> DEFINE last == Len(arrays[p]) + 1
    <1>1. /\ StateTypes /\ arrays[p] \in Seq(Arrays) /\ array \in Arrays
        BY DEF CurrentInv, LineageInv, CacheInv, StateTypes, Readable
    <1>2. /\ UNCHANGED <<disk, versions, request, schemas, results>>
          /\ pc'[p] = "stream" /\ arrays'[p] = Append(arrays[p], array)
          /\ \A r \in Processes \ {p} : pc'[r] = pc[r] /\ arrays'[r] = arrays[r]
                                        /\ info'[r] = info[r]
        BY <1>1 DEF Serve, Goto, StateTypes
    <1>3. /\ Len(arrays[p]) \in Nat /\ Len(arrays'[p]) = last
          /\ \A i \in 1..Len(arrays[p]) : arrays'[p][i] = arrays[p][i]
          /\ arrays'[p][last] = array
        BY <1>1, <1>2, AppendProperties, LenProperties
    <1>4. ASSUME NeverRewritten PROVE CallIsCurrent(p)'
        <2>1. CallIsCurrent(p)
            BY <1>4 DEF CurrentInv, AllIsCurrent
        <2>2. array.version = 1 /\ Whole(Episode(p))
            BY <1>4, OnlyVersion DEF CurrentInv
        <2>3. IsCurrent(request[p], last, array)
            BY <1>4, <2>2 DEF IsCurrent, Episode, Key
        <2>4. ASSUME NEW n \in 1..Len(arrays'[p])
              PROVE  IsCurrent(request[p], n, arrays'[p][n])
            <3>1. CASE n = last
                BY <1>3, <2>3, <3>1
            <3>2. CASE n # last
                <4>1. n \in 1..Len(arrays[p])
                    BY <1>3, <3>2
                <4> QED BY <1>3, <2>1, <4>1 DEF CallIsCurrent
            <3> QED BY <3>1, <3>2
        <2>5. SchemasNow' = SchemasNow
            BY <1>2 DEF SchemasNow, SchemaEntries, Whole
        <2>6. \A n \in 1..Len(arrays'[p]) : IsCurrent(request[p], n, arrays[p][n])'
            BY <1>2, <2>4 DEF IsCurrent, Whole
        <2> QED BY <1>2, <2>1, <2>5, <2>6 DEF CallIsCurrent
    <1> QED BY <1>2, <1>4, OthersCurrent

LEMMA ReadColumnsCurrent ==
    ASSUME CurrentInv, LineageInv', NEW p \in Processes, ReadColumns(p)
    PROVE  CurrentInv'
    <1> DEFINE e == Episode(p)
               cache == columns[p]
               key == ColumnsKey(e, Asked(p))
    <1>1. /\ pc[p] = "columns" /\ e \in Episodes /\ SchemeOf[e] = "parquet"
          /\ cache \in Seq(ColumnsHeld(p))
        BY UsedAtWork DEF CurrentInv, LineageInv, CallsLineage, CallLineage, ReadColumns
    <1>2. NeverRewritten => Asked(p) = ColumnsFor(KindOf[Key(p)], disk[e].layout)
        BY <1>1 DEF CurrentInv, AllIsCurrent, CallIsCurrent, Asked
    <1>3. Asked(p) \in Columns
        <2>1. info[p] \in AllLayouts
            BY <1>1 DEF CurrentInv, LineageInv, CacheInv, CallsInProgress, CallInProgress
        <2> QED BY <1>1, <2>1, AtWork, ColumnsForType DEF Asked, CurrentInv, LineageInv
    <1>4. ASSUME NEW a \in Readable(p), a.episode = e, a.columns = Asked(p), Serve(p, a)
          PROVE  CurrentInv'
        BY <1>1, <1>2, <1>4, ServeCurrent
    <1>5. CASE Hit(cache, key) /\ ~Raise(p)
        <2>1. /\ cache[Entry(cache, key)] \in ColumnsHeld(p)
              /\ cache[Entry(cache, key)].key = key
              /\ Cached(cache, key) = cache[Entry(cache, key)].value
            <3> HIDE DEF cache, key
            <3> QED BY <1>1, <1>5, EntryProperties
        <2>2. /\ Cached(cache, key) \in Readable(p)
              /\ Cached(cache, key).episode = e /\ Cached(cache, key).columns = Asked(p)
            BY <2>1 DEF ColumnsHeld, ColumnEntries, ColumnsKey
        <2>3. Serve(p, Cached(cache, key))
            BY <1>5 DEF ReadColumns
        <2> QED BY <1>4, <2>2, <2>3
    <1>6. CASE ~Hit(cache, key) /\ ~Raise(p)
        <2> DEFINE declared == ColumnsFor(KindOf[Key(p)], disk[e].layout)
        <2>1. Whole(e) /\ Serve(p, ArrayOf(e, Asked(p), declared))
            BY <1>6 DEF ReadColumns
        <2>2. ArrayOf(e, Asked(p), declared) \in Readable(p)
            BY <1>1, <1>3, <2>1, DeclaredType, ReadNow DEF CurrentInv
        <2> QED BY <1>4, <2>1, <2>2 DEF ArrayOf
    <1>7. CASE Raise(p)
        BY <1>7, RaiseCurrent
    <1> QED BY <1>5, <1>6, <1>7

LEMMA ReadTopicCurrent ==
    ASSUME CurrentInv, LineageInv', NEW p \in Processes, ReadTopic(p)
    PROVE  CurrentInv'
    <1> DEFINE e == Episode(p)
               cache == topics[p]
               key == <<e, KindOf[Key(p)]>>
               cols == <<KindOf[Key(p)], "topic">>
    <1>1. /\ pc[p] = "topic" /\ e \in Episodes /\ SchemeOf[e] = "mcap"
          /\ cache \in Seq(TopicsHeld(p))
        BY UsedAtWork DEF CurrentInv, LineageInv, CallsLineage, CallLineage, ReadTopic
    <1>2. cols \in Columns
        BY <1>1, AtWork DEF CurrentInv, LineageInv, Columns
    <1>3. ASSUME NEW a \in Readable(p), a.episode = e, a.columns = cols, Serve(p, a)
          PROVE  CurrentInv'
        BY <1>1, <1>3, ServeCurrent
    <1>4. CASE Hit(cache, key) /\ ~Raise(p)
        <2>1. /\ cache[Entry(cache, key)] \in TopicsHeld(p)
              /\ cache[Entry(cache, key)].key = key
              /\ Cached(cache, key) = cache[Entry(cache, key)].value
            <3> HIDE DEF cache, key
            <3> QED BY <1>1, <1>4, EntryProperties
        <2>2. /\ Cached(cache, key) \in Readable(p)
              /\ Cached(cache, key).episode = e /\ Cached(cache, key).columns = cols
            BY <2>1 DEF TopicsHeld, TopicEntries
        <2>3. Serve(p, Cached(cache, key))
            BY <1>4 DEF ReadTopic
        <2> QED BY <1>3, <2>2, <2>3
    <1>5. CASE ~Hit(cache, key) /\ ~Raise(p)
        <2>1. Whole(e) /\ Serve(p, ArrayOf(e, cols, cols))
            BY <1>5 DEF ReadTopic
        <2>2. ArrayOf(e, cols, cols) \in Readable(p)
            BY <1>1, <1>2, <2>1, ReadNow DEF CurrentInv
        <2> QED BY <1>3, <2>1, <2>2 DEF ArrayOf
    <1>6. CASE Raise(p)
        BY <1>6, RaiseCurrent
    <1> QED BY <1>4, <1>5, <1>6

----------------------------------------------------------------------------
(* The theorems.                                                           *)

\* CurrentInv holds in every reachable state.
THEOREM CurrentInvariant == Spec => []CurrentInv
    <1>1. CurrentInv /\ LineageInv' /\ Next => CurrentInv'
        BY ProducerCurrent, CallCurrent, LocateCurrent, ReadSchemaCurrent, ReadColumnsCurrent,
           ReadTopicCurrent, HashSourcesCurrent, RaiseCurrent
           DEF Next
    <1>2. CurrentInv /\ LineageInv' /\ UNCHANGED vars => CurrentInv'
        <2> SUFFICES ASSUME CurrentInv, LineageInv', UNCHANGED vars, NeverRewritten'
                     PROVE  AllIsCurrent'
            BY DEF CurrentInv
        <2> USE DEF vars, call, caches
        <2>1. NeverRewritten
            BY DEF NeverRewritten
        <2>2. SchemasNow' = SchemasNow
            BY DEF SchemasNow, SchemaEntries, Whole
        <2>3. ASSUME NEW p \in Processes PROVE CallIsCurrent(p)'
            BY <2>1, <2>2 DEF CurrentInv, AllIsCurrent, CallIsCurrent, IsCurrent, Whole,
                              Episode, Key
        <2>4. ASSUME NEW r \in results PROVE ResultIsCurrent(r)'
            BY <2>1 DEF CurrentInv, AllIsCurrent, ResultIsCurrent, IsCurrent, Whole, Arrays
        <2> QED BY <2>3, <2>4 DEF AllIsCurrent
    <1> QED BY LineageInvariant, InitCurrent, <1>1, <1>2, PTL DEF Spec

\* SameInputsWhileWrittenOnce holds in every reachable state: as long as
\* producers write an episode once, two calls with one request build the same
\* table, whatever their processes' caches held.
THEOREM SameInputs == Spec => []SameInputsWhileWrittenOnce
    <1>1. ASSUME CurrentInv, OrdersNeverMix, NeverRewritten, NEW r \in results, NEW s \in results,
                 r.request = s.request
          PROVE  r.arrays = s.arrays
        <2>1. ResultIsCurrent(r) /\ ResultIsCurrent(s)
            BY <1>1 DEF CurrentInv, AllIsCurrent
        <2>2. /\ r.arrays \in Seq(Arrays) /\ s.arrays \in Seq(Arrays)
              /\ Len(r.arrays) = Len(s.arrays)
            BY <1>1, <2>1 DEF ResultIsCurrent
        <2>3. ASSUME NEW n \in 1..Len(r.arrays) PROVE r.arrays[n] = s.arrays[n]
            <3> DEFINE a == r.arrays[n]
                       b == s.arrays[n]
            <3>1. a \in Arrays /\ b \in Arrays
                BY <2>2, ElementOfSeq
            <3>2. a.episode = b.episode /\ a.version = b.version /\ a.columns = b.columns
                BY <1>1, <2>1, <2>2 DEF ResultIsCurrent, IsCurrent
            <3>3. a.declared = a.columns /\ b.declared = b.columns
                <4>1. n \in DOMAIN r.arrays /\ n \in DOMAIN s.arrays
                    BY <2>2, LenProperties
                <4> QED BY <1>1, <4>1 DEF OrdersNeverMix
            <3> HIDE DEF a, b
            <3>4. a = b
                BY <3>1, <3>2, <3>3 DEF Arrays
            <3> QED BY <3>4 DEF a, b
        <2> QED BY <2>2, <2>3, SeqEqual
    <1>2. CurrentInv /\ OrdersNeverMix => SameInputsWhileWrittenOnce
        BY <1>1 DEF SameInputsWhileWrittenOnce
    <1> QED BY CurrentInvariant, OrdersKept, <1>2, PTL
====
