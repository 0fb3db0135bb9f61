---- MODULE InspectionProofs ----
(***************************************************************************)
(* Proofs about Inspection, for any number of readers and of invocations,  *)
(* any requests, formats and inputs: what is read in calm is what the last *)
(* invocation left, because PackageInv holds beside the readers too.       *)
(***************************************************************************)
EXTENDS Inspection, PipelineProofs

----------------------------------------------------------------------------
(* The directory beside its readers.                                       *)

LEMMA ReaderLeavesPipeline ==
    ASSUME [InspectNext]_<<vars, latest, reader>>
    PROVE  [Next]_vars
    BY DEF InspectNext, Invoke, Next, OpenSilver, ReadColumns, ReadManifest,
           Validate, Reads

\* Reading changes nothing, so what PackageInv says of invocations holds of
\* a directory that is being inspected.
THEOREM ReadersAreHarmless ==
    ASSUME Serialised PROVE InspectSpec => []PackageInv
    <1>1. InspectInit => PackageInv
        BY InitPackageInv DEF InspectInit
    <1>2. PackageInv /\ [InspectNext]_<<vars, latest, reader>> => PackageInv'
        BY ReaderLeavesPipeline, NextPackageInv
    <1> QED BY <1>1, <1>2, PTL DEF InspectSpec

\* Overlapping invocations and readers leave the records as they are, too.
THEOREM RecordsBesideReaders == InspectSpec => []RecordsFollowTheRequest
    <1>1. InspectInit => RecordsInv
        BY InitRecords DEF InspectInit
    <1>2. RecordsInv /\ [InspectNext]_<<vars, latest, reader>> => RecordsInv'
        BY ReaderLeavesPipeline, NextRecords
    <1> QED BY <1>1, <1>2, InvIsRecorded, PTL DEF InspectSpec

----------------------------------------------------------------------------
(* Invocations.                                                            *)

\* The only step after which its invocation is done is Return.
LEMMA DoneByReturning ==
    ASSUME TypeOK, NEW r \in Runs,
           Start(r) \/ Step(r) \/ Raise(r) \/ WriteFails(r), pc'[r] = "done"
    PROVE  Return(r)
    <1> SUFFICES ASSUME ~Return(r) PROVE FALSE
        OBVIOUS
    <1>1. pc \in [Runs -> Working \cup {"idle", "done", "failed"}]
        BY DEF TypeOK
    <1>2. \E label : Goto(r, label) /\ label # "done"
        <2>1. CASE ExportFile(r)
            <3>1. /\ pc[r] = "export" /\ Advance(r) /\ UNCHANGED req
                BY <2>1 DEF ExportFile
            <3> QED BY <3>1, AdvanceType
        <2>2. CASE ~ExportFile(r)
            BY <2>2 DEF Step, Start, Raise, WriteFails, Project, WriteSilver,
                   HashFiles, WriteSidecar, WriteQa, HashContent, WriteManifest,
                   WriteDatacard, AppendRecord
        <2> QED BY <2>1, <2>2
    <1> QED BY <1>1, <1>2 DEF Goto

\* What the last step of an invocation leaves on disk is its own build.
LEMMA ReturningLeaves ==
    ASSUME PackageInv, NEW r \in Runs, Return(r)
    PROVE  LeftBy(r)'
    <1>1. /\ pc[r] = "append" /\ pc' = [pc EXCEPT ![r] = "done"]
          /\ UNCHANGED <<req, prov, chash, files, sidecar, qa, manifest>>
          /\ pc \in [Runs -> Working \cup {"idle", "done", "failed"}]
        BY DEF Return, Goto, docs, PackageInv, TypeOK
    <1>2. /\ \A p \in GoldSet(req[r]) : files[p] = Bytes(p, req[r].input)
          /\ qa = VerdictFor(r)
          /\ manifest = ManifestOf(r)
        BY <1>1 DEF PackageInv, OwnProgress, Stamped
    <1>7. Intact(qa) /\ Intact(manifest)
        BY <1>1, InvIsOwn DEF CompletedPackageIsOwn, Verified
    <1>3. ASSUME NEW s \in Runs PROVE ~Active(s)'
        <2>1. CASE s = r
            BY <1>1, <2>1 DEF Active, Working, Stamped
        <2>2. CASE s # r
            <3>1. Active(r)
                BY <1>1 DEF Active, Working, Stamped
            <3>2. ~Active(s)
                BY <2>2, <3>1 DEF PackageInv, SoleActive
            <3> QED BY <1>1, <2>2, <3>2 DEF Active
        <2> QED BY <2>1, <2>2
    <1>4. GoldSet(req[r])' = GoldSet(req[r]) /\ VerdictFor(r)' = VerdictFor(r)
        BY <1>1, CleanCopies DEF VerdictFor
    <1>5. ManifestOf(r)' = ManifestOf(r)
        BY <1>1, <1>4 DEF ManifestOf, MerkleRoot
    <1>6. \A p : Bytes(p, req[r].input)' = Bytes(p, req[r].input)
        BY <1>1 DEF Bytes
    <1> QED BY <1>1, <1>2, <1>3, <1>4, <1>5, <1>6, <1>7 DEF LeftBy, Intact

LEMMA InvokeKeeps ==
    ASSUME InspectionInv, PackageInv', NEW r \in Runs, Invoke(r)
    PROVE  InspectionInv'
    <1>1. PackageInv /\ TypeOK
        BY DEF InspectionInv, PackageInv
    <1>2. latest' = r
        BY DEF Invoke
    <1>3. Settled' # NoDoc => LeftBy(latest)'
        <2> SUFFICES ASSUME pc'[r] = "done" PROVE LeftBy(latest)'
            BY <1>2 DEF Settled
        <2>1. LeftBy(r)'
            BY <1>1, DoneByReturning, ReturningLeaves DEF Invoke
        <2> QED BY <1>2, <2>1 DEF LeftBy
    <1>4. reader' \in [Readers -> Summaries]
        BY DEF Invoke, InspectionInv, Summaries, Blank
    <1>5. \A i \in Readers : reader'[i].of = NoDoc
        BY DEF Invoke, InspectionInv, Summaries, Blank
    <1> QED BY <1>2, <1>3, <1>4, <1>5 DEF InspectionInv

----------------------------------------------------------------------------
(* Readers.                                                                *)

\* While nobody writes, what was settled stays so.
LEMMA CalmStays ==
    ASSUME UNCHANGED <<vars, latest>>
    PROVE  /\ Settled' = Settled
           /\ LeftBy(latest)' = LeftBy(latest)
           /\ \A s : CalmSoFar(s)' = CalmSoFar(s)
    <1>1. UNCHANGED <<pc, req, prov, chash, files, sidecar, qa, manifest>>
        BY DEF vars, run, docs
    <1>2. \A r : VerdictFor(r)' = VerdictFor(r)
        BY <1>1 DEF VerdictFor
    <1>3. ManifestOf(latest)' = ManifestOf(latest)
        BY <1>1, <1>2 DEF ManifestOf, MerkleRoot
    <1>4. GoldSet(req[latest])' = GoldSet(req[latest])
        BY <1>1, CleanCopies
    <1>5. Settled' = Settled
        BY <1>1 DEF Settled
    <1>6. LeftBy(latest)' = LeftBy(latest)
        BY <1>1, <1>2, <1>3, <1>4 DEF LeftBy, Active, Bytes, Intact
    <1>7. \A s : CalmSoFar(s)' = CalmSoFar(s)
        BY <1>1, <1>2, <1>5 DEF CalmSoFar
    <1> QED BY <1>5, <1>6, <1>7

\* What there is to read in calm, and that it reads well.
LEMMA CalmDirectory ==
    ASSUME InspectionInv, Settled # NoDoc
    PROVE  /\ Settled = latest /\ latest \in Runs
           /\ req[latest] \in Requests
           /\ SilverReadable
           /\ files[Silver] = Bytes(Silver, req[latest].input)
           /\ files[Silver].kind = KindOf[Silver]
           /\ files[Silver].data = DataOf[req[latest].input]
           /\ qa = VerdictFor(latest) /\ Intact(qa)
           /\ manifest = ManifestOf(latest) /\ Intact(manifest)
    <1>1. Settled = latest /\ latest \in Runs /\ pc[latest] = "done" /\ LeftBy(latest)
        BY DEF InspectionInv, Settled
    <1>2. TypeOK
        BY DEF InspectionInv, PackageInv
    <1>3. req[latest] \in Requests
        BY <1>1, <1>2 DEF TypeOK
    <1>4. req[latest].input \in Inputs /\ Silver \in GoldSet(req[latest]) /\ Silver \in Paths
        BY <1>3, GoldType DEF Paths
    <1>5. files[Silver] = Bytes(Silver, req[latest].input)
        BY <1>1, <1>4 DEF LeftBy
    <1>6. /\ files[Silver].data = DataOf[req[latest].input] /\ files[Silver] # Absent
          /\ files[Silver].kind = KindOf[Silver]
        BY <1>4, <1>5, BytesType
    <1>7. DataOf[req[latest].input] # Torn
        BY <1>4, PipelineAssumption
    <1>8. /\ qa = VerdictFor(latest) /\ Intact(qa)
          /\ manifest = ManifestOf(latest) /\ Intact(manifest)
        BY <1>1 DEF LeftBy
    <1> QED BY <1>1, <1>3, <1>5, <1>6, <1>7, <1>8 DEF SilverReadable

\* A reader that starts in calm reads what the last invocation left.
LEMMA ReaderKeeps ==
    ASSUME InspectionInv, PackageInv', UNCHANGED <<vars, latest>>,
           NEW i \in Readers, NEW result \in Summaries, Reads(i, result),
           result.of # NoDoc => CalmSoFar(result)
    PROVE  InspectionInv'
    <1>1. /\ latest \in Runs \cup {NoDoc}
          /\ reader \in [Readers -> Summaries]
          /\ Settled # NoDoc => LeftBy(latest)
          /\ \A j \in Readers : reader[j].of # NoDoc => CalmSoFar(reader[j])
        BY DEF InspectionInv
    <1>2. /\ reader' \in [Readers -> Summaries]
          /\ reader'[i] = result
          /\ \A j \in Readers \ {i} : reader'[j] = reader[j]
        BY <1>1 DEF Reads
    <1>3. ASSUME NEW j \in Readers, reader'[j].of # NoDoc
          PROVE  CalmSoFar(reader'[j])
        BY <1>1, <1>2, <1>3
    <1>4. ASSUME NEW j \in Readers, reader'[j].of # NoDoc
          PROVE  CalmSoFar(reader[j])'
        <2> DEFINE s == reader[j]'
        <2>1. CalmSoFar(s)
            BY <1>3, <1>4
        <2>2. UNCHANGED <<pc, req, prov, chash, latest>>
            BY DEF vars, run
        <2> QED BY <2>1, <2>2 DEF CalmSoFar, Settled, VerdictFor
    <1> QED BY <1>1, <1>2, <1>4, CalmStays DEF InspectionInv

LEMMA FreshType ==
    ASSUME InspectionInv, NEW at \in {"columns", "verdict", "raised"}
    PROVE  /\ Fresh(at) \in Summaries
           /\ Fresh(at).at = at
           /\ Fresh(at).of = Settled
    BY DEF Fresh, Blank, Summaries, Settled, InspectionInv

LEMMA ReadableData ==
    ASSUME InspectionInv, SilverReadable
    PROVE  files[Silver].data \in Data
    <1>1. files[Silver] \in Contents
        BY DEF InspectionInv, PackageInv, TypeOK, SilverReadable, Paths
    <1> QED BY <1>1 DEF Contents, SilverReadable

LEMMA OpenSilverKeeps ==
    ASSUME InspectionInv, PackageInv', NEW i \in Readers, OpenSilver(i)
    PROVE  InspectionInv'
    <1>1. CASE SilverReadable
        <2> DEFINE s == [Fresh("columns") EXCEPT !.footer = files[Silver].data]
        <2>1. s \in Summaries /\ s.at = "columns" /\ s.of = Settled
              /\ s.footer = files[Silver].data
            BY <1>1, FreshType, ReadableData DEF Summaries
        <2>2. Reads(i, s)
            BY <1>1 DEF OpenSilver
        <2> HIDE DEF s
        <2>3. s.of # NoDoc => CalmSoFar(s)
            BY <2>1, CalmDirectory DEF CalmSoFar
        <2>4. UNCHANGED <<vars, latest>>
            BY <2>2 DEF Reads
        <2> QED BY <2>1, <2>2, <2>3, <2>4, ReaderKeeps
    <1>2. CASE ~SilverReadable
        <2>1. Reads(i, Fresh("raised")) /\ UNCHANGED <<vars, latest>>
            BY <1>2 DEF OpenSilver, Reads
        <2>2. Fresh("raised").of = NoDoc
            BY <1>2, FreshType, CalmDirectory
        <2> QED BY <2>1, <2>2, FreshType, ReaderKeeps
    <1> QED BY <1>1, <1>2

LEMMA ReadColumnsKeeps ==
    ASSUME InspectionInv, PackageInv', NEW i \in Readers, ReadColumns(i)
    PROVE  InspectionInv'
    <1>1. /\ reader[i] \in Summaries /\ reader[i].at = "columns"
          /\ reader[i].of # NoDoc => CalmSoFar(reader[i])
          /\ UNCHANGED <<vars, latest>>
        BY DEF InspectionInv, ReadColumns, Reads
    <1>2. CASE SilverReadable /\
               Reads(i, [reader[i] EXCEPT !.at = "manifest", !.data = files[Silver].data])
        <2> DEFINE s == [reader[i] EXCEPT !.at = "manifest", !.data = files[Silver].data]
        <2>1. /\ s \in Summaries /\ s.at = "manifest" /\ s.of = reader[i].of
              /\ s.footer = reader[i].footer /\ s.data = files[Silver].data
            BY <1>1, <1>2, ReadableData DEF Summaries
        <2>2. Reads(i, s)
            BY <1>2
        <2> HIDE DEF s
        <2>3. s.of # NoDoc => CalmSoFar(s)
            BY <1>1, <2>1, CalmDirectory DEF CalmSoFar
        <2> QED BY <1>1, <2>1, <2>2, <2>3, ReaderKeeps
    <1>3. CASE /\ files[Silver] # [kind |-> KindOf[Silver], data |-> reader[i].footer]
               /\ Reads(i, [reader[i] EXCEPT !.at = "raised"])
        <2> DEFINE s == [reader[i] EXCEPT !.at = "raised"]
        <2>1. s \in Summaries /\ s.of = reader[i].of
            BY <1>1 DEF Summaries
        <2>2. Reads(i, s)
            BY <1>3
        <2> HIDE DEF s
        <2>3. s.of = NoDoc
            <3> SUFFICES ASSUME reader[i].of # NoDoc PROVE FALSE
                BY <2>1
            <3>1. Settled # NoDoc /\ reader[i].of = Settled
                  /\ reader[i].footer = DataOf[req[reader[i].of].input]
                BY <1>1 DEF CalmSoFar
            <3>2. files[Silver] = [kind |-> KindOf[Silver], data |-> reader[i].footer]
                BY <3>1, CalmDirectory DEF Bytes
            <3> QED BY <1>3, <3>2
        <2> QED BY <1>1, <2>1, <2>2, <2>3, ReaderKeeps
    <1> QED BY <1>2, <1>3 DEF ReadColumns

LEMMA ReadManifestKeeps ==
    ASSUME InspectionInv, PackageInv', NEW i \in Readers, ReadManifest(i)
    PROVE  InspectionInv'
    <1>1. /\ reader[i] \in Summaries /\ reader[i].at = "manifest"
          /\ reader[i].of # NoDoc => CalmSoFar(reader[i])
          /\ UNCHANGED <<vars, latest>>
        BY DEF InspectionInv, ReadManifest, Reads
    <1>2. reader[i].of # NoDoc => /\ Settled = latest
                                  /\ manifest = ManifestOf(latest) /\ Intact(manifest)
        BY <1>1, CalmDirectory DEF CalmSoFar
    <1>3. CASE ~Intact(manifest)
        <2> DEFINE s == [reader[i] EXCEPT
                            !.at = IF manifest = NoDoc THEN "summary" ELSE "raised"]
        <2>1. s \in Summaries /\ s.of = reader[i].of
            BY <1>1 DEF Summaries
        <2>2. Reads(i, s)
            BY <1>3, PipelineAssumption DEF ReadManifest, Intact
        <2> HIDE DEF s
        <2> QED BY <1>1, <1>2, <1>3, <2>1, <2>2, ReaderKeeps
    <1>4. CASE Intact(manifest)
        <2> DEFINE s == [reader[i] EXCEPT !.at = "summary",
                            !.verdict = manifest.verdict,
                            !.chash = manifest.chash,
                            !.formats = manifest.formats]
        <2>1. manifest \in Manifests
            BY <1>4 DEF Intact, InspectionInv, PackageInv, TypeOK
        <2>2. /\ s \in Summaries /\ s.at = "summary" /\ s.of = reader[i].of
              /\ s.footer = reader[i].footer /\ s.data = reader[i].data
              /\ s.verdict = manifest.verdict /\ s.chash = manifest.chash
              /\ s.formats = manifest.formats
            BY <1>1, <2>1 DEF Summaries, Manifests
        <2>3. Reads(i, s)
            BY <1>4 DEF ReadManifest, Intact
        <2> HIDE DEF s
        <2>4. s.of # NoDoc => CalmSoFar(s)
            BY <1>1, <1>2, <2>2 DEF CalmSoFar, ManifestOf
        <2> QED BY <1>1, <2>2, <2>3, <2>4, ReaderKeeps
    <1> QED BY <1>3, <1>4

LEMMA ValidateKeeps ==
    ASSUME InspectionInv, PackageInv', NEW i \in Readers, Validate(i)
    PROVE  InspectionInv'
    <1>1. CASE Intact(qa)
        <2> DEFINE s == [Fresh("verdict") EXCEPT !.verdict = qa]
        <2>1. qa \in Verdicts
            BY <1>1 DEF Intact, InspectionInv, PackageInv, TypeOK
        <2>2. s \in Summaries /\ s.at = "verdict" /\ s.of = Settled /\ s.verdict = qa
            BY <2>1, FreshType DEF Summaries
        <2>3. Reads(i, s)
            BY <1>1 DEF Validate
        <2> HIDE DEF s
        <2>4. s.of # NoDoc => CalmSoFar(s)
            BY <2>2, CalmDirectory DEF CalmSoFar
        <2> QED BY <2>2, <2>3, <2>4, ReaderKeeps DEF Reads
    <1>2. CASE ~Intact(qa)
        <2>1. Reads(i, Fresh("raised")) /\ UNCHANGED <<vars, latest>>
            BY <1>2 DEF Validate, Reads
        <2>2. Fresh("raised").of = NoDoc
            BY <1>2, FreshType, CalmDirectory
        <2> QED BY <2>1, <2>2, FreshType, ReaderKeeps
    <1> QED BY <1>1, <1>2

----------------------------------------------------------------------------
LEMMA InitInspectionInv == InspectInit => InspectionInv
    <1> SUFFICES ASSUME InspectInit PROVE InspectionInv
        OBVIOUS
    <1>1. PackageInv
        BY InitPackageInv DEF InspectInit
    <1>2. Blank \in Summaries /\ Blank.of = NoDoc
        BY DEF Blank, Summaries
    <1> QED BY <1>1, <1>2 DEF InspectInit, InspectionInv, Settled

LEMMA NextInspectionInv ==
    ASSUME Serialised, InspectionInv, [InspectNext]_<<vars, latest, reader>>
    PROVE  InspectionInv'
    <1>1. PackageInv'
        BY ReaderLeavesPipeline, NextPackageInv DEF InspectionInv
    <1>2. ASSUME UNCHANGED <<vars, latest, reader>> PROVE InspectionInv'
        <2>1. /\ Settled' = Settled /\ LeftBy(latest)' = LeftBy(latest)
              /\ \A s : CalmSoFar(s)' = CalmSoFar(s)
            BY <1>2, CalmStays
        <2>2. UNCHANGED <<pc, req, prov, chash, latest, reader>>
            BY <1>2 DEF vars, run
        <2>3. ASSUME NEW j \in Readers PROVE CalmSoFar(reader[j])' = CalmSoFar(reader[j])
            BY <2>2 DEF CalmSoFar, Settled, VerdictFor
        <2> QED BY <1>1, <2>1, <2>2, <2>3 DEF InspectionInv
    <1> QED BY <1>1, <1>2, InvokeKeeps, OpenSilverKeeps, ReadColumnsKeeps,
               ReadManifestKeeps, ValidateKeeps DEF InspectNext

\* A calm reader has in hand what the run that had returned when it began left
\* there (summarize_dataset, validate).
THEOREM InspectionInvariant ==
    ASSUME Serialised PROVE InspectSpec => []InspectionInv
    <1>1. InspectionInv /\ [InspectNext]_<<vars, latest, reader>> => InspectionInv'
        BY NextInspectionInv
    <1> QED BY <1>1, InitInspectionInv, PTL DEF InspectSpec

LEMMA InvIsCalm == InspectionInv => CalmSummaryIsOfTheLastRun
    BY DEF InspectionInv, CalmSummaryIsOfTheLastRun, CalmSoFar, Free

\* In calm, inspect and validate print what the last invocation left.
THEOREM CalmSummary ==
    ASSUME Serialised PROVE InspectSpec => []CalmSummaryIsOfTheLastRun
    BY InspectionInvariant, InvIsCalm, PTL

----------------------------------------------------------------------------
(* Content hashes tell tables apart, and nothing else that is built alike. *)

\* How often the content c is among the files of request q.
LEMMA CopiesCount ==
    ASSUME NEW q \in Requests, NEW c \in Contents
    PROVE  LET copies == {ix \in GoldIndex(q) : Bytes(GoldAt(q, ix), q.input) = c}
           IN  /\ CleanBuildHash(q)[c] = Cardinality(copies)
               /\ Cardinality(copies) \in Nat
               /\ Cardinality(copies) = 0 <=> copies = {}
    <1> DEFINE copies == {ix \in GoldIndex(q) : Bytes(GoldAt(q, ix), q.input) = c}
    <1>1. IsFiniteSet(copies)
        BY GoldIndexFinite, FS_Subset
    <1>2. CleanBuildHash(q)[c] = Cardinality(copies)
        BY DEF CleanBuildHash
    <1> HIDE DEF copies
    <1> QED BY <1>1, <1>2, FS_CardinalityType, FS_EmptySet DEF copies

\* Equal content hashes: Silver's entry of the one is among the other's, and
\* every entry of a build is made from its table.
LEMMA EqualHashesOfOneTable ==
    ASSUME NEW q \in Requests, NEW own \in Requests,
           CleanBuildHash(own) = CleanBuildHash(q)
    PROVE  DataOf[own.input] = DataOf[q.input]
    <1> DEFINE c == Bytes(Silver, own.input)
               mine == {ix \in GoldIndex(own) : Bytes(GoldAt(own, ix), own.input) = c}
               theirs == {ix \in GoldIndex(q) : Bytes(GoldAt(q, ix), q.input) = c}
    <1>1. c \in Contents /\ c.data = DataOf[own.input]
        BY GoldType, BytesType DEF Paths
    <1>2. <<0, 1>> \in mine
        BY DEF GoldIndex, GoldAt
    <1>3. /\ CleanBuildHash(own)[c] = Cardinality(mine)
          /\ CleanBuildHash(q)[c] = Cardinality(theirs)
          /\ Cardinality(mine) = 0 <=> mine = {}
          /\ Cardinality(theirs) = 0 <=> theirs = {}
        BY <1>1, CopiesCount
    <1>4. theirs # {}
        BY <1>2, <1>3
    <1>5. PICK ix \in GoldIndex(q) : Bytes(GoldAt(q, ix), q.input) = c
        BY <1>4
    <1>6. Bytes(GoldAt(q, ix), q.input).data = DataOf[q.input]
        BY GoldType, BytesType
    <1> QED BY <1>1, <1>5, <1>6

LEMMA LikeBuildsHashAlike ==
    ASSUME NEW q, NEW own,
           DataOf[q.input] = DataOf[own.input], q.formats = own.formats
    PROVE  CleanBuildHash(q) = CleanBuildHash(own)
    <1>1. GoldIndex(q) = GoldIndex(own)
        BY DEF GoldIndex
    <1>2. \A ix : GoldAt(q, ix) = GoldAt(own, ix)
        BY DEF GoldAt
    <1>3. \A ix : Bytes(GoldAt(q, ix), q.input) = Bytes(GoldAt(own, ix), own.input)
        BY <1>2 DEF Bytes
    <1>4. \A c : {ix \in GoldIndex(q) : Bytes(GoldAt(q, ix), q.input) = c}
               = {ix \in GoldIndex(own) : Bytes(GoldAt(own, ix), own.input) = c}
        BY <1>1, <1>3
    <1> QED BY <1>4 DEF CleanBuildHash

LEMMA CleanBuildHashType ==
    ASSUME NEW q \in Requests
    PROVE  CleanBuildHash(q) \in [Contents -> Nat] /\ CleanBuildHash(q) # NoDoc
    <1>1. \A c \in Contents :
              Cardinality({ix \in GoldIndex(q) : Bytes(GoldAt(q, ix), q.input) = c}) \in Nat
        BY CopiesCount
    <1>2. CleanBuildHash(q) \in [Contents -> Nat]
        BY <1>1 DEF CleanBuildHash
    <1>3. NoDoc \notin [Contents -> Nat]
        BY PipelineAssumption
    <1> QED BY <1>2, <1>3

LEMMA InvTellsBuildsApart == InspectionInv => DiffTellsBuildsApart
    <1> SUFFICES ASSUME InspectionInv, NEW i \in Readers, NEW q \in Requests,
                        reader[i].at = "summary", reader[i].of # NoDoc
                 PROVE  LET own == req[reader[i].of]
                            d == Diff(reader[i], CleanSummary(q))
                        IN  /\ d.identical => d.streams
                            /\ DataOf[q.input] = DataOf[own.input]
                               /\ q.formats = own.formats => d.identical
        BY DEF DiffTellsBuildsApart
    <1> DEFINE s == reader[i]
               own == req[s.of]
    <1>1. /\ s.of = Settled
          /\ s.data = DataOf[own.input]
          /\ s.chash = chash[s.of]
        BY DEF InspectionInv, CalmSoFar
    <1>2. s.of = latest /\ s.of \in Runs /\ pc[s.of] = "done"
        BY <1>1 DEF Settled, InspectionInv
    <1>3. own \in Requests /\ chash[s.of] = CleanBuildHash(own)
        BY <1>2 DEF InspectionInv, PackageInv, TypeOK, OwnProgress
    <1>4. /\ Diff(s, CleanSummary(q)).identical =
                 (s.chash # NoDoc /\ s.chash = CleanBuildHash(q))
          /\ Diff(s, CleanSummary(q)).streams = (s.data = DataOf[q.input])
        BY DEF Diff, CleanSummary, Blank
    <1> HIDE DEF own
    <1>5. /\ CleanBuildHash(own) # NoDoc
          /\ CleanBuildHash(own) = CleanBuildHash(q) => DataOf[own.input] = DataOf[q.input]
          /\ DataOf[q.input] = DataOf[own.input] /\ q.formats = own.formats
             => CleanBuildHash(own) = CleanBuildHash(q)
        BY <1>3, EqualHashesOfOneTable, LikeBuildsHashAlike, CleanBuildHashType
    <1> QED BY <1>1, <1>3, <1>4, <1>5 DEF own

\* A diff against a clean build of any request never calls two tables
\* identical, and always calls two like builds so.
THEOREM DiffIsSound ==
    ASSUME Serialised PROVE InspectSpec => []DiffTellsBuildsApart
    BY InspectionInvariant, InvTellsBuildsApart, PTL
====
