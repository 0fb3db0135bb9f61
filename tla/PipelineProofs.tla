---- MODULE PipelineProofs ----
(***************************************************************************)
(* Proofs about Pipeline, for any number of invocations, any requests,     *)
(* formats, inputs and gate.                                               *)
(***************************************************************************)
EXTENDS Pipeline, FiniteSetTheorems, FunctionTheorems, SequenceTheorems, TLAPS

----------------------------------------------------------------------------
(* The operators the steps are built from.                                 *)

LEMMA BytesType ==
    ASSUME NEW p \in Paths, NEW i \in Inputs
    PROVE  /\ Bytes(p, i) \in Contents
           /\ Bytes(p, i) # Absent
           /\ Bytes(p, i).kind = KindOf[p]
           /\ Bytes(p, i).data = DataOf[i]
    BY PipelineAssumption DEF Bytes, Contents, Kinds

\* A request lists files of this version only, Silver among them.
LEMMA GoldType ==
    ASSUME NEW q \in Requests
    PROVE  /\ q.input \in Inputs
           /\ q.formats \in Seq(Formats)
           /\ \A ix \in GoldIndex(q) : GoldAt(q, ix) \in Paths
           /\ GoldSet(q) \subseteq Paths
           /\ Silver \in GoldSet(q)
    <1>1. q.input \in Inputs /\ q.formats \in Seq(Formats)
        BY PipelineAssumption
    <1>2. ASSUME NEW ix \in GoldIndex(q)
          PROVE  GoldAt(q, ix) \in Paths
        <2>1. CASE ix = <<0, 1>>
            BY <2>1 DEF GoldAt, Paths
        <2>2. CASE ix # <<0, 1>>
            <3>1. PICK f \in DOMAIN q.formats : ix \in {f} \X DOMAIN FilesOf[q.formats[f]]
                BY <2>2 DEF GoldIndex
            <3>2. q.formats[f] \in Formats /\ f \in 1..Len(q.formats)
                BY <1>1
            <3>3. FilesOf[q.formats[f]] \in Seq(GoldPaths)
                BY <3>2, PipelineAssumption
            <3>4. ix[1] = f /\ ix[2] \in DOMAIN FilesOf[q.formats[f]]
                BY <3>1
            <3>5. FilesOf[q.formats[f]][ix[2]] \in GoldPaths
                BY <3>3, <3>4
            <3> QED BY <3>2, <3>4, <3>5 DEF GoldAt, Paths
        <2> QED BY <2>1, <2>2
    <1>3. Silver \in GoldSet(q)
        <2>1. <<0, 1>> \in GoldIndex(q) BY DEF GoldIndex
        <2>2. GoldAt(q, <<0, 1>>) = Silver BY DEF GoldAt
        <2> QED BY <2>1, <2>2 DEF GoldSet
    <1> QED BY <1>1, <1>2, <1>3 DEF GoldSet

LEMMA GoldIndexFinite ==
    ASSUME NEW q \in Requests
    PROVE  IsFiniteSet(GoldIndex(q))
    <1> DEFINE D == DOMAIN q.formats
               ixs == [f \in D |-> {f} \X DOMAIN FilesOf[q.formats[f]]]
               T == {ixs[f] : f \in D}
    <1>1. q.formats \in Seq(Formats) /\ D = 1..Len(q.formats) /\ Len(q.formats) \in Nat
        BY GoldType
    <1>2. IsFiniteSet(D)
        BY <1>1, FS_Interval
    <1>3. IsFiniteSet(T)
        <2>1. ixs \in Surjection(D, T)
            BY DEF Surjection
        <2> QED BY <1>2, <2>1, FS_Surjection
    <1>4. ASSUME NEW f \in D
          PROVE  IsFiniteSet(ixs[f])
        <2>1. FilesOf[q.formats[f]] \in Seq(GoldPaths)
            BY <1>1, PipelineAssumption
        <2>2. /\ DOMAIN FilesOf[q.formats[f]] = 1..Len(FilesOf[q.formats[f]])
              /\ Len(FilesOf[q.formats[f]]) \in Int
            BY <2>1
        <2>3. IsFiniteSet(DOMAIN FilesOf[q.formats[f]])
            BY <2>2, FS_Interval
        <2> QED BY <2>3, FS_Singleton, FS_Product
    <1>5. IsFiniteSet(UNION T)
        BY <1>3, <1>4, FS_UNION
    <1>6. GoldIndex(q) = {<<0, 1>>} \cup UNION T
        BY DEF GoldIndex
    <1>7. IsFiniteSet({<<0, 1>>})
        BY FS_Singleton
    <1> HIDE DEF T
    <1>8. IsFiniteSet({<<0, 1>>} \cup UNION T)
        BY <1>5, <1>7, FS_Union
    <1> QED BY <1>6, <1>8

LEMMA ContentHashType ==
    ASSUME NEW q \in Requests
    PROVE  ContentHash(q) \in [Contents -> Nat]
    <1>1. ASSUME NEW c \in Contents
          PROVE  Cardinality({ix \in GoldIndex(q) : files[GoldAt(q, ix)] = c}) \in Nat
        BY GoldIndexFinite, FS_Subset, FS_CardinalityType
    <1> QED BY <1>1 DEF ContentHash

\* The file the cursor points at is one of the request's files.
LEMMA NextGoldType ==
    ASSUME TypeOK, NEW r \in Runs, pc[r] = "export"
    PROVE  /\ req[r] \in Requests
           /\ cursor[r][1] \in 1..Len(req[r].formats)
           /\ GoldFiles(r) \in Seq(GoldPaths)
           /\ cursor[r][2] \in 1..Len(GoldFiles(r))
           /\ NextGold(r) \in GoldPaths
    <1>1. req[r] \in Requests /\ req[r].formats \in Seq(Formats)
        BY GoldType DEF TypeOK
    <1>2. cursor[r][1] \in 1..Len(req[r].formats)
        BY <1>1 DEF TypeOK
    <1>3. GoldFiles(r) \in Seq(GoldPaths)
        BY <1>1, <1>2, PipelineAssumption DEF GoldFiles
    <1>4. cursor[r][2] \in 1..Len(GoldFiles(r))
        BY <1>3 DEF TypeOK
    <1> QED BY <1>1, <1>2, <1>3, <1>4 DEF NextGold

----------------------------------------------------------------------------
(* Type correctness.                                                       *)

LEMMA InitTypeOK == Init => TypeOK
    <1> SUFFICES ASSUME Init PROVE TypeOK
        OBVIOUS
    <1>1. <<1, 1>> \in Nat \X Nat
        OBVIOUS
    <1> QED BY <1>1 DEF Init, TypeOK, Working, Stamped


\* The cursor stays inside the request's files.
LEMMA AdvanceType ==
    ASSUME TypeOK, NEW r \in Runs, pc[r] = "export", Advance(r), UNCHANGED req
    PROVE  /\ cursor' \in [Runs -> Nat \X Nat]
           /\ \E label \in {"export", "hash"} : Goto(r, label)
           /\ \A s \in Runs \ {r} : cursor'[s] = cursor[s]
           /\ pc'[r] = "export" =>
                  /\ cursor'[r][1] \in DOMAIN req'[r].formats
                  /\ cursor'[r][2] \in DOMAIN GoldFiles(r)'
    <1> DEFINE f == cursor[r][1]
               k == cursor[r][2]
    <1>1. /\ req[r] \in Requests
          /\ f \in 1..Len(req[r].formats)
          /\ GoldFiles(r) \in Seq(GoldPaths)
          /\ k \in 1..Len(GoldFiles(r))
          /\ req[r].formats \in Seq(Formats)
        BY NextGoldType, GoldType
    <1>2. /\ cursor \in [Runs -> Nat \X Nat]
          /\ pc \in [Runs -> Working \cup {"idle", "done", "failed"}]
        BY DEF TypeOK
    <1>3. CASE /\ k < Len(GoldFiles(r))
               /\ cursor' = [cursor EXCEPT ![r] = <<f, k + 1>>]
               /\ Goto(r, "export")
        <2>1. cursor'[r] = <<f, k + 1>>
            BY <1>2, <1>3
        <2>2. GoldFiles(r)' = GoldFiles(r)
            BY <2>1 DEF GoldFiles
        <2>3. k + 1 \in 1..Len(GoldFiles(r))
            BY <1>1, <1>3
        <2> QED BY <1>1, <1>2, <1>3, <2>1, <2>2, <2>3
    <1>4. CASE /\ k = Len(GoldFiles(r)) /\ f < Len(req[r].formats)
               /\ cursor' = [cursor EXCEPT ![r] = <<f + 1, 1>>]
               /\ Goto(r, "export")
        <2>1. cursor'[r] = <<f + 1, 1>>
            BY <1>2, <1>4
        <2>2. f + 1 \in 1..Len(req[r].formats)
            BY <1>1, <1>4
        <2>3. FilesOf[req[r].formats[f + 1]] \in Seq(GoldPaths) \ {<<>>}
            BY <1>1, <2>2, PipelineAssumption
        <2>4. 1 \in DOMAIN FilesOf[req[r].formats[f + 1]]
            BY <2>3
        <2>5. GoldFiles(r)' = FilesOf[req[r].formats[f + 1]]
            BY <2>1 DEF GoldFiles
        <2> QED BY <1>1, <1>2, <1>4, <2>1, <2>2, <2>4, <2>5
    <1>5. CASE /\ k = Len(GoldFiles(r)) /\ f = Len(req[r].formats)
               /\ cursor' = cursor
               /\ Goto(r, "hash")
        BY <1>2, <1>5 DEF Goto
    <1> QED BY <1>3, <1>4, <1>5 DEF Advance

\* What an invocation that has stamped its provenance computes.
LEMMA VerdictForType ==
    ASSUME TypeOK, NEW r \in Runs, pc[r] \in Stamped
    PROVE  /\ VerdictFor(r) \in Verdicts
           /\ req[r] \in Requests
           /\ prov[r] \in Sidecars
           /\ MerkleRoot(prov[r].hashes) \in Roots
    <1>1. req[r] \in Requests /\ prov[r] \in Sidecars
        BY DEF TypeOK, Stamped
    <1>2. req[r].input \in Inputs /\ prov[r].signed \in BOOLEAN
        BY <1>1, GoldType DEF Sidecars
    <1>3. VerdictFor(r) \in Verdicts
        BY <1>2, PipelineAssumption DEF VerdictFor
    <1>4. MerkleRoot(prov[r].hashes) \in Roots
        BY <1>1 DEF MerkleRoot, Roots, Sidecars, Hashes
    <1> QED BY <1>1, <1>3, <1>4

\* What a run has to record is a list of formats.
LEMMA AnnouncedType ==
    ASSUME TypeOK, NEW r \in Runs, pc[r] # "idle"
    PROVE  /\ Announced(r) \in Seq(Formats)
           /\ Len(Announced(r)) \in Nat
           /\ DOMAIN Announced(r) = 1..Len(Announced(r))
    <1>1. req[r].formats \in Seq(Formats)
        BY GoldType DEF TypeOK
    <1>2. Announced(r) \in Seq(Formats)
        BY <1>1 DEF Announced
    <1> QED BY <1>2

LEMMA ManifestType ==
    ASSUME TypeOK, NEW r \in Runs, pc[r] = "manifest"
    PROVE  ManifestOf(r) \in Manifests
    <1>1. chash[r] \in [Contents -> Nat]
        BY DEF TypeOK
    <1> QED BY <1>1, VerdictForType, GoldType
            DEF ManifestOf, Manifests, Stamped, Sidecars

LEMMA DatacardType ==
    ASSUME TypeOK, NEW r \in Runs, pc[r] = "datacard"
    PROVE  DatacardOf(r) \in Datacards
    BY VerdictForType, GoldType DEF DatacardOf, Datacards, Stamped, Sidecars

LEMMA NextTypeOK == TypeOK /\ [Next]_vars => TypeOK'
    <1> SUFFICES ASSUME TypeOK, [Next]_vars PROVE TypeOK'
        OBVIOUS
    <1> USE DEF Goto, Working, Stamped, docs, GoldFiles
    <1>1. ASSUME NEW r \in Runs, Start(r) PROVE TypeOK'
        BY <1>1 DEF TypeOK, Start
    <1>2. ASSUME NEW r \in Runs, Project(r) PROVE TypeOK'
        BY <1>2 DEF TypeOK, Project
    <1>3. ASSUME NEW r \in Runs, WriteSilver(r) PROVE TypeOK'
        <2>1. req[r] \in Requests /\ cursor[r] = <<1, 1>>
            BY <1>3 DEF TypeOK, WriteSilver
        <2>2. /\ Bytes(Silver, req[r].input) \in Contents
              /\ Bytes(Silver, req[r].input).kind = KindOf[Silver]
            BY <2>1, GoldType, BytesType DEF Paths
        <2>3. ASSUME req[r].formats # <<>>
              PROVE  /\ 1 \in DOMAIN req[r].formats
                     /\ 1 \in DOMAIN FilesOf[req[r].formats[1]]
            <3>1. req[r].formats \in Seq(Formats)
                BY <2>1, GoldType
            <3>2. 1 \in DOMAIN req[r].formats /\ req[r].formats[1] \in Formats
                BY <2>3, <3>1
            <3>3. FilesOf[req[r].formats[1]] \in Seq(GoldPaths) \ {<<>>}
                BY <3>2, PipelineAssumption
            <3> QED BY <3>2, <3>3
        <2> QED BY <1>3, <2>1, <2>2, <2>3 DEF TypeOK, WriteSilver, Paths
    <1>4. ASSUME NEW r \in Runs, ExportFile(r) PROVE TypeOK'
        <2> DEFINE p == NextGold(r)
        <2>1. pc[r] = "export" /\ Advance(r) /\ UNCHANGED req
            BY <1>4 DEF ExportFile
        <2>2. req[r] \in Requests /\ p \in Paths
            BY <2>1, NextGoldType DEF Paths
        <2>3. /\ Bytes(p, req[r].input) \in Contents
              /\ Bytes(p, req[r].input).kind = KindOf[p]
            BY <2>2, GoldType, BytesType
        <2> HIDE DEF p
        <2>4. /\ files' \in [Paths -> Contents \cup {Absent}]
              /\ \A x \in Paths : files'[x] # Absent => files'[x].kind = KindOf[x]
            BY <1>4, <2>2, <2>3 DEF TypeOK, ExportFile, p
        <2>5. /\ cursor' \in [Runs -> Nat \X Nat]
              /\ \E label \in {"export", "hash"} : pc' = [pc EXCEPT ![r] = label]
              /\ \A s \in Runs \ {r} : cursor'[s] = cursor[s]
              /\ pc'[r] = "export" =>
                     /\ cursor'[r][1] \in DOMAIN req'[r].formats
                     /\ cursor'[r][2] \in DOMAIN GoldFiles(r)'
            BY <2>1, AdvanceType
        <2>6. UNCHANGED <<req, prov, chash, sidecar, qa, manifest, datacard, records>>
            BY <1>4 DEF ExportFile
        <2>7. ASSUME NEW s \in Runs, pc'[s] = "export"
              PROVE  /\ cursor'[s][1] \in DOMAIN req'[s].formats
                     /\ cursor'[s][2] \in DOMAIN GoldFiles(s)'
            <3>1. CASE s = r
                BY <2>5, <2>7, <3>1
            <3>2. CASE s # r
                <4>1. pc'[s] = pc[s] /\ cursor'[s] = cursor[s] /\ req'[s] = req[s]
                    BY <2>5, <2>6, <3>2 DEF TypeOK
                <4> QED BY <2>7, <4>1 DEF TypeOK
            <3> QED BY <3>1, <3>2
        <2>8. /\ pc' \in [Runs -> Working \cup {"idle", "done", "failed"}]
              /\ \A s \in Runs : pc'[s] \in {"idle", "project", "silver"} =>
                     cursor'[s] = <<1, 1>>
              /\ \A s \in Runs : pc'[s] # "idle" => pc[s] # "idle"
              /\ \A s \in Runs : pc'[s] \in Stamped => pc[s] \in Stamped
              /\ \A s \in Runs : pc'[s] \in {"manifest", "datacard", "append"} =>
                     pc[s] \in {"manifest", "datacard", "append"}
              /\ \A s \in Runs : pc'[s] = "append" => cursor'[s][1] > 0
            BY <2>1, <2>5 DEF TypeOK
        <2> HIDE DEF GoldFiles, Goto, Working, docs
        <2> QED BY <2>4, <2>5, <2>6, <2>7, <2>8 DEF TypeOK
    <1>5. ASSUME NEW r \in Runs, HashFiles(r) PROVE TypeOK'
        <2>1. FileHashes(req[r]) \in Hashes
            BY DEF TypeOK, FileHashes, Hashes
        <2> QED BY <1>5, <2>1 DEF TypeOK, HashFiles, Sidecars
    <1>6. ASSUME NEW r \in Runs, WriteSidecar(r) PROVE TypeOK'
        BY <1>6 DEF TypeOK, WriteSidecar
    <1>7. ASSUME NEW r \in Runs, WriteQa(r) PROVE TypeOK'
        <2>1. VerdictFor(r) \in Verdicts
            BY <1>7, VerdictForType DEF WriteQa
        <2> QED BY <1>7, <2>1 DEF TypeOK, WriteQa
    <1>8. ASSUME NEW r \in Runs, HashContent(r) PROVE TypeOK'
        BY <1>8, ContentHashType DEF TypeOK, HashContent
    <1>9. ASSUME NEW r \in Runs, WriteManifest(r) PROVE TypeOK'
        <2>1. ManifestOf(r) \in Manifests
            BY <1>9, ManifestType DEF WriteManifest
        <2> QED BY <1>9, <2>1 DEF TypeOK, WriteManifest
    <1>10. ASSUME NEW r \in Runs, WriteDatacard(r) PROVE TypeOK'
        <2>1. DatacardOf(r) \in Datacards
            BY <1>10, DatacardType DEF WriteDatacard
        <2> QED BY <1>10, <2>1 DEF TypeOK, WriteDatacard
    <1>11. ASSUME NEW r \in Runs, AppendRecord(r) PROVE TypeOK'
        <2>1. pc[r] = "append" /\ pc[r] # "idle"
            BY <1>11 DEF AppendRecord
        <2>2. /\ Announced(r) \in Seq(Formats) /\ Len(Announced(r)) \in Nat
              /\ DOMAIN Announced(r) = 1..Len(Announced(r))
            BY <2>1, AnnouncedType
        <2>3. /\ cursor \in [Runs -> Nat \X Nat]
              /\ cursor' = [cursor EXCEPT ![r] = <<cursor[r][1] + 1, 1>>]
              /\ cursor[r][1] <= Len(Announced(r))
            BY <1>11 DEF AppendRecord, TypeOK
        <2>4. cursor[r][1] \in 1..Len(Announced(r))
            BY <2>1, <2>2, <2>3 DEF TypeOK
        <2>5. RecordAt(r, cursor[r][1]) \in [run : Runs, format : Formats]
            BY <2>2, <2>4 DEF RecordAt
        <2>6. records' \in Seq([run : Runs, format : Formats])
            BY <1>11, <2>5 DEF TypeOK, AppendRecord
        <2>7. /\ cursor' \in [Runs -> Nat \X Nat] /\ cursor'[r][1] > 0
              /\ \A s \in Runs : s # r => cursor'[s] = cursor[s]
            BY <2>2, <2>3, <2>4
        <2>8. /\ pc' = pc
              /\ UNCHANGED <<req, prov, chash, files, sidecar, qa, manifest, datacard>>
            BY <1>11, <2>1 DEF TypeOK, AppendRecord
        <2> QED BY <2>1, <2>6, <2>7, <2>8 DEF TypeOK
    <1>15. ASSUME NEW r \in Runs, Return(r) PROVE TypeOK'
        BY <1>15 DEF TypeOK, Return, Announced
    <1>12. ASSUME NEW r \in Runs, Raise(r) PROVE TypeOK'
        BY <1>12 DEF TypeOK, Raise, Active
    <1>13. ASSUME NEW r \in Runs, WriteFails(r) PROVE TypeOK'
        <2>1. /\ files' \in [Paths -> Contents \cup {Absent}]
              /\ \A x \in Paths : files'[x] # Absent => files'[x].kind = KindOf[x]
            <3>1. ASSUME NEW p \in Paths, SpoilFile(p)
                  PROVE  /\ files' \in [Paths -> Contents \cup {Absent}]
                         /\ \A x \in Paths :
                                files'[x] # Absent => files'[x].kind = KindOf[x]
                <4>1. [kind |-> KindOf[p], data |-> Torn] \in Contents
                    BY DEF Contents, Kinds
                <4> QED BY <3>1, <4>1 DEF TypeOK, SpoilFile
            <3>2. CASE pc[r] = "silver" /\ SpoilFile(Silver)
                BY <3>1, <3>2 DEF Paths
            <3>3. CASE pc[r] = "export" /\ SpoilFile(NextGold(r))
                BY <3>1, <3>3, NextGoldType DEF Paths
            <3>4. CASE UNCHANGED files
                BY <3>4 DEF TypeOK
            <3> QED BY <1>13, <3>2, <3>3, <3>4 DEF WriteFails, SpoilDoc
        <2>2. /\ sidecar' \in {sidecar, Torn} /\ qa' \in {qa, Torn}
              /\ manifest' \in {manifest, Torn} /\ datacard' \in {datacard, Torn}
            BY <1>13 DEF WriteFails, SpoilFile, SpoilDoc
        <2> QED BY <1>13, <2>1, <2>2 DEF TypeOK, WriteFails
    <1>14. ASSUME UNCHANGED vars PROVE TypeOK'
        BY <1>14 DEF TypeOK, vars, run
    <1> QED BY <1>1, <1>2, <1>3, <1>4, <1>5, <1>6, <1>7, <1>8, <1>9, <1>10,
               <1>11, <1>12, <1>13, <1>14, <1>15 DEF Next, Step

\* Every state of the pipeline is well typed, and no cursor runs off the
\* request's files.
THEOREM TypeCorrect == Spec => []TypeOK
    BY InitTypeOK, NextTypeOK, PTL DEF Spec

----------------------------------------------------------------------------
LEMMA InitDocumentsInv == Init => DocumentsInv
    BY InitTypeOK DEF Init, DocumentsInv, DocumentsInOrder, DocumentProgress, Stamped

\* A step that moves r past a document leaves that document on disk.
LEMMA DocumentsStay ==
    ASSUME DocumentsInv, NEW r \in Runs, NEW label, Goto(r, label),
           sidecar # NoDoc => sidecar' # NoDoc,
           qa # NoDoc => qa' # NoDoc,
           manifest # NoDoc => manifest' # NoDoc,
           datacard # NoDoc => datacard' # NoDoc,
           label \in Stamped \ {"sidecar"} => sidecar' # NoDoc,
           label \in Stamped \ {"sidecar", "qa"} => qa' # NoDoc,
           label \in {"datacard", "append"} => manifest' # NoDoc,
           label = "append" => datacard' # NoDoc
    PROVE  \A s \in Runs : DocumentProgress(s)'
    <1> SUFFICES ASSUME NEW s \in Runs PROVE DocumentProgress(s)'
        OBVIOUS
    <1>1. pc \in [Runs -> Working \cup {"idle", "done", "failed"}]
        BY DEF DocumentsInv, TypeOK
    <1>2. CASE s = r
        <2>1. pc'[s] = label
            BY <1>1, <1>2 DEF Goto
        <2> QED BY <2>1 DEF DocumentProgress
    <1>3. CASE s # r
        <2>1. pc'[s] = pc[s] /\ DocumentProgress(s)
            BY <1>1, <1>3 DEF Goto, DocumentsInv
        <2> QED BY <2>1 DEF DocumentProgress
    <1> QED BY <1>2, <1>3

LEMMA NextDocumentsInv == DocumentsInv /\ [Next]_vars => DocumentsInv'
    <1> SUFFICES ASSUME DocumentsInv, [Next]_vars
                 PROVE  DocumentsInOrder' /\ \A r \in Runs : DocumentProgress(r)'
        BY NextTypeOK DEF DocumentsInv
    <1> USE DEF docs
    <1>1. TypeOK /\ DocumentsInOrder
        BY DEF DocumentsInv
    <1>2. ASSUME NEW r \in Runs, NEW label, Goto(r, label), UNCHANGED <<docs, records>>,
                 label \notin Stamped \ {"sidecar"}
          PROVE  DocumentsInOrder' /\ \A s \in Runs : DocumentProgress(s)'
        BY <1>1, <1>2, DocumentsStay DEF DocumentsInOrder, Stamped
    <1>3. ASSUME NEW r \in Runs,
                 Start(r) \/ Project(r) \/ WriteSilver(r) \/ HashFiles(r) \/ Raise(r)
          PROVE  DocumentsInOrder' /\ \A s \in Runs : DocumentProgress(s)'
        BY <1>2, <1>3 DEF Start, Project, WriteSilver, HashFiles, Raise, Stamped
    <1>4. ASSUME NEW r \in Runs, ExportFile(r)
          PROVE  DocumentsInOrder' /\ \A s \in Runs : DocumentProgress(s)'
        <2>1. /\ pc[r] = "export" /\ Advance(r)
              /\ UNCHANGED req /\ UNCHANGED <<docs, records>>
            BY <1>4 DEF ExportFile
        <2>2. \E label \in {"export", "hash"} : Goto(r, label)
            BY <1>1, <2>1, AdvanceType
        <2> QED BY <1>2, <2>1, <2>2 DEF Stamped
    <1>5. ASSUME NEW r \in Runs, WriteSidecar(r)
          PROVE  DocumentsInOrder' /\ \A s \in Runs : DocumentProgress(s)'
        <2>1. sidecar' # NoDoc
            BY <1>1, <1>5, PipelineAssumption DEF WriteSidecar, TypeOK, Stamped
        <2> QED BY <1>1, <1>5, <2>1, DocumentsStay
                DEF WriteSidecar, DocumentsInOrder, Stamped
    <1>6. ASSUME NEW r \in Runs, WriteQa(r)
          PROVE  DocumentsInOrder' /\ \A s \in Runs : DocumentProgress(s)'
        <2>1. qa' # NoDoc
            BY <1>1, <1>6, VerdictForType, PipelineAssumption DEF WriteQa, Stamped
        <2>2. sidecar # NoDoc
            BY <1>6 DEF DocumentsInv, DocumentProgress, WriteQa, Stamped
        <2> QED BY <1>1, <1>6, <2>1, <2>2, DocumentsStay
                DEF WriteQa, DocumentsInOrder, Stamped
    <1>7. ASSUME NEW r \in Runs, HashContent(r)
          PROVE  DocumentsInOrder' /\ \A s \in Runs : DocumentProgress(s)'
        <2>1. sidecar # NoDoc /\ qa # NoDoc
            BY <1>7 DEF DocumentsInv, DocumentProgress, HashContent, Stamped
        <2> QED BY <1>1, <1>7, <2>1, DocumentsStay
                DEF HashContent, DocumentsInOrder, Stamped
    <1>8. ASSUME NEW r \in Runs, WriteManifest(r)
          PROVE  DocumentsInOrder' /\ \A s \in Runs : DocumentProgress(s)'
        <2>1. manifest' # NoDoc
            BY <1>1, <1>8, ManifestType, PipelineAssumption DEF WriteManifest
        <2>2. sidecar # NoDoc /\ qa # NoDoc
            BY <1>8 DEF DocumentsInv, DocumentProgress, WriteManifest, Stamped
        <2> QED BY <1>1, <1>8, <2>1, <2>2, DocumentsStay
                DEF WriteManifest, DocumentsInOrder, Stamped
    <1>9. ASSUME NEW r \in Runs, WriteDatacard(r)
          PROVE  DocumentsInOrder' /\ \A s \in Runs : DocumentProgress(s)'
        <2>1. datacard' # NoDoc
            BY <1>1, <1>9, DatacardType, PipelineAssumption DEF WriteDatacard
        <2>2. sidecar # NoDoc /\ qa # NoDoc /\ manifest # NoDoc
            BY <1>9 DEF DocumentsInv, DocumentProgress, WriteDatacard, Stamped
        <2> QED BY <1>1, <1>9, <2>1, <2>2, DocumentsStay
                DEF WriteDatacard, DocumentsInOrder, Stamped
    <1>10. ASSUME NEW r \in Runs, AppendRecord(r) \/ Return(r)
           PROVE  DocumentsInOrder' /\ \A s \in Runs : DocumentProgress(s)'
        <2>1. sidecar # NoDoc /\ qa # NoDoc /\ manifest # NoDoc /\ datacard # NoDoc
            BY <1>10 DEF DocumentsInv, DocumentProgress, AppendRecord, Return, Stamped
        <2>2. UNCHANGED docs /\ (Goto(r, "append") \/ Goto(r, "done"))
            BY <1>10 DEF AppendRecord, Return
        <2> QED BY <2>1, <2>2, DocumentsStay DEF DocumentsInOrder, Stamped
    <1>11. ASSUME NEW r \in Runs, WriteFails(r)
           PROVE  DocumentsInOrder' /\ \A s \in Runs : DocumentProgress(s)'
        <2>1. Goto(r, "failed") /\ UNCHANGED records
            BY <1>11 DEF WriteFails
        <2>2. /\ sidecar' \in {sidecar, Torn} /\ qa' \in {qa, Torn}
              /\ manifest' \in {manifest, Torn} /\ datacard' \in {datacard, Torn}
            BY <1>11 DEF WriteFails, SpoilFile, SpoilDoc
        <2>3. \A s \in Runs : DocumentProgress(s)'
            BY <1>1, <2>1, <2>2, DocumentsStay, PipelineAssumption DEF Stamped
        <2>4. /\ qa' = qa \/ sidecar # NoDoc
              /\ manifest' = manifest \/ qa # NoDoc
              /\ datacard' = datacard \/ manifest # NoDoc
            BY <1>11 DEF WriteFails, SpoilFile, SpoilDoc, DocumentsInv,
                         DocumentProgress, Stamped
        <2>5. DocumentsInOrder'
            BY <1>1, <2>1, <2>2, <2>4, PipelineAssumption DEF DocumentsInOrder
        <2> QED BY <2>3, <2>5
    <1>12. ASSUME UNCHANGED vars
           PROVE  DocumentsInOrder' /\ \A s \in Runs : DocumentProgress(s)'
        BY <1>12 DEF vars, run, DocumentsInv, DocumentsInOrder, DocumentProgress, Stamped
    <1> QED BY <1>3, <1>4, <1>5, <1>6, <1>7, <1>8, <1>9, <1>10, <1>11, <1>12
            DEF Next, Step

\* The documents appear in order whatever the interleaving: Serialised is not
\* assumed.
THEOREM DocumentOrder == Spec => []DocumentsInOrder
    <1>1. DocumentsInv => DocumentsInOrder
        BY DEF DocumentsInv
    <1> QED BY <1>1, InitDocumentsInv, NextDocumentsInv, PTL DEF Spec

----------------------------------------------------------------------------
(* session.exports, under any interleaving of invocations.                 *)

\* What a run has recorded stays recorded while its records and its request do.
LEMMA RecordedStays ==
    ASSUME NEW s \in Runs, NEW n, RecordedUpTo(s, n),
           RecordsBy(s)' = RecordsBy(s), req'[s] = req[s],
           \A m \in RecordsBy(s) : records'[m] = records[m]
    PROVE  RecordedUpTo(s, n)'
    <1>1. Announced(s)' = Announced(s)
        BY DEF Announced
    <1>2. PICK at \in [1..n -> RecordsBy(s)] :
              /\ \A m \in RecordsBy(s) : \E k \in 1..n : at[k] = m
              /\ \A j, k \in 1..n : j < k => at[j] < at[k]
              /\ \A k \in 1..n : records[at[k]].format = Announced(s)[k]
        BY DEF RecordedUpTo
    <1>3. \A k \in 1..n : records'[at[k]].format = Announced(s)'[k]
        BY <1>1, <1>2
    <1>4. /\ at \in [1..n -> RecordsBy(s)']
          /\ \A m \in RecordsBy(s)' : \E k \in 1..n : at[k] = m
          /\ \A j, k \in 1..n : j < k => at[j] < at[k]
        BY <1>2
    <1> QED BY <1>3, <1>4, Zenon DEF RecordedUpTo

LEMMA NothingRecorded ==
    ASSUME NEW s \in Runs, RecordsBy(s) = {}
    PROVE  RecordedUpTo(s, 0)
    <1>1. 1..0 = {}
        OBVIOUS
    <1>2. [k \in {} |-> k] \in [1..0 -> RecordsBy(s)]
        BY <1>1
    <1> QED BY <1>1, <1>2 DEF RecordedUpTo

\* A run that makes no step, whatever the others append.
LEMMA OthersRecords ==
    ASSUME RecordsInv, NEW s \in Runs,
           pc'[s] = pc[s], cursor'[s] = cursor[s], req'[s] = req[s],
           RecordsBy(s)' = RecordsBy(s),
           \A m \in RecordsBy(s) : records'[m] = records[m]
    PROVE  RecordsProgress(s)'
    <1>1. RecordsProgress(s) /\ Announced(s)' = Announced(s)
        BY DEF RecordsInv, Announced
    <1>2. \A n : RecordedUpTo(s, n) => RecordedUpTo(s, n)'
        BY RecordedStays
    <1>3. pc[s] = "append" => RecordedUpTo(s, cursor[s][1] - 1)'
        <2> SUFFICES ASSUME pc[s] = "append"
                     PROVE  RecordedUpTo(s, cursor[s][1] - 1)'
            OBVIOUS
        <2>1. PICK c : c = cursor[s][1] - 1
            OBVIOUS
        <2>2. RecordedUpTo(s, c)
            BY <1>1, <2>1 DEF RecordsProgress
        <2>3. RecordedUpTo(s, c)'
            BY <1>2, <2>2
        <2>4. c = cursor'[s][1] - 1
            BY <2>1
        <2> QED BY <2>3, <2>4
    <1>4. pc[s] = "done" => RecordedUpTo(s, Len(Announced(s)))'
        <2> SUFFICES ASSUME pc[s] = "done"
                     PROVE  RecordedUpTo(s, Len(Announced(s)))'
            OBVIOUS
        <2>1. PICK c : c = Len(Announced(s))
            OBVIOUS
        <2>2. RecordedUpTo(s, c)
            BY <1>1, <2>1 DEF RecordsProgress
        <2>3. RecordedUpTo(s, c)'
            BY <1>2, <2>2
        <2>4. c = Len(Announced(s)')
            BY <1>1, <2>1
        <2> QED BY <2>3, <2>4
    <1>5. pc[s] = "failed" =>
              \E n \in 0..Len(Announced(s)') : RecordedUpTo(s, n)'
        BY <1>1, <1>2 DEF RecordsProgress
    <1> QED BY <1>1, <1>3, <1>4, <1>5 DEF RecordsProgress

\* The steps of an invocation outside its append loop, and a failure anywhere.
LEMMA EarlyRecords ==
    ASSUME RecordsInv, NEW r \in Runs, NEW label, Goto(r, label),
           UNCHANGED records, pc[r] \notin {"done", "failed"},
           \/ label \notin {"append", "done", "failed"} /\ pc[r] # "append"
           \/ label = "failed" /\ req'[r] = req[r] /\ pc[r] # "idle",
           \A s \in Runs \ {r} : req'[s] = req[s] /\ cursor'[s] = cursor[s]
    PROVE  \A s \in Runs : RecordsProgress(s)'
    <1>1. pc \in [Runs -> Working \cup {"idle", "done", "failed"}]
        BY DEF RecordsInv, TypeOK
    <1>2. \A s \in Runs : RecordsBy(s)' = RecordsBy(s)
        BY DEF RecordsBy
    <1>3. ASSUME NEW s \in Runs \ {r} PROVE RecordsProgress(s)'
        BY <1>1, <1>2, OthersRecords DEF Goto
    <1>4. pc'[r] = label
        BY <1>1 DEF Goto
    <1>5. RecordsProgress(r)
        BY DEF RecordsInv
    <1>6. CASE pc[r] # "append"
        <2>1. RecordsBy(r) = {}
            BY <1>5, <1>6 DEF RecordsProgress
        <2>2. ASSUME label # "failed" PROVE RecordsProgress(r)'
            <3>1. pc'[r] \notin {"append", "done", "failed"} /\ RecordsBy(r)' = {}
                BY <1>2, <1>4, <2>1, <2>2
            <3> QED BY ONLY <3>1 DEF RecordsProgress
        <2>3. ASSUME label = "failed" PROVE RecordsProgress(r)'
            <3>1. RecordedUpTo(r, 0)' /\ Announced(r)' = Announced(r)
                BY <1>2, <2>1, <2>3, NothingRecorded, RecordedStays DEF Announced
            <3>2. 0 \in 0..Len(Announced(r))
                BY <2>3, AnnouncedType DEF RecordsInv
            <3>3. \E n \in 0..Len(Announced(r)') : RecordedUpTo(r, n)'
                BY <3>1, <3>2
            <3> QED BY ONLY <1>4, <2>3, <3>3 DEF RecordsProgress
        <2>4. RecordsProgress(r)'
            BY <2>2, <2>3
        <2> QED BY <1>3, <2>4
    <1>7. CASE pc[r] = "append"
        <2>1. label = "failed" /\ Announced(r)' = Announced(r)
            BY <1>7 DEF Announced
        <2>2. PICK n : n = cursor[r][1] - 1
            OBVIOUS
        <2>3. RecordedUpTo(r, n)
            BY <1>5, <1>7, <2>2 DEF RecordsProgress
        <2>4. RecordedUpTo(r, n)'
            BY <1>2, <1>7, <2>3, RecordedStays
        <2>5. n \in 0..Len(Announced(r))
            <3>1. cursor[r][1] \in 1..(Len(Announced(r)) + 1)
                <4>1. Len(Announced(r)) \in Nat
                    BY <1>7, AnnouncedType DEF RecordsInv
                <4> QED BY <1>5, <1>7, <4>1 DEF RecordsInv, RecordsProgress, TypeOK
            <3>2. Len(Announced(r)) \in Nat
                BY <1>7, AnnouncedType DEF RecordsInv
            <3> QED BY <2>2, <3>1, <3>2
        <2>6. RecordsProgress(r)'
            BY <1>4, <2>1, <2>4, <2>5 DEF RecordsProgress
        <2> QED BY <1>3, <2>6
    <1> QED BY <1>6, <1>7

\* The loop begins with no record of its run.
LEMMA WriteDatacardRecords ==
    ASSUME RecordsInv, NEW r \in Runs, WriteDatacard(r)
    PROVE  \A s \in Runs : RecordsProgress(s)'
    <1>1. /\ pc \in [Runs -> Working \cup {"idle", "done", "failed"}]
          /\ cursor \in [Runs -> Nat \X Nat]
        BY DEF RecordsInv, TypeOK
    <1>2. /\ pc[r] = "datacard" /\ pc' = [pc EXCEPT ![r] = "append"]
          /\ cursor' = [cursor EXCEPT ![r] = <<1, 1>>]
          /\ UNCHANGED <<req, records>>
        BY DEF WriteDatacard, Goto
    <1>3. \A s \in Runs : RecordsBy(s)' = RecordsBy(s)
        BY <1>2 DEF RecordsBy
    <1>4. ASSUME NEW s \in Runs \ {r} PROVE RecordsProgress(s)'
        BY <1>1, <1>2, <1>3, OthersRecords
    <1>5. RecordsBy(r) = {}
        BY <1>2 DEF RecordsInv, RecordsProgress
    <1>6. RecordedUpTo(r, 0)'
        BY <1>2, <1>3, <1>5, NothingRecorded, RecordedStays
    <1>7. cursor'[r][1] - 1 = 0 /\ pc'[r] = "append"
        BY <1>1, <1>2
    <1>8. cursor'[r][1] <= Len(Announced(r)') + 1
        <2>1. Len(Announced(r)) \in Nat /\ Announced(r)' = Announced(r)
            BY <1>2, AnnouncedType DEF RecordsInv, Announced
        <2> QED BY <1>1, <1>2, <2>1
    <1>9. RecordsProgress(r)'
        BY <1>6, <1>7, <1>8 DEF RecordsProgress
    <1> QED BY <1>4, <1>9

\* One more record: the run's own next one, after all the others' and its own.
LEMMA AppendRecordRecords ==
    ASSUME RecordsInv, NEW r \in Runs, AppendRecord(r)
    PROVE  \A s \in Runs : RecordsProgress(s)'
    <1>1. /\ pc \in [Runs -> Working \cup {"idle", "done", "failed"}]
          /\ cursor \in [Runs -> Nat \X Nat]
          /\ records \in Seq([run : Runs, format : Formats])
        BY DEF RecordsInv, TypeOK
    <1>2. /\ pc[r] = "append" /\ pc' = pc /\ UNCHANGED req
          /\ cursor' = [cursor EXCEPT ![r] = <<cursor[r][1] + 1, 1>>]
        BY <1>1 DEF AppendRecord, Goto
    <1>3. PICK c : c = cursor[r][1] - 1
        OBVIOUS
    <1>4. PICK old : old = Len(records)
        OBVIOUS
    <1>5. Len(Announced(r)) \in Nat /\ Announced(r)' = Announced(r)
        BY <1>2, AnnouncedType DEF RecordsInv, Announced
    <1>6. c \in Nat /\ c + 1 = cursor[r][1] /\ c + 1 <= Len(Announced(r))
        BY <1>2, <1>3, <1>5 DEF AppendRecord, RecordsInv, TypeOK
    <1>7. records' = Append(records, RecordAt(r, c + 1))
        BY <1>6 DEF AppendRecord
    <1>8. /\ old \in Nat /\ DOMAIN records = 1..old
          /\ DOMAIN records' = 1..(old + 1)
          /\ \A m \in 1..old : records'[m] = records[m]
          /\ records'[old + 1] = RecordAt(r, c + 1)
        BY <1>1, <1>4, <1>7
    <1>9. /\ records'[old + 1].run = r
          /\ records'[old + 1].format = Announced(r)[c + 1]
        BY <1>8 DEF RecordAt
    <1>10. 1..(old + 1) = 1..old \cup {old + 1}
        BY <1>8
    <1>11. ASSUME NEW s \in Runs \ {r} PROVE RecordsProgress(s)'
        <2>1. RecordsBy(s)' = RecordsBy(s)
            BY <1>8, <1>9, <1>10 DEF RecordsBy
        <2>2. \A m \in RecordsBy(s) : records'[m] = records[m]
            BY <1>8 DEF RecordsBy
        <2>3. pc'[s] = pc[s] /\ cursor'[s] = cursor[s] /\ req'[s] = req[s]
            BY <1>1, <1>2
        <2> QED BY <2>1, <2>2, <2>3, OthersRecords
    <1>12. RecordsBy(r)' = RecordsBy(r) \cup {old + 1}
        BY <1>8, <1>9, <1>10 DEF RecordsBy
    <1>13. RecordsBy(r) \subseteq 1..old
        BY <1>8 DEF RecordsBy
    <1>14. RecordedUpTo(r, c)
        BY <1>2, <1>3 DEF RecordsInv, RecordsProgress
    <1>15. PICK at \in [1..c -> RecordsBy(r)] :
               /\ \A m \in RecordsBy(r) : \E k \in 1..c : at[k] = m
               /\ \A j, k \in 1..c : j < k => at[j] < at[k]
               /\ \A k \in 1..c : records[at[k]].format = Announced(r)[k]
        BY <1>14 DEF RecordedUpTo
    <1> DEFINE to == [k \in 1..(c + 1) |-> IF k = c + 1 THEN old + 1 ELSE at[k]]
    <1>16. 1..(c + 1) = 1..c \cup {c + 1} /\ c + 1 \notin 1..c
        BY <1>6
    <1>17. /\ \A k \in 1..c : to[k] = at[k] /\ at[k] \in RecordsBy(r)
           /\ to[c + 1] = old + 1
        BY <1>16
    <1>18. to \in [1..(c + 1) -> RecordsBy(r)']
        BY <1>12, <1>16, <1>17
    <1> HIDE DEF to
    <1>19. \A m \in RecordsBy(r)' : \E k \in 1..(c + 1) : to[k] = m
        BY <1>12, <1>15, <1>16, <1>17
    <1>20. ASSUME NEW j \in 1..(c + 1), NEW k \in 1..(c + 1), j < k
           PROVE  to[j] < to[k]
        <2>1. j \in 1..c
            BY <1>6, <1>20
        <2>2. CASE k \in 1..c
            BY <1>15, <1>17, <1>20, <2>1, <2>2
        <2>3. CASE k = c + 1
            <3>1. to[j] \in 1..old /\ to[k] = old + 1
                BY <1>13, <1>17, <2>1, <2>3
            <3> QED BY <1>8, <3>1
        <2> QED BY <1>16, <2>2, <2>3
    <1>21. ASSUME NEW k \in 1..(c + 1)
           PROVE  records'[to[k]].format = Announced(r)'[k]
        <2>1. CASE k \in 1..c
            <3>1. to[k] = at[k] /\ at[k] \in 1..old
                BY <1>13, <1>17, <2>1
            <3> QED BY <1>5, <1>8, <1>15, <2>1, <3>1
        <2>2. CASE k = c + 1
            BY <1>5, <1>9, <1>17, <2>2
        <2> QED BY <1>16, <2>1, <2>2
    <1>22. RecordedUpTo(r, c + 1)'
        BY <1>18, <1>19, <1>20, <1>21 DEF RecordedUpTo
    <1>23. cursor'[r][1] - 1 = c + 1 /\ pc'[r] = "append"
        BY <1>1, <1>2, <1>6
    <1>24. cursor'[r][1] <= Len(Announced(r)') + 1
        BY <1>5, <1>6, <1>23, <1>1, <1>2
    <1>25. RecordsProgress(r)'
        BY <1>22, <1>23, <1>24 DEF RecordsProgress
    <1> QED BY <1>11, <1>25

\* The loop ends with a record for every format.
LEMMA ReturnRecords ==
    ASSUME RecordsInv, NEW r \in Runs, Return(r)
    PROVE  \A s \in Runs : RecordsProgress(s)'
    <1>1. pc \in [Runs -> Working \cup {"idle", "done", "failed"}]
        BY DEF RecordsInv, TypeOK
    <1>2. /\ pc[r] = "append" /\ pc' = [pc EXCEPT ![r] = "done"]
          /\ UNCHANGED <<req, cursor, records>>
        BY DEF Return, Goto
    <1>3. \A s \in Runs : RecordsBy(s)' = RecordsBy(s)
        BY <1>2 DEF RecordsBy
    <1>4. ASSUME NEW s \in Runs \ {r} PROVE RecordsProgress(s)'
        BY <1>1, <1>2, <1>3, OthersRecords
    <1>5. PICK n : n = Len(Announced(r))
        OBVIOUS
    <1>6. n \in Nat /\ Announced(r)' = Announced(r)
        BY <1>2, <1>5, AnnouncedType DEF RecordsInv, Announced
    <1>7. cursor[r][1] - 1 = n
        BY <1>2, <1>5, <1>6 DEF Return, RecordsInv, RecordsProgress, TypeOK
    <1>8. RecordedUpTo(r, n)
        BY <1>2, <1>7 DEF RecordsInv, RecordsProgress
    <1>9. RecordedUpTo(r, n)'
        BY <1>2, <1>3, <1>8, RecordedStays
    <1>10. pc'[r] = "done" /\ n = Len(Announced(r)')
        BY <1>1, <1>2, <1>5, <1>6
    <1>11. RecordsProgress(r)'
        BY <1>9, <1>10 DEF RecordsProgress
    <1> QED BY <1>4, <1>11

LEMMA NextRecords ==
    ASSUME RecordsInv, [Next]_vars
    PROVE  RecordsInv'
    <1> SUFFICES \A r \in Runs : RecordsProgress(r)'
        BY NextTypeOK DEF RecordsInv
    <1>1. /\ pc \in [Runs -> Working \cup {"idle", "done", "failed"}]
          /\ req \in [Runs -> Requests \cup {NoDoc}]
        BY DEF RecordsInv, TypeOK
    <1>2. ASSUME NEW r \in Runs, Start(r) PROVE \A s \in Runs : RecordsProgress(s)'
        <2>1. \A s \in Runs \ {r} : req'[s] = req[s] /\ cursor'[s] = cursor[s]
            BY <1>1, <1>2 DEF Start
        <2> QED BY <1>2, <2>1, EarlyRecords DEF Start
    <1>3. ASSUME NEW r \in Runs, ExportFile(r)
          PROVE  \A s \in Runs : RecordsProgress(s)'
        <2>1. /\ pc[r] = "export" /\ Advance(r) /\ UNCHANGED <<req, records>>
            BY <1>3 DEF ExportFile
        <2>2. /\ \E label \in {"export", "hash"} : Goto(r, label)
              /\ \A s \in Runs \ {r} : cursor'[s] = cursor[s]
            BY <2>1, AdvanceType DEF RecordsInv
        <2> QED BY <2>1, <2>2, EarlyRecords
    <1>4. ASSUME NEW r \in Runs,
                 \/ Project(r) \/ WriteSilver(r) \/ HashFiles(r) \/ WriteSidecar(r)
                 \/ WriteQa(r) \/ HashContent(r) \/ WriteManifest(r)
          PROVE  \A s \in Runs : RecordsProgress(s)'
        <2>1. /\ UNCHANGED <<req, cursor, records>>
              /\ pc[r] \notin {"append", "done", "failed"}
            BY <1>4 DEF Project, WriteSilver, HashFiles, WriteSidecar, WriteQa,
                        HashContent, WriteManifest
        <2>2. \E label : Goto(r, label) /\ label \notin {"append", "done", "failed"}
            BY <1>4 DEF Project, WriteSilver, HashFiles, WriteSidecar, WriteQa,
                        HashContent, WriteManifest
        <2> QED BY <2>1, <2>2, EarlyRecords
    <1>5. ASSUME NEW r \in Runs, Raise(r) \/ WriteFails(r)
          PROVE  \A s \in Runs : RecordsProgress(s)'
        <2>1. /\ UNCHANGED <<req, cursor, records>> /\ Goto(r, "failed")
              /\ pc[r] \notin {"idle", "done", "failed"}
            BY <1>5 DEF Raise, WriteFails, Active, Working, Stamped
        <2> QED BY <2>1, EarlyRecords
    <1>6. ASSUME UNCHANGED vars PROVE \A s \in Runs : RecordsProgress(s)'
        <2>1. \A s \in Runs : RecordsBy(s)' = RecordsBy(s)
            BY <1>6 DEF vars, RecordsBy
        <2> QED BY <1>6, <2>1, OthersRecords DEF vars, run
    <1> QED BY <1>2, <1>3, <1>4, <1>5, <1>6, WriteDatacardRecords,
               AppendRecordRecords, ReturnRecords DEF Next, Step

LEMMA InitRecords == Init => RecordsInv
    BY InitTypeOK DEF Init, RecordsInv, RecordsProgress, RecordsBy

LEMMA InvIsRecorded == RecordsInv => RecordsFollowTheRequest
    <1> SUFFICES ASSUME RecordsInv, NEW r \in Runs, pc[r] = "append"
                 PROVE  \E n \in 0..Len(Announced(r)) : RecordedUpTo(r, n)
        BY DEF RecordsInv, RecordsProgress, RecordsFollowTheRequest
    <1>1. /\ cursor[r][1] \in 1..(Len(Announced(r)) + 1)
          /\ Len(Announced(r)) \in Nat
        BY AnnouncedType DEF RecordsInv, RecordsProgress, TypeOK
    <1>2. cursor[r][1] - 1 \in 0..Len(Announced(r))
        BY <1>1
    <1> QED BY <1>2 DEF RecordsInv, RecordsProgress

\* session.exports holds, of every run, an initial part of the records of its
\* request in order, and all of them once it has returned, whatever
\* invocations overlap and however their records come in between.
THEOREM Records == Spec => []RecordsFollowTheRequest
    BY InitRecords, NextRecords, InvIsRecorded, PTL DEF Spec

----------------------------------------------------------------------------
(***************************************************************************)
(* The package on disk, when invocations do not overlap: PackageInv is     *)
(* inductive, and the three properties of the serialised pipeline follow.  *)
(***************************************************************************)

LEMMA GoldIndexType ==
    ASSUME NEW q \in Requests, NEW ix \in GoldIndex(q)
    PROVE  /\ ix = <<ix[1], ix[2]>>
           /\ ix[1] \in Nat /\ ix[2] \in Nat /\ ix[2] >= 1
           /\ ix[1] = 0 => GoldAt(q, ix) = Silver
           /\ ix[1] # 0 =>
                /\ ix[1] \in 1..Len(q.formats)
                /\ ix[2] \in 1..Len(FilesOf[q.formats[ix[1]]])
                /\ GoldAt(q, ix) = FilesOf[q.formats[ix[1]]][ix[2]]
    <1>1. CASE ix = <<0, 1>>
        BY <1>1 DEF GoldAt
    <1>2. CASE ix # <<0, 1>>
        <2>1. PICK f \in DOMAIN q.formats : ix \in {f} \X DOMAIN FilesOf[q.formats[f]]
            BY <1>2 DEF GoldIndex
        <2>2. f \in 1..Len(q.formats) /\ q.formats[f] \in Formats
            BY GoldType
        <2>3. FilesOf[q.formats[f]] \in Seq(GoldPaths)
            BY <2>2, PipelineAssumption
        <2>4. DOMAIN FilesOf[q.formats[f]] = 1..Len(FilesOf[q.formats[f]])
            BY <2>3
        <2>5. /\ ix = <<ix[1], ix[2]>>
              /\ ix[1] = f
              /\ ix[2] \in 1..Len(FilesOf[q.formats[f]])
            BY <2>1, <2>4
        <2> QED BY <2>2, <2>3, <2>5 DEF GoldAt
    <1> QED BY <1>1, <1>2

\* After the cursor moves, what lies before it is what lay before it and the
\* file just written; past the end of the loop, that is everything.
LEMMA AdvanceCovers ==
    ASSUME TypeOK, NEW r \in Runs, pc[r] = "export", Advance(r),
           NEW ix \in GoldIndex(req[r]),
           pc'[r] = "export" => Before(ix, cursor'[r])
    PROVE  Before(ix, cursor[r]) \/ GoldAt(req[r], ix) = NextGold(r)
    <1> DEFINE f == cursor[r][1]
               k == cursor[r][2]
    <1>1. /\ req[r] \in Requests
          /\ f \in 1..Len(req[r].formats)
          /\ k \in 1..Len(GoldFiles(r))
          /\ Len(GoldFiles(r)) \in Nat /\ Len(req[r].formats) \in Nat
        <2>1. req[r].formats \in Seq(Formats) /\ GoldFiles(r) \in Seq(GoldPaths)
            BY NextGoldType, GoldType
        <2> QED BY <2>1, NextGoldType
    <1>2. /\ cursor \in [Runs -> Nat \X Nat]
          /\ pc \in [Runs -> Working \cup {"idle", "done", "failed"}]
        BY DEF TypeOK
    <1>3. /\ ix[1] \in Nat /\ ix[2] \in Nat /\ ix[2] >= 1
          /\ ix[1] # 0 => ix[1] \in 1..Len(req[r].formats)
          /\ ix[1] = f => ix[2] \in 1..Len(GoldFiles(r))
          /\ ix[1] = f /\ ix[2] = k => GoldAt(req[r], ix) = NextGold(r)
        <2>1. /\ ix[1] \in Nat /\ ix[2] \in Nat /\ ix[2] >= 1
              /\ ix[1] # 0 =>
                    /\ ix[1] \in 1..Len(req[r].formats)
                    /\ ix[2] \in 1..Len(FilesOf[req[r].formats[ix[1]]])
                    /\ GoldAt(req[r], ix) = FilesOf[req[r].formats[ix[1]]][ix[2]]
            BY <1>1, GoldIndexType
        <2>2. ASSUME ix[1] = f
              PROVE  /\ ix[2] \in 1..Len(GoldFiles(r))
                     /\ ix[2] = k => GoldAt(req[r], ix) = NextGold(r)
            <3>1. f # 0
                BY <1>1
            <3>2. /\ ix[2] \in 1..Len(FilesOf[req[r].formats[f]])
                  /\ GoldAt(req[r], ix) = FilesOf[req[r].formats[f]][ix[2]]
                BY <2>1, <2>2, <3>1
            <3> QED BY <3>2 DEF GoldFiles, NextGold
        <2> QED BY <2>1, <2>2
    <1>4. SUFFICES ix[1] < f \/ (ix[1] = f /\ ix[2] <= k)
        BY <1>1, <1>3 DEF Before
    <1>5. CASE /\ k < Len(GoldFiles(r))
               /\ cursor' = [cursor EXCEPT ![r] = <<f, k + 1>>]
               /\ Goto(r, "export")
        <2>1. cursor'[r] = <<f, k + 1>> /\ pc'[r] = "export"
            BY <1>2, <1>5 DEF Goto
        <2>2. ix[1] < f \/ (ix[1] = f /\ ix[2] < k + 1)
            BY <2>1 DEF Before
        <2> QED BY <1>1, <1>3, <2>2
    <1>6. CASE /\ k = Len(GoldFiles(r)) /\ f < Len(req[r].formats)
               /\ cursor' = [cursor EXCEPT ![r] = <<f + 1, 1>>]
               /\ Goto(r, "export")
        <2>1. cursor'[r] = <<f + 1, 1>> /\ pc'[r] = "export"
            BY <1>2, <1>6 DEF Goto
        <2>2. ix[1] < f + 1 \/ (ix[1] = f + 1 /\ ix[2] < 1)
            BY <2>1 DEF Before
        <2> QED BY <1>1, <1>3, <1>6, <2>2
    <1>7. CASE k = Len(GoldFiles(r)) /\ f = Len(req[r].formats)
        BY <1>1, <1>3, <1>7
    <1> QED BY <1>5, <1>6, <1>7 DEF Advance

----------------------------------------------------------------------------
LEMMA InitPackageInv == Init => PackageInv
    <1> SUFFICES ASSUME Init PROVE PackageInv
        OBVIOUS
    <1>1. \A r \in Runs : pc[r] = "idle"
        BY DEF Init
    <1>2. SoleActive
        BY <1>1 DEF SoleActive, Active, Working, Stamped
    <1>3. ASSUME NEW r \in Runs PROVE OwnProgress(r)
        BY <1>1 DEF OwnProgress, Stamped
    <1>4. SidecarOfOneInput /\ ManifestOfOneInput
        BY DEF Init, SidecarOfOneInput, ManifestOfOneInput, Intact
    <1> QED BY <1>2, <1>3, <1>4, InitTypeOK DEF PackageInv

\* While r works, a step of r leaves the other invocations' claims alone:
\* they are idle or over, and claim nothing of the disk.
LEMMA OthersProgress ==
    ASSUME PackageInv, NEW r \in Runs, Active(r),
           NEW s \in Runs \ {r}, UNCHANGED <<pc[s], req, chash[s]>>
    PROVE  OwnProgress(s)'
    <1>1. ~Active(s)
        BY DEF PackageInv, SoleActive
    <1>2. pc[s] \notin Working
        BY <1>1 DEF Active
    <1>3. pc'[s] \notin {"export", "hash"} \cup Stamped
        BY <1>2 DEF Working
    <1>4. pc[s] = "done" => chash[s] = CleanBuildHash(req[s])
        BY DEF PackageInv, OwnProgress
    <1> QED BY <1>3, <1>4 DEF OwnProgress, CleanBuildHash, Stamped

\* A step of the sole active invocation leaves one active invocation at most.
LEMMA SoleStays ==
    ASSUME PackageInv, NEW r \in Runs, Active(r),
           \A s \in Runs \ {r} : pc'[s] = pc[s]
    PROVE  SoleActive'
    BY DEF PackageInv, SoleActive, Active

----------------------------------------------------------------------------
(* One lemma per group of steps. Each starts from the invariant and leaves *)
(* TypeOK' to NextTypeOK.                                                  *)

\* The documents stay as they are.
LEMMA DocumentsUntouched ==
    ASSUME PackageInv, UNCHANGED <<sidecar, manifest>>
    PROVE  SidecarOfOneInput' /\ ManifestOfOneInput'
    BY DEF PackageInv, SidecarOfOneInput, ManifestOfOneInput, Intact

LEMMA StartKeeps ==
    ASSUME PackageInv, Serialised, NEW r \in Runs, Start(r)
    PROVE  SoleActive' /\ \A s \in Runs : OwnProgress(s)'
    <1>1. /\ \A s \in Runs : ~Active(s)
          /\ pc' = [pc EXCEPT ![r] = "project"]
          /\ \A s \in Runs \ {r} : req'[s] = req[s]
          /\ chash' = chash
        BY DEF Start, Goto, PackageInv, TypeOK
    <1>2. pc \in [Runs -> Working \cup {"idle", "done", "failed"}]
        BY DEF PackageInv, TypeOK
    <1>3. SoleActive'
        BY <1>1, <1>2 DEF SoleActive, Active
    <1>4. ASSUME NEW s \in Runs \ {r} PROVE OwnProgress(s)'
        <2>1. pc'[s] = pc[s] /\ pc[s] \notin Working
            BY <1>1, <1>2 DEF Active
        <2>2. pc'[s] \notin {"export", "hash"} \cup Stamped
            BY <2>1 DEF Working
        <2>3. pc[s] = "done" => chash[s] = CleanBuildHash(req[s])
            BY DEF PackageInv, OwnProgress
        <2>4. req'[s] = req[s] /\ chash'[s] = chash[s]
            BY <1>1
        <2>5. CleanBuildHash(req[s])' = CleanBuildHash(req[s])
            BY <2>4 DEF CleanBuildHash, GoldIndex, GoldAt, Bytes
        <2> QED BY <2>1, <2>2, <2>3, <2>4, <2>5 DEF OwnProgress, Stamped
    <1>5. OwnProgress(r)'
        <2>1. pc'[r] = "project"
            BY <1>1, <1>2
        <2> QED BY <2>1 DEF OwnProgress, Stamped
    <1> QED BY <1>3, <1>4, <1>5

\* A step of an active invocation: the others are covered, its own progress
\* is what each step has to show.
LEMMA StepKeeps ==
    ASSUME PackageInv, NEW r \in Runs, Active(r), NEW label, Goto(r, label),
           UNCHANGED req, \A s \in Runs \ {r} : chash'[s] = chash[s],
           OwnProgress(r)'
    PROVE  SoleActive' /\ \A s \in Runs : OwnProgress(s)'
    <1>1. pc \in [Runs -> Working \cup {"idle", "done", "failed"}]
        BY DEF PackageInv, TypeOK
    <1>2. \A s \in Runs \ {r} : pc'[s] = pc[s]
        BY <1>1 DEF Goto
    <1>3. SoleActive'
        BY <1>2, SoleStays
    <1>4. \A s \in Runs \ {r} : OwnProgress(s)'
        BY <1>2, OthersProgress
    <1> QED BY <1>3, <1>4

LEMMA ProjectOwn ==
    ASSUME PackageInv, NEW r \in Runs, Project(r)
    PROVE  OwnProgress(r)'
    <1>1. pc'[r] = "silver"
        BY DEF Project, Goto, PackageInv, TypeOK
    <1> QED BY <1>1 DEF OwnProgress, Stamped

LEMMA WriteSilverOwn ==
    ASSUME PackageInv, NEW r \in Runs, WriteSilver(r)
    PROVE  OwnProgress(r)'
    <1>1. /\ req[r] \in Requests /\ cursor[r] = <<1, 1>>
          /\ files' = [files EXCEPT ![Silver] = Bytes(Silver, req[r].input)]
          /\ files \in [Paths -> Contents \cup {Absent}]
          /\ pc'[r] = (IF req[r].formats = <<>> THEN "hash" ELSE "export")
          /\ UNCHANGED <<req, cursor>>
        BY DEF WriteSilver, Goto, PackageInv, TypeOK
    <1>2. files'[Silver] = Bytes(Silver, req[r].input)
        BY <1>1 DEF Paths
    <1>3. ASSUME NEW ix \in GoldIndex(req[r]), ix[1] = 0
          PROVE  files'[GoldAt(req[r], ix)] = Bytes(GoldAt(req[r], ix), req[r].input)
        BY <1>1, <1>2, <1>3, GoldIndexType
    <1>4. CASE req[r].formats = <<>>
        <2>1. \A ix \in GoldIndex(req[r]) : ix[1] = 0
            BY <1>1, <1>4, GoldIndexType
        <2>2. \A p \in GoldSet(req[r]) : files'[p] = Bytes(p, req[r].input)
            BY <1>3, <2>1 DEF GoldSet
        <2>3. pc'[r] = "hash" /\ req' = req
            BY <1>1, <1>4
        <2>4. GoldSet(req'[r]) = GoldSet(req[r])
            BY <2>3
        <2> QED BY <2>2, <2>3, <2>4 DEF OwnProgress, Stamped, Bytes
    <1>5. CASE req[r].formats # <<>>
        <2>1. \A ix \in GoldIndex(req[r]) : Before(ix, <<1, 1>>) => ix[1] = 0
            BY <1>1, GoldIndexType DEF Before
        <2>2. pc'[r] = "export" /\ req' = req /\ cursor'[r] = <<1, 1>>
            BY <1>1, <1>5
        <2>3. \A ix \in GoldIndex(req'[r]) : Before(ix, cursor'[r]) =>
                  files'[GoldAt(req'[r], ix)] = Bytes(GoldAt(req'[r], ix), req'[r].input)
            BY <1>3, <2>1, <2>2
        <2> QED BY <2>2, <2>3 DEF OwnProgress, Stamped, GoldIndex, GoldAt, Bytes
    <1> QED BY <1>4, <1>5

LEMMA ExportFileOwn ==
    ASSUME PackageInv, NEW r \in Runs, ExportFile(r)
    PROVE  OwnProgress(r)'
    <1> DEFINE q == req[r]
               p == NextGold(r)
    <1>1. /\ TypeOK /\ pc[r] = "export" /\ Advance(r) /\ req' = req
          /\ files' = [files EXCEPT ![p] = Bytes(p, q.input)]
          /\ files \in [Paths -> Contents \cup {Absent}]
        BY DEF ExportFile, PackageInv, TypeOK
    <1>2. q \in Requests /\ p \in Paths
        BY <1>1, NextGoldType DEF Paths
    <1>3. \A ix \in GoldIndex(q) : Before(ix, cursor[r]) =>
              files[GoldAt(q, ix)] = Bytes(GoldAt(q, ix), q.input)
        BY <1>1 DEF PackageInv, OwnProgress
    <1> HIDE DEF p
    <1>4. ASSUME NEW ix \in GoldIndex(q), pc'[r] = "export" => Before(ix, cursor'[r])
          PROVE  files'[GoldAt(q, ix)] = Bytes(GoldAt(q, ix), q.input)
        <2>1. Before(ix, cursor[r]) \/ GoldAt(q, ix) = p
            BY <1>1, <1>4, AdvanceCovers DEF p
        <2>2. GoldAt(q, ix) \in Paths
            BY <1>2, GoldType
        <2> QED BY <1>1, <1>2, <1>3, <2>1, <2>2
    <1>5. pc'[r] \in {"export", "hash"}
        <2>1. \E label \in {"export", "hash"} : pc' = [pc EXCEPT ![r] = label]
            BY <1>1, AdvanceType DEF Goto
        <2> QED BY <1>1, <2>1 DEF TypeOK
    <1>6. CASE pc'[r] = "export"
        <2>1. \A ix \in GoldIndex(req'[r]) : Before(ix, cursor'[r]) =>
                  files'[GoldAt(req'[r], ix)] = Bytes(GoldAt(req'[r], ix), req'[r].input)
            BY <1>1, <1>4
        <2> QED BY <1>6, <2>1 DEF OwnProgress, Stamped, GoldIndex, GoldAt, Bytes
    <1>7. CASE pc'[r] = "hash"
        <2>1. \A x \in GoldSet(req'[r]) : files'[x] = Bytes(x, req'[r].input)
            BY <1>1, <1>4, <1>7 DEF GoldSet
        <2> QED BY <1>7, <2>1 DEF OwnProgress, Stamped, GoldSet, GoldIndex, GoldAt, Bytes
    <1> QED BY <1>5, <1>6, <1>7

\* What a clean build would give depends on the request alone.
LEMMA CleanCopies ==
    ASSUME NEW r \in Runs, UNCHANGED req
    PROVE  /\ CleanHashes(req[r])' = CleanHashes(req[r])
           /\ CleanBuildHash(req[r])' = CleanBuildHash(req[r])
           /\ GoldSet(req[r])' = GoldSet(req[r])
           /\ \A p \in Paths : Bytes(p, req[r].input)' = Bytes(p, req[r].input)
    BY DEF CleanHashes, CleanBuildHash, GoldSet, GoldIndex, GoldAt, Bytes

\* From the hashing on, the files of the build are those of a clean one, and
\* no step of its own changes them.
LEMMA BuildStays ==
    ASSUME PackageInv, NEW r \in Runs, pc[r] \in {"hash"} \cup Stamped,
           UNCHANGED <<req, files>>
    PROVE  /\ req[r] \in Requests
           /\ \A p \in GoldSet(req[r]) : files[p] = Bytes(p, req[r].input)
           /\ \A p \in GoldSet(req[r])' :
                  files'[p] = Bytes(p, req[r].input)'
    <1>1. req[r] \in Requests
        BY DEF PackageInv, TypeOK, Stamped
    <1>2. \A p \in GoldSet(req[r]) : files[p] = Bytes(p, req[r].input)
        BY DEF PackageInv, OwnProgress
    <1>3. GoldSet(req[r]) \subseteq Paths
        BY <1>1, GoldType
    <1> QED BY <1>1, <1>2, <1>3, CleanCopies

LEMMA HashFilesOwn ==
    ASSUME PackageInv, NEW r \in Runs, HashFiles(r)
    PROVE  OwnProgress(r)'
    <1>1. /\ pc[r] = "hash" /\ pc'[r] = "sidecar" /\ UNCHANGED <<req, files>>
          /\ prov'[r].hashes = FileHashes(req[r])
        BY DEF HashFiles, Goto, PackageInv, TypeOK
    <1>2. \A p \in GoldSet(req[r]) : files[p] = Bytes(p, req[r].input)
        BY <1>1, BuildStays
    <1>3. FileHashes(req[r]) = CleanHashes(req[r])
        BY <1>2 DEF FileHashes, CleanHashes
    <1>4. prov'[r].hashes = CleanHashes(req[r])'
        BY <1>1, <1>3, CleanCopies
    <1>5. \A p \in GoldSet(req[r])' : files'[p] = Bytes(p, req[r].input)'
        BY <1>1, BuildStays
    <1> QED BY <1>1, <1>4, <1>5 DEF OwnProgress, Stamped

LEMMA WriteSidecarOwn ==
    ASSUME PackageInv, NEW r \in Runs, WriteSidecar(r)
    PROVE  OwnProgress(r)'
    <1>1. /\ pc[r] = "sidecar" /\ pc'[r] = "qa" /\ UNCHANGED <<req, files, prov>>
          /\ sidecar' = prov[r]
        BY DEF WriteSidecar, Goto, PackageInv, TypeOK
    <1>2. prov'[r].hashes = CleanHashes(req[r])'
        BY <1>1, CleanCopies DEF PackageInv, OwnProgress, Stamped
    <1>3. \A p \in GoldSet(req[r])' : files'[p] = Bytes(p, req[r].input)'
        BY <1>1, BuildStays DEF Stamped
    <1> QED BY <1>1, <1>2, <1>3 DEF OwnProgress, Stamped

LEMMA WriteQaOwn ==
    ASSUME PackageInv, NEW r \in Runs, WriteQa(r)
    PROVE  OwnProgress(r)'
    <1>1. /\ pc[r] = "qa" /\ pc'[r] = "chash"
          /\ UNCHANGED <<req, files, prov, sidecar>>
          /\ qa' = VerdictFor(r)
        BY DEF WriteQa, Goto, PackageInv, TypeOK
    <1>2. prov'[r].hashes = CleanHashes(req[r])' /\ sidecar' = prov'[r]
        BY <1>1, CleanCopies DEF PackageInv, OwnProgress, Stamped
    <1>3. \A p \in GoldSet(req[r])' : files'[p] = Bytes(p, req[r].input)'
        BY <1>1, BuildStays DEF Stamped
    <1>4. qa' = VerdictFor(r)'
        BY <1>1 DEF VerdictFor
    <1> QED BY <1>1, <1>2, <1>3, <1>4 DEF OwnProgress, Stamped

LEMMA HashContentOwn ==
    ASSUME PackageInv, NEW r \in Runs, HashContent(r)
    PROVE  OwnProgress(r)'
    <1>1. /\ pc[r] = "chash" /\ pc'[r] = "manifest"
          /\ UNCHANGED <<req, files, prov, sidecar, qa>>
          /\ chash'[r] = ContentHash(req[r])
        BY DEF HashContent, Goto, PackageInv, TypeOK, docs
    <1>2. /\ prov'[r].hashes = CleanHashes(req[r])'
          /\ sidecar' = prov'[r]
          /\ qa' = VerdictFor(r)
        BY <1>1, CleanCopies DEF PackageInv, OwnProgress, Stamped
    <1>3. \A p \in GoldSet(req[r])' : files'[p] = Bytes(p, req[r].input)'
        BY <1>1, BuildStays DEF Stamped
    <1>4. qa' = VerdictFor(r)'
        BY <1>1, <1>2 DEF VerdictFor
    <1>5. \A ix \in GoldIndex(req[r]) :
              files[GoldAt(req[r], ix)] = Bytes(GoldAt(req[r], ix), req[r].input)
        BY <1>1, BuildStays DEF GoldSet, Stamped
    <1>6. \A c : {ix \in GoldIndex(req[r]) : files[GoldAt(req[r], ix)] = c} =
                {ix \in GoldIndex(req[r]) :
                     Bytes(GoldAt(req[r], ix), req[r].input) = c}
        BY <1>5
    <1>7. ContentHash(req[r]) = CleanBuildHash(req[r])
        BY <1>6 DEF ContentHash, CleanBuildHash
    <1>8. chash'[r] = CleanBuildHash(req[r])'
        BY <1>1, <1>7, CleanCopies
    <1> QED BY <1>1, <1>2, <1>3, <1>4, <1>8 DEF OwnProgress, Stamped

\* What a run knows once its content hash is computed, carried over a step
\* that writes neither a file nor one of the documents below it.
LEMMA LateBuildStays ==
    ASSUME PackageInv, NEW r \in Runs, pc[r] \in {"manifest", "datacard", "append"},
           UNCHANGED <<req, files, prov, chash, sidecar, qa>>
    PROVE  /\ \A p \in GoldSet(req[r])' : files'[p] = Bytes(p, req[r].input)'
           /\ prov'[r].hashes = CleanHashes(req[r])'
           /\ sidecar' = prov'[r]
           /\ qa' = VerdictFor(r)'
           /\ chash'[r] = CleanBuildHash(req[r])'
           /\ ManifestOf(r)' = ManifestOf(r)
           /\ DatacardOf(r)' = DatacardOf(r)
    <1>1. \A p \in GoldSet(req[r])' : files'[p] = Bytes(p, req[r].input)'
        BY BuildStays DEF Stamped
    <1>2. /\ prov'[r].hashes = CleanHashes(req[r])'
          /\ sidecar' = prov'[r]
          /\ qa' = VerdictFor(r)
          /\ chash'[r] = CleanBuildHash(req[r])'
        BY CleanCopies DEF PackageInv, OwnProgress, Stamped
    <1>3. VerdictFor(r)' = VerdictFor(r)
        BY DEF VerdictFor
    <1>4. MerkleRoot(prov[r].hashes)' = MerkleRoot(prov[r].hashes)
        BY DEF MerkleRoot
    <1>5. ManifestOf(r)' = ManifestOf(r) /\ DatacardOf(r)' = DatacardOf(r)
        BY <1>3, <1>4 DEF ManifestOf, DatacardOf
    <1> QED BY <1>1, <1>2, <1>3, <1>5

LEMMA WriteManifestOwn ==
    ASSUME PackageInv, NEW r \in Runs, WriteManifest(r)
    PROVE  OwnProgress(r)'
    <1>1. /\ pc[r] = "manifest" /\ pc'[r] = "datacard"
          /\ UNCHANGED <<req, files, prov, chash, sidecar, qa>>
          /\ manifest' = ManifestOf(r)
        BY DEF WriteManifest, Goto, PackageInv, TypeOK
    <1> QED BY <1>1, LateBuildStays DEF OwnProgress, Stamped

LEMMA WriteDatacardOwn ==
    ASSUME PackageInv, NEW r \in Runs, WriteDatacard(r)
    PROVE  OwnProgress(r)'
    <1>1. /\ pc[r] = "datacard" /\ pc'[r] = "append"
          /\ UNCHANGED <<req, files, prov, chash, sidecar, qa, manifest>>
          /\ datacard' = DatacardOf(r)
        BY DEF WriteDatacard, Goto, PackageInv, TypeOK
    <1>2. manifest = ManifestOf(r)
        BY <1>1 DEF PackageInv, OwnProgress
    <1> QED BY <1>1, <1>2, LateBuildStays DEF OwnProgress, Stamped

LEMMA AppendRecordOwn ==
    ASSUME PackageInv, NEW r \in Runs, AppendRecord(r) \/ Return(r)
    PROVE  OwnProgress(r)'
    <1>1. /\ pc[r] = "append" /\ pc'[r] \in {"append", "done"}
          /\ UNCHANGED <<req, files, prov, chash, sidecar, qa, manifest, datacard>>
        BY DEF AppendRecord, Return, Goto, PackageInv, TypeOK, docs
    <1>2. manifest = ManifestOf(r) /\ datacard = DatacardOf(r)
        BY <1>1 DEF PackageInv, OwnProgress
    <1> QED BY <1>1, <1>2, LateBuildStays DEF OwnProgress, Stamped

LEMMA FailureOwn ==
    ASSUME PackageInv, NEW r \in Runs, Raise(r) \/ WriteFails(r)
    PROVE  OwnProgress(r)'
    <1>1. pc'[r] = "failed"
        BY DEF Raise, WriteFails, Goto, PackageInv, TypeOK
    <1> QED BY <1>1 DEF OwnProgress, Stamped

----------------------------------------------------------------------------
(* The documents on disk speak of one input each.                          *)

LEMMA WriteSidecarKeepsDocs ==
    ASSUME PackageInv, NEW r \in Runs, WriteSidecar(r)
    PROVE  SidecarOfOneInput' /\ ManifestOfOneInput'
    <1> DEFINE i == req[r].input
    <1>1. /\ pc[r] = "sidecar" /\ sidecar' = prov[r] /\ manifest' = manifest
          /\ req[r] \in Requests
        BY DEF WriteSidecar, PackageInv, TypeOK
    <1>2. i \in Inputs /\ Silver \in GoldSet(req[r])
        BY <1>1, GoldType
    <1>3. prov[r].hashes = CleanHashes(req[r])
        BY <1>1 DEF PackageInv, OwnProgress, Stamped
    <1>4. /\ \A p \in Paths : prov[r].hashes[p] \in {Absent, Bytes(p, i)}
          /\ prov[r].hashes[Silver] = Bytes(Silver, i)
        BY <1>2, <1>3 DEF CleanHashes, Paths
    <1>5. SidecarOfOneInput'
        BY <1>1, <1>2, <1>4 DEF SidecarOfOneInput, Bytes
    <1>6. ManifestOfOneInput'
        BY <1>1 DEF PackageInv, ManifestOfOneInput, Intact
    <1> QED BY <1>5, <1>6

LEMMA WriteManifestKeepsDocs ==
    ASSUME PackageInv, NEW r \in Runs, WriteManifest(r)
    PROVE  SidecarOfOneInput' /\ ManifestOfOneInput'
    <1> DEFINE i == req[r].input
    <1>1. /\ pc[r] = "manifest" /\ manifest' = ManifestOf(r) /\ sidecar' = sidecar
          /\ req[r] \in Requests
        BY DEF WriteManifest, PackageInv, TypeOK
    <1>2. i \in Inputs
        BY <1>1, GoldType
    <1>3. prov[r].hashes = CleanHashes(req[r])
        BY <1>1 DEF PackageInv, OwnProgress, Stamped
    <1>4. \A c \in MerkleRoot(prov[r].hashes) : c.data = DataOf[i]
        BY <1>2, <1>3, BytesType DEF MerkleRoot, CleanHashes
    <1>5. /\ manifest'.root = MerkleRoot(prov[r].hashes)
          /\ manifest'.verdict = VerdictOf[<<i, manifest'.signed>>]
        BY <1>1 DEF ManifestOf, VerdictFor
    <1>6. ManifestOfOneInput'
        BY <1>2, <1>4, <1>5 DEF ManifestOfOneInput
    <1>7. SidecarOfOneInput'
        BY <1>1 DEF PackageInv, SidecarOfOneInput, Intact, Bytes
    <1> QED BY <1>6, <1>7

LEMMA WriteFailsKeepsDocs ==
    ASSUME PackageInv, NEW r \in Runs, WriteFails(r)
    PROVE  SidecarOfOneInput' /\ ManifestOfOneInput'
    <1>1. sidecar' \in {sidecar, Torn} /\ manifest' \in {manifest, Torn}
        BY DEF WriteFails, SpoilFile, SpoilDoc, docs
    <1>2. SidecarOfOneInput'
        BY <1>1 DEF PackageInv, SidecarOfOneInput, Intact, Bytes
    <1>3. ManifestOfOneInput'
        BY <1>1 DEF PackageInv, ManifestOfOneInput, Intact
    <1> QED BY <1>2, <1>3

----------------------------------------------------------------------------
LEMMA NextPackageInv ==
    ASSUME Serialised, PackageInv, [Next]_vars
    PROVE  PackageInv'
    <1>1. TypeOK'
        BY NextTypeOK DEF PackageInv
    <1> SUFFICES /\ SoleActive' /\ \A s \in Runs : OwnProgress(s)'
                 /\ SidecarOfOneInput' /\ ManifestOfOneInput'
        BY <1>1 DEF PackageInv
    <1> USE DEF docs
    <1>2. ASSUME NEW r \in Runs, Start(r)
          PROVE  /\ SoleActive' /\ \A s \in Runs : OwnProgress(s)'
                 /\ SidecarOfOneInput' /\ ManifestOfOneInput'
        <2>1. UNCHANGED <<sidecar, manifest>>
            BY <1>2 DEF Start
        <2> QED BY <1>2, <2>1, StartKeeps, DocumentsUntouched
    <1>3. ASSUME NEW r \in Runs, Step(r) \/ Raise(r) \/ WriteFails(r)
          PROVE  /\ SoleActive' /\ \A s \in Runs : OwnProgress(s)'
                 /\ SidecarOfOneInput' /\ ManifestOfOneInput'
        <2>1. Active(r) /\ UNCHANGED req
            BY <1>3 DEF Step, Raise, WriteFails, Project, WriteSilver, ExportFile,
                        HashFiles, WriteSidecar, WriteQa, HashContent,
                        WriteManifest, WriteDatacard, AppendRecord, Return,
                        Active, Working, Stamped
        <2>2. \A s \in Runs \ {r} : chash'[s] = chash[s]
            <3>1. chash' = chash \/ chash' = [chash EXCEPT ![r] = ContentHash(req[r])]
                BY <1>3 DEF Step, Raise, WriteFails, Project, WriteSilver, ExportFile,
                            HashFiles, WriteSidecar, WriteQa, HashContent,
                            WriteManifest, WriteDatacard, AppendRecord, Return
            <3>2. chash \in [Runs -> [Contents -> Nat] \cup {NoDoc}]
                BY DEF PackageInv, TypeOK
            <3> QED BY <3>1, <3>2
        <2>3. \E label : Goto(r, label)
            <3>1. CASE ExportFile(r)
                <4>1. TypeOK /\ pc[r] = "export" /\ Advance(r)
                    BY <3>1 DEF ExportFile, PackageInv
                <4> QED BY <2>1, <4>1, AdvanceType
            <3>2. CASE WriteSilver(r)
                BY <3>2 DEF WriteSilver
            <3>3. CASE Step(r) /\ ~ExportFile(r) /\ ~WriteSilver(r)
                BY <3>3 DEF Step, Project, HashFiles, WriteSidecar, WriteQa,
                            HashContent, WriteManifest, WriteDatacard, AppendRecord, Return
            <3>4. CASE Raise(r) \/ WriteFails(r)
                BY <3>4 DEF Raise, WriteFails
            <3> QED BY <1>3, <3>1, <3>2, <3>3, <3>4
        <2>4. OwnProgress(r)'
            BY <1>3, ProjectOwn, WriteSilverOwn, ExportFileOwn, HashFilesOwn,
               WriteSidecarOwn, WriteQaOwn, HashContentOwn, WriteManifestOwn,
               WriteDatacardOwn, AppendRecordOwn, FailureOwn DEF Step
        <2>5. SoleActive' /\ \A s \in Runs : OwnProgress(s)'
            BY <2>1, <2>2, <2>3, <2>4, StepKeeps
        <2>6. \/ UNCHANGED <<sidecar, manifest>>
              \/ WriteSidecar(r) \/ WriteManifest(r) \/ WriteFails(r)
            BY <1>3 DEF Step, Raise, Project, WriteSilver, ExportFile, HashFiles,
                        WriteQa, HashContent, WriteDatacard, AppendRecord, Return
        <2>7. SidecarOfOneInput' /\ ManifestOfOneInput'
            BY <2>6, DocumentsUntouched, WriteSidecarKeepsDocs,
               WriteManifestKeepsDocs, WriteFailsKeepsDocs
        <2> QED BY <2>5, <2>7
    <1>4. ASSUME UNCHANGED vars
          PROVE  /\ SoleActive' /\ \A s \in Runs : OwnProgress(s)'
                 /\ SidecarOfOneInput' /\ ManifestOfOneInput'
        <2>1. /\ UNCHANGED <<pc, req, cursor, prov, chash, files>>
              /\ UNCHANGED <<sidecar, qa, manifest, datacard>>
            BY <1>4 DEF vars, run
        <2>2. SoleActive'
            BY <2>1 DEF PackageInv, SoleActive, Active
        <2>3. ASSUME NEW s \in Runs PROVE OwnProgress(s)'
            <3>1. OwnProgress(s)
                BY DEF PackageInv
            <3>2. /\ CleanHashes(req[s])' = CleanHashes(req[s])
                  /\ CleanBuildHash(req[s])' = CleanBuildHash(req[s])
                  /\ GoldSet(req[s])' = GoldSet(req[s])
                  /\ \A p : Bytes(p, req[s].input)' = Bytes(p, req[s].input)
                  /\ GoldIndex(req[s])' = GoldIndex(req[s])
                  /\ \A ix : GoldAt(req[s], ix)' = GoldAt(req[s], ix)
                  /\ \A ix : Before(ix, cursor[s])' = Before(ix, cursor[s])
                BY <2>1, CleanCopies DEF Bytes, GoldIndex, GoldAt, Before
            <3>3. VerdictFor(s)' = VerdictFor(s)
                BY <2>1 DEF VerdictFor
            <3>4. MerkleRoot(prov[s].hashes)' = MerkleRoot(prov[s].hashes)
                BY <2>1 DEF MerkleRoot
            <3>5. ManifestOf(s)' = ManifestOf(s) /\ DatacardOf(s)' = DatacardOf(s)
                BY <2>1, <3>3, <3>4 DEF ManifestOf, DatacardOf
            <3> QED BY <2>1, <3>1, <3>2, <3>3, <3>5 DEF OwnProgress, Stamped
        <2> QED BY <2>1, <2>2, <2>3, DocumentsUntouched
    <1> QED BY <1>2, <1>3, <1>4 DEF Next

\* When invocations do not overlap, what the sole one has written stays, and
\* every sidecar and manifest on disk speaks of one input.
THEOREM PackageInvariant == ASSUME Serialised PROVE Spec => []PackageInv
    <1>1. PackageInv /\ [Next]_vars => PackageInv'
        BY NextPackageInv
    <1> QED BY <1>1, InitPackageInv, PTL DEF Spec

----------------------------------------------------------------------------
LEMMA SidecarType ==
    ASSUME TypeOK, Verified
    PROVE  sidecar \in Sidecars
    BY DEF TypeOK, Verified, Intact

\* Silver's digest ties the sidecar's input to the manifest's: both built the
\* same table, so the manifest's input accounts for every file.
LEMMA InvIsCoherent == PackageInv => VerifiedPackageIsCoherent
    <1> SUFFICES ASSUME PackageInv, Verified
                 PROVE  \E i \in Inputs : MadeFrom(i)
        BY DEF VerifiedPackageIsCoherent
    <1>1. PICK i \in Inputs :
              /\ \A p \in Paths : sidecar.hashes[p] \in {Absent, Bytes(p, i)}
              /\ sidecar.hashes[Silver] = Bytes(Silver, i)
        BY DEF PackageInv, SidecarOfOneInput, Verified
    <1>2. PICK j \in Inputs :
              /\ \A c \in manifest.root : c.data = DataOf[j]
              /\ manifest.verdict = VerdictOf[<<j, manifest.signed>>]
        BY DEF PackageInv, ManifestOfOneInput, Verified
    <1>3. Silver \in Paths
        BY DEF Paths
    <1>4. Bytes(Silver, i) # Absent /\ Bytes(Silver, i).data = DataOf[i]
        BY <1>3, BytesType
    <1>5. Bytes(Silver, i) \in manifest.root
        BY <1>1, <1>3, <1>4 DEF Verified, MerkleRoot
    <1>6. DataOf[i] = DataOf[j]
        BY <1>2, <1>4, <1>5
    <1>7. \A p : Bytes(p, i) = Bytes(p, j)
        BY <1>6 DEF Bytes
    <1>8. files[Silver] = Bytes(Silver, i)
        BY <1>1, <1>3, <1>4 DEF Verified
    <1>9. MadeFrom(j)
        BY <1>1, <1>2, <1>7, <1>8 DEF MadeFrom
    <1> QED BY <1>9

\* Serialised invocations never leave a verifying mixture of two inputs.
THEOREM Coherence ==
    ASSUME Serialised PROVE Spec => []VerifiedPackageIsCoherent
    BY PackageInvariant, InvIsCoherent, PTL

LEMMA InvIsOwn == PackageInv => CompletedPackageIsOwn
    <1> SUFFICES ASSUME PackageInv, NEW r \in Runs, pc[r] = "append"
                 PROVE  /\ Verified
                        /\ MadeFrom(req[r].input)
                        /\ \A p \in GoldSet(req[r]) : sidecar.hashes[p] = files[p]
                        /\ manifest.formats = req[r].formats
                        /\ datacard = [root |-> manifest.root,
                                       signed |-> manifest.signed,
                                       verdict |-> qa,
                                       formats |-> manifest.formats]
        BY DEF CompletedPackageIsOwn
    <1> DEFINE i == req[r].input
    <1>1. /\ \A p \in GoldSet(req[r]) : files[p] = Bytes(p, i)
          /\ prov[r].hashes = CleanHashes(req[r])
          /\ sidecar = prov[r]
          /\ qa = VerdictFor(r)
          /\ manifest = ManifestOf(r)
          /\ datacard = DatacardOf(r)
        BY DEF PackageInv, OwnProgress, Stamped
    <1>2. /\ prov[r] \in Sidecars /\ VerdictFor(r) \in Verdicts
          /\ req[r] \in Requests
        BY VerdictForType DEF PackageInv, Stamped
    <1>3. /\ manifest \in Manifests \cup {NoDoc, Torn}
          /\ manifest.root = MerkleRoot(sidecar.hashes)
          /\ manifest.signed = sidecar.signed
          /\ manifest.verdict = qa
          /\ manifest.formats = req[r].formats
        BY <1>1 DEF ManifestOf, PackageInv, TypeOK
    <1>4. manifest \in Manifests
        <2>1. /\ MerkleRoot(prov[r].hashes) \in Roots
              /\ prov[r].signed \in BOOLEAN
            BY <1>2, VerdictForType DEF PackageInv, Stamped, Sidecars
        <2>2. chash[r] \in [Contents -> Nat] /\ req[r].formats \in Seq(Formats)
            BY <1>2, GoldType DEF PackageInv, TypeOK
        <2> QED BY <1>1, <1>2, <2>1, <2>2 DEF ManifestOf, Manifests
    <1>5. Intact(sidecar) /\ Intact(qa) /\ Intact(manifest)
        BY <1>1, <1>2, <1>4, PipelineAssumption DEF Intact
    <1>6. GoldSet(req[r]) \subseteq Paths /\ Silver \in GoldSet(req[r]) /\ i \in Inputs
        BY <1>2, GoldType
    <1>7. \A p \in Paths : sidecar.hashes[p] =
              IF p \in GoldSet(req[r]) THEN Bytes(p, i) ELSE Absent
        BY <1>1 DEF CleanHashes
    <1>8. Verified
        BY <1>1, <1>3, <1>5, <1>7 DEF Verified
    <1>9. MadeFrom(i)
        <2>1. manifest.verdict = VerdictOf[<<i, manifest.signed>>]
            BY <1>1 DEF ManifestOf, VerdictFor
        <2>2. \A p \in Paths : sidecar.hashes[p] \in {Absent, Bytes(p, i)}
            BY <1>7
        <2> QED BY <1>1, <1>6, <2>1, <2>2 DEF MadeFrom
    <1>10. \A p \in GoldSet(req[r]) : sidecar.hashes[p] = files[p]
        BY <1>1, <1>6, <1>7
    <1>11. datacard = [root |-> manifest.root, signed |-> manifest.signed,
                       verdict |-> qa, formats |-> manifest.formats]
        BY <1>1 DEF ManifestOf, DatacardOf
    <1> QED BY <1>3, <1>8, <1>9, <1>10, <1>11

\* A serialised run about to return leaves a verifying package of its own
\* request, whatever it found on disk.
THEOREM Ownership ==
    ASSUME Serialised PROVE Spec => []CompletedPackageIsOwn
    BY PackageInvariant, InvIsOwn, PTL

LEMMA InvIsReproducible == PackageInv => RebuildIsReproducible
    BY DEF PackageInv, OwnProgress, RebuildIsReproducible

\* A serialised run's content hash is a function of its request.
THEOREM Reproducibility ==
    ASSUME Serialised PROVE Spec => []RebuildIsReproducible
    BY PackageInvariant, InvIsReproducible, PTL

----------------------------------------------------------------------------
(* The directory implements Publication.                                   *)

\* No step rewrites the sidecar and a file, or the manifest and what it is
\* compared with.
LEMMA OneWriteAtATime ==
    ASSUME [Next]_vars
    PROVE  /\ sidecar' = sidecar \/ files' = files
           /\ manifest' = manifest \/ (qa' = qa /\ sidecar' = sidecar)
    BY DEF Next, Step, Start, Project, WriteSilver, ExportFile, HashFiles,
           WriteSidecar, WriteQa, HashContent, WriteManifest, WriteDatacard,
           AppendRecord, Return, Raise, WriteFails, SpoilFile, SpoilDoc, vars, run, docs

\* A package that verifies before and after a step promises the same.
LEMMA VerifiedOutcomeStays ==
    ASSUME PackageInv, Verified, Verified', [Next]_vars
    PROVE  View' = View
    <1>1. PICK i \in Inputs : sidecar.hashes[Silver] = Bytes(Silver, i)
        BY DEF PackageInv, SidecarOfOneInput, Verified
    <1>2. Silver \in Paths /\ Bytes(Silver, i) # Absent
        BY BytesType DEF Paths
    <1>3. files'[Silver] = files[Silver]
        <2>1. CASE files' = files
            BY <2>1
        <2>2. CASE sidecar' = sidecar
            <3>1. files[Silver] = sidecar.hashes[Silver]
                BY <1>1, <1>2 DEF Verified
            <3>2. files'[Silver] = sidecar.hashes[Silver]
                BY <1>1, <1>2, <2>2 DEF Verified
            <3> QED BY <3>1, <3>2
        <2> QED BY <2>1, <2>2, OneWriteAtATime
    <1>4. manifest'.verdict = manifest.verdict /\ manifest'.signed = manifest.signed
        <2>1. CASE manifest' = manifest
            BY <2>1
        <2>2. CASE qa' = qa /\ sidecar' = sidecar
            BY <2>2 DEF Verified
        <2> QED BY <2>1, <2>2, OneWriteAtATime
    <1> QED BY <1>3, <1>4 DEF View

\* What a verifying package promises is legitimate, and is something.
LEMMA VerifiedOutcomeType ==
    PackageInv /\ Verified => View \in LegitimateOutcomes /\ View # NoDoc
    <1> SUFFICES ASSUME PackageInv, Verified
                 PROVE  View \in LegitimateOutcomes /\ View # NoDoc
        OBVIOUS
    <1>1. PICK i \in Inputs : MadeFrom(i)
        BY InvIsCoherent DEF VerifiedPackageIsCoherent
    <1>2. manifest \in Manifests
        BY DEF PackageInv, TypeOK, Verified, Intact
    <1>3. manifest.signed \in BOOLEAN /\ manifest.verdict \in Verdicts
        BY <1>2 DEF Manifests
    <1>4. View = [silver |-> Bytes(Silver, i),
                  verdict |-> VerdictOf[<<i, manifest.signed>>],
                  signed |-> manifest.signed]
        BY <1>1 DEF View, MadeFrom
    <1>5. View \in LegitimateOutcomes
        BY <1>3, <1>4 DEF LegitimateOutcomes
    <1>6. View \in Outcomes
        <2>1. Bytes(Silver, i) \in Contents
            BY BytesType DEF Paths
        <2>2. VerdictOf[<<i, manifest.signed>>] \in Verdicts
            BY <1>1, <1>3 DEF MadeFrom
        <2> QED BY <1>3, <1>4, <2>1, <2>2 DEF Outcomes
    <1> QED BY <1>5, <1>6, PipelineAssumption

\* The directory of a serialised pipeline implements Publication: a verified
\* outcome is legitimate, and is withdrawn before another takes its place.
THEOREM Implements == ASSUME Serialised PROVE Spec => PublicationPromise
    <1>1. Init => Promise!Init
        BY DEF Init, Promise!Init, View, Verified, Intact
    <1>2. PackageInv /\ PackageInv' /\ [Next]_vars
            => [Promise!Publish \/ Promise!Withdraw]_View
        <2> SUFFICES ASSUME PackageInv, PackageInv', [Next]_vars, View' # View
                     PROVE  Promise!Publish \/ Promise!Withdraw
            OBVIOUS
        <2>1. CASE Verified
            <3>1. ~Verified'
                BY <2>1, VerifiedOutcomeStays
            <3>2. View # NoDoc /\ View' = NoDoc
                BY <2>1, <3>1, VerifiedOutcomeType DEF View
            <3> QED BY <3>2 DEF Promise!Withdraw
        <2>2. CASE ~Verified
            <3>1. View = NoDoc
                BY <2>2 DEF View
            <3>2. Verified'
                BY <2>2, <3>1 DEF View
            <3>3. (View \in LegitimateOutcomes)'
                BY <3>2, VerifiedOutcomeType, PTL
            <3>4. LegitimateOutcomes' = LegitimateOutcomes
                BY DEF LegitimateOutcomes, Bytes
            <3> QED BY <3>1, <3>3, <3>4 DEF Promise!Publish
        <2> QED BY <2>1, <2>2
    <1> QED BY <1>1, <1>2, PackageInvariant, PTL DEF Spec, PublicationPromise, Promise!Spec
====
