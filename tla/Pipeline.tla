---- MODULE Pipeline ----
(***************************************************************************)
(* Pipeline.run (pipeline.py) over one dataset version directory.          *)
(*                                                                         *)
(* Each invocation walks resolve -> project -> write Silver -> export Gold *)
(* -> hash and sign -> gate -> content hash -> manifest -> data card ->    *)
(* ExportRecords, one step per effect on the directory, in the order of    *)
(* the code. Nothing is ever deleted or renamed, no lock is taken, every   *)
(* file is written in place: an invocation that raises or dies leaves what *)
(* it has written so far, beside what earlier invocations left.            *)
(*                                                                         *)
(* Bytes are symbolic: what a file holds is its kind of content and the    *)
(* data it was made from, and a SHA-256 digest is the content itself (no   *)
(* collisions).                                                            *)
(***************************************************************************)
EXTENDS Integers, Sequences, FiniteSets

CONSTANTS
    Runs,        \* invocations of Pipeline.run on this dataset version
    Inputs,      \* SyncResult, Session and payloads of a request
    WithSession, \* those that come with a Session object
    Data,        \* canonical tables (with the identity the exporters embed)
    DataOf,      \* the table project() builds from an input
    Formats,     \* export formats, with their options
    FilesOf,     \* the files a format's exporter writes, in order
    Silver,      \* silver/aligned/part-000.parquet
    GoldPaths,   \* the files under format=<fmt>/
    KindOf,      \* what a path holds; equal kinds hold equal bytes
    Requests,    \* the MaterializationRequests made
    Verdicts,    \* release verdicts
    VerdictOf,   \* release_gate's verdict, by input and lineage_signed
    Serialised,  \* TRUE: the caller runs one invocation at a time
    Absent,      \* no such file
    NoDoc,       \* no such JSON document or data card
    Torn         \* truncated by a write that did not finish

Paths == {Silver} \cup GoldPaths

Kinds == {KindOf[p] : p \in Paths}

Contents == [kind : Kinds, data : Data \cup {Torn}]

\* A digest for each path, Absent for a path that is not listed.
Hashes == [Paths -> Contents \cup {Absent}]

\* provenance.sidecar.json, manifest.json and DATACARD.md; qa_report.json is
\* its verdict.
Sidecars == [hashes : Hashes, signed : BOOLEAN]
Roots == SUBSET Contents
Manifests == [root : Roots, signed : BOOLEAN, verdict : Verdicts,
              chash : [Contents -> Nat], formats : Seq(Formats)]
Datacards == [root : Roots, signed : BOOLEAN, verdict : Verdicts,
              formats : Seq(Formats)]

\* What a consumer takes from a package that verifies.
Outcomes == [silver : Contents, verdict : Verdicts, signed : BOOLEAN]

\* Silver is parquet's own kind: write_silver and the parquet exporter both
\* write build_arrow(table).
ASSUME PipelineAssumption ==
    /\ Silver \notin GoldPaths
    /\ WithSession \subseteq Inputs
    /\ DataOf \in [Inputs -> Data]
    /\ FilesOf \in [Formats -> Seq(GoldPaths) \ {<<>>}]
    /\ KindOf \in [Paths -> Kinds]
    /\ Requests \subseteq [input : Inputs, formats : Seq(Formats)]
    /\ VerdictOf \in [Inputs \X BOOLEAN -> Verdicts]
    /\ Serialised \in BOOLEAN
    /\ Torn \notin Data
    /\ Absent \notin Contents
    /\ NoDoc # Torn
    /\ \A x \in {NoDoc, Torn} :
           /\ x \notin Sidecars
           /\ x \notin Verdicts
           /\ x \notin Manifests
           /\ x \notin Datacards
           /\ x \notin Outcomes
           /\ x \notin [Contents -> Nat]

VARIABLES
    pc,        \* where each invocation is
    req,       \* the request it serves
    cursor,    \* the Gold file it writes next: format index, file index;
               \* at "append" the format it records next
    prov,      \* the ProvenanceResult it holds
    chash,     \* the content hash it computed
    files,     \* the Silver and Gold files on disk
    sidecar, qa, manifest, datacard,   \* the documents on disk
    records    \* session.exports

run == <<pc, req, cursor, prov, chash>>
docs == <<sidecar, qa, manifest, datacard>>
vars == <<run, files, docs, records>>

----------------------------------------------------------------------------
(* What an invocation computes in memory.                                  *)

\* The bytes written to path p for input i.
Bytes(p, i) == [kind |-> KindOf[p], data |-> DataOf[i]]

\* The entries of gold_files for request q: Silver, then every file of every
\* format; a format asked for twice is listed twice.
GoldIndex(q) ==
    {<<0, 1>>} \cup UNION {{f} \X DOMAIN FilesOf[q.formats[f]]
                             : f \in DOMAIN q.formats}

GoldAt(q, ix) == IF ix[1] = 0 THEN Silver ELSE FilesOf[q.formats[ix[1]]][ix[2]]

GoldSet(q) == {GoldAt(q, ix) : ix \in GoldIndex(q)}

\* Seeded fault: gold_files starts empty, so Silver is hashed by nobody.
FileHashesWithoutSilver(q) ==
    [p \in Paths |-> IF p \in GoldSet(q) \ {Silver} THEN files[p] ELSE Absent]

\* file_hashes of stamp_provenance: a digest of every listed path that is a
\* file, read back from disk. Absent: the path has no entry.
FileHashes(q) == [p \in Paths |-> IF p \in GoldSet(q) THEN files[p] ELSE Absent]

\* The Merkle root of the digests. Two roots are taken to be equal when they
\* are over the same set of digests, which is coarser than the tree.
MerkleRoot(hashes) == {hashes[p] : p \in Paths} \ {Absent}

\* Seeded fault: the content hash covers whatever the directory holds.
ContentHashOfDirectory(q) ==
    [c \in Contents |-> Cardinality({p \in Paths : files[p] = c})]

\* content_hash: the sorted digests of the list, with repetitions.
ContentHash(q) ==
    [c \in Contents |->
        Cardinality({ix \in GoldIndex(q) : files[GoldAt(q, ix)] = c})]

Intact(doc) == doc \notin {NoDoc, Torn}

VerdictFor(r) == VerdictOf[<<req[r].input, prov[r].signed>>]

ManifestOf(r) ==
    [root |-> MerkleRoot(prov[r].hashes), signed |-> prov[r].signed,
     verdict |-> VerdictFor(r), chash |-> chash[r], formats |-> req[r].formats]

DatacardOf(r) ==
    [root |-> MerkleRoot(prov[r].hashes), signed |-> prov[r].signed,
     verdict |-> VerdictFor(r), formats |-> req[r].formats]

\* The formats append_export_record gets to record: all that were produced,
\* none without a Session.
Announced(r) ==
    IF req[r].input \in WithSession THEN req[r].formats ELSE <<>>

----------------------------------------------------------------------------
\* After stamp_provenance has hashed, and the whole of run.
Stamped == {"sidecar", "qa", "chash", "manifest", "datacard", "append"}
Working == {"project", "silver", "export", "hash"} \cup Stamped

Active(r) == pc[r] \in Working

Init ==
    /\ pc = [r \in Runs |-> "idle"]
    /\ req = [r \in Runs |-> NoDoc]
    /\ cursor = [r \in Runs |-> <<1, 1>>]
    /\ prov = [r \in Runs |-> NoDoc]
    /\ chash = [r \in Runs |-> NoDoc]
    /\ files = [p \in Paths |-> Absent]
    /\ sidecar = NoDoc /\ qa = NoDoc /\ manifest = NoDoc /\ datacard = NoDoc
    /\ records = <<>>

Goto(r, label) == pc' = [pc EXCEPT ![r] = label]

\* authorize() lets every request through.
Start(r) ==
    /\ pc[r] = "idle"
    /\ Serialised => \A s \in Runs : ~Active(s)
    /\ \E q \in Requests : req' = [req EXCEPT ![r] = q]
    /\ Goto(r, "project")
    /\ UNCHANGED <<cursor, prov, chash, files, docs, records>>

\* Descriptors, payload sources, project() and source hashes: memory only.
Project(r) ==
    /\ pc[r] = "project"
    /\ Goto(r, "silver")
    /\ UNCHANGED <<req, cursor, prov, chash, files, docs, records>>

\* layout.ensure() and write_silver.
WriteSilver(r) ==
    /\ pc[r] = "silver"
    /\ files' = [files EXCEPT ![Silver] = Bytes(Silver, req[r].input)]
    /\ Goto(r, IF req[r].formats = <<>> THEN "hash" ELSE "export")
    /\ UNCHANGED <<req, cursor, prov, chash, docs, records>>

GoldFiles(r) == FilesOf[req[r].formats[cursor[r][1]]]

NextGold(r) == GoldFiles(r)[cursor[r][2]]

\* Seeded fault: one file too many of each format.
AdvanceOffByOne(r) ==
    LET f == cursor[r][1]
        k == cursor[r][2]
    IN  \/ /\ k <= Len(GoldFiles(r))
           /\ cursor' = [cursor EXCEPT ![r] = <<f, k + 1>>]
           /\ Goto(r, "export")
        \/ /\ k > Len(GoldFiles(r)) /\ f = Len(req[r].formats)
           /\ cursor' = cursor
           /\ Goto(r, "hash")

\* Seeded fault: the next format is the one just exported.
AdvanceSameFormat(r) ==
    LET f == cursor[r][1]
        k == cursor[r][2]
    IN  \/ /\ k < Len(GoldFiles(r))
           /\ cursor' = [cursor EXCEPT ![r] = <<f, k + 1>>]
           /\ Goto(r, "export")
        \/ /\ k = Len(GoldFiles(r)) /\ f < Len(req[r].formats)
           /\ cursor' = [cursor EXCEPT ![r] = <<f, 1>>]
           /\ Goto(r, "export")
        \/ /\ k = Len(GoldFiles(r)) /\ f = Len(req[r].formats)
           /\ cursor' = cursor
           /\ Goto(r, "hash")

\* The cursor after the file it points at: the next file of the format, the
\* next format of the request, or the end of the export loop.
Advance(r) ==
    LET f == cursor[r][1]
        k == cursor[r][2]
    IN  \/ /\ k < Len(GoldFiles(r))
           /\ cursor' = [cursor EXCEPT ![r] = <<f, k + 1>>]
           /\ Goto(r, "export")
        \/ /\ k = Len(GoldFiles(r)) /\ f < Len(req[r].formats)
           /\ cursor' = [cursor EXCEPT ![r] = <<f + 1, 1>>]
           /\ Goto(r, "export")
        \/ /\ k = Len(GoldFiles(r)) /\ f = Len(req[r].formats)
           /\ cursor' = cursor
           /\ Goto(r, "hash")

\* Seeded fault: an exporter keeps a file that is already there.
ExportMissingFile(r) ==
    /\ pc[r] = "export"
    /\ files' = IF files[NextGold(r)] # Absent THEN files ELSE
                [files EXCEPT ![NextGold(r)] = Bytes(NextGold(r), req[r].input)]
    /\ Advance(r)
    /\ UNCHANGED <<req, prov, chash, docs, records>>

\* Seeded fault: the records are appended as the formats are produced.
ExportAndRecord(r) ==
    /\ pc[r] = "export"
    /\ files' = [files EXCEPT ![NextGold(r)] = Bytes(NextGold(r), req[r].input)]
    /\ records' = IF cursor[r][2] = 1 THEN Append(records,
                     [run |-> r, format |-> req[r].formats[cursor[r][1]]])
                  ELSE records
    /\ Advance(r)
    /\ UNCHANGED <<req, prov, chash, docs>>

\* One file of an exporter's export().
ExportFile(r) ==
    /\ pc[r] = "export"
    /\ files' = [files EXCEPT ![NextGold(r)] = Bytes(NextGold(r), req[r].input)]
    /\ Advance(r)
    /\ UNCHANGED <<req, prov, chash, docs, records>>

\* stamp_provenance up to its write: digests, root, and a signature that is
\* an Ed25519 one or the HMAC fallback.
HashFiles(r) ==
    /\ pc[r] = "hash"
    /\ \E signed \in BOOLEAN :
           prov' = [prov EXCEPT ![r] = [hashes |-> FileHashes(req[r]),
                                        signed |-> signed]]
    /\ Goto(r, "sidecar")
    /\ UNCHANGED <<req, cursor, chash, files, docs, records>>

\* Seeded fault: the QA report is left to the end.
WriteSidecarSkipQa(r) ==
    /\ pc[r] = "sidecar"
    /\ sidecar' = prov[r]
    /\ Goto(r, "chash")
    /\ UNCHANGED <<req, cursor, prov, chash, files, qa, manifest, datacard, records>>

WriteSidecar(r) ==
    /\ pc[r] = "sidecar"
    /\ sidecar' = prov[r]
    /\ Goto(r, "qa")
    /\ UNCHANGED <<req, cursor, prov, chash, files, qa, manifest, datacard, records>>

\* Seeded fault: the gate is asked before the lineage is signed.
WriteQaBeforeSigning(r) ==
    /\ pc[r] = "qa"
    /\ qa' = VerdictOf[<<req[r].input, TRUE>>]
    /\ Goto(r, "chash")
    /\ UNCHANGED <<req, cursor, prov, chash, files, sidecar, manifest, datacard, records>>

\* release_gate and qa_report.json.
WriteQa(r) ==
    /\ pc[r] = "qa"
    /\ qa' = VerdictFor(r)
    /\ Goto(r, "chash")
    /\ UNCHANGED <<req, cursor, prov, chash, files, sidecar, manifest, datacard, records>>

\* content_hash reads the files a second time.
HashContent(r) ==
    /\ pc[r] = "chash"
    /\ chash' = [chash EXCEPT ![r] = ContentHash(req[r])]
    /\ Goto(r, "manifest")
    /\ UNCHANGED <<req, cursor, prov, files, docs, records>>

\* Seeded fault: a manifest that is there is left alone.
WriteManifestOnce(r) ==
    /\ pc[r] = "manifest"
    /\ manifest' = IF Intact(manifest) THEN manifest ELSE ManifestOf(r)
    /\ Goto(r, "datacard")
    /\ UNCHANGED <<req, cursor, prov, chash, files, sidecar, qa, datacard, records>>

WriteManifest(r) ==
    /\ pc[r] = "manifest"
    /\ manifest' = ManifestOf(r)
    /\ Goto(r, "datacard")
    /\ UNCHANGED <<req, cursor, prov, chash, files, sidecar, qa, datacard, records>>

WriteDatacard(r) ==
    /\ pc[r] = "datacard"
    /\ datacard' = DatacardOf(r)
    /\ cursor' = [cursor EXCEPT ![r] = <<1, 1>>]
    /\ Goto(r, "append")
    /\ UNCHANGED <<req, prov, chash, files, sidecar, qa, manifest, records>>

RecordAt(r, n) == [run |-> r, format |-> Announced(r)[n]]

\* Seeded fault: a format that has a record gets no second one.
AppendMissingRecord(r) ==
    LET n == cursor[r][1]
    IN  /\ pc[r] = "append" /\ n <= Len(Announced(r))
        /\ records' = IF \E m \in DOMAIN records :
                              records[m].format = Announced(r)[n]
                      THEN records ELSE Append(records, RecordAt(r, n))
        /\ cursor' = [cursor EXCEPT ![r] = <<n + 1, 1>>]
        /\ Goto(r, "append")
        /\ UNCHANGED <<req, prov, chash, files, docs>>

\* One pass of append_export_record's loop: one ExportRecord.
AppendRecord(r) ==
    LET n == cursor[r][1]
    IN  /\ pc[r] = "append" /\ n <= Len(Announced(r))
        /\ records' = Append(records, RecordAt(r, n))
        /\ cursor' = [cursor EXCEPT ![r] = <<n + 1, 1>>]
        /\ Goto(r, "append")
        /\ UNCHANGED <<req, prov, chash, files, docs>>

\* The loop is over and run returns.
Return(r) ==
    /\ pc[r] = "append" /\ cursor[r][1] > Len(Announced(r))
    /\ Goto(r, "done")
    /\ UNCHANGED <<req, cursor, prov, chash, files, docs, records>>

----------------------------------------------------------------------------
(* Failures. There is no except clause in run: whatever raises ends it.    *)

\* An exception between two writes, or the process stopped there.
Raise(r) ==
    /\ Active(r)
    /\ Goto(r, "failed")
    /\ UNCHANGED <<req, cursor, prov, chash, files, docs, records>>

\* A Parquet, HDF5 or MCAP write that does not finish leaves a truncated
\* file, or none when the writing library removes it on its way out.
SpoilFile(p) ==
    /\ \E c \in {Absent, [kind |-> KindOf[p], data |-> Torn]} :
           files' = [files EXCEPT ![p] = c]
    /\ UNCHANGED docs

\* write_text truncates the document first.
SpoilDoc(r) ==
    /\ UNCHANGED files
    /\ sidecar' = IF pc[r] = "sidecar" THEN Torn ELSE sidecar
    /\ qa' = IF pc[r] = "qa" THEN Torn ELSE qa
    /\ manifest' = IF pc[r] = "manifest" THEN Torn ELSE manifest
    /\ datacard' = IF pc[r] = "datacard" THEN Torn ELSE datacard

\* A write that fails, or is killed, half way.
WriteFails(r) ==
    /\ \/ pc[r] = "silver" /\ SpoilFile(Silver)
       \/ pc[r] = "export" /\ SpoilFile(NextGold(r))
       \/ pc[r] \in {"sidecar", "qa", "manifest", "datacard"} /\ SpoilDoc(r)
    /\ Goto(r, "failed")
    /\ UNCHANGED <<req, cursor, prov, chash, records>>

----------------------------------------------------------------------------
Step(r) ==
    \/ Project(r) \/ WriteSilver(r) \/ ExportFile(r)
    \/ HashFiles(r) \/ WriteSidecar(r) \/ WriteQa(r)
    \/ HashContent(r) \/ WriteManifest(r) \/ WriteDatacard(r)
    \/ AppendRecord(r) \/ Return(r)

Next == \E r \in Runs : Start(r) \/ Step(r) \/ Raise(r) \/ WriteFails(r)

Spec == Init /\ [][Next]_vars

\* A started invocation keeps executing; nothing forces one to start.
FairSpec == Spec /\ \A r \in Runs : WF_vars(Step(r))

----------------------------------------------------------------------------
(* Properties.                                                             *)

\* What is on disk, what an invocation holds, and where its cursor may point.
TypeOK ==
    /\ pc \in [Runs -> Working \cup {"idle", "done", "failed"}]
    /\ req \in [Runs -> Requests \cup {NoDoc}]
    /\ \A r \in Runs : pc[r] # "idle" => req[r] \in Requests
    /\ cursor \in [Runs -> Nat \X Nat]
    /\ \A r \in Runs : pc[r] \in {"idle", "project", "silver"} =>
           cursor[r] = <<1, 1>>
    /\ \A r \in Runs : pc[r] = "export" =>
           /\ cursor[r][1] \in DOMAIN req[r].formats
           /\ cursor[r][2] \in DOMAIN GoldFiles(r)
    /\ \A r \in Runs : pc[r] = "append" => cursor[r][1] > 0
    /\ prov \in [Runs -> Sidecars \cup {NoDoc}]
    /\ \A r \in Runs : pc[r] \in Stamped => prov[r] \in Sidecars
    /\ chash \in [Runs -> [Contents -> Nat] \cup {NoDoc}]
    /\ \A r \in Runs : pc[r] \in {"manifest", "datacard", "append"} =>
           chash[r] \in [Contents -> Nat]
    /\ files \in [Paths -> Contents \cup {Absent}]
    /\ \A p \in Paths : files[p] # Absent => files[p].kind = KindOf[p]
    /\ sidecar \in Sidecars \cup {NoDoc, Torn}
    /\ qa \in Verdicts \cup {NoDoc, Torn}
    /\ manifest \in Manifests \cup {NoDoc, Torn}
    /\ datacard \in Datacards \cup {NoDoc, Torn}
    /\ records \in Seq([run : Runs, format : Formats])

\* The package verifies: the sidecar's digests are those of the files, and
\* sidecar, QA report and manifest say the same of the build.
Verified ==
    /\ Intact(sidecar) /\ Intact(qa) /\ Intact(manifest)
    /\ \A p \in Paths : sidecar.hashes[p] \in {Absent, files[p]}
    /\ manifest.root = MerkleRoot(sidecar.hashes)
    /\ manifest.signed = sidecar.signed
    /\ manifest.verdict = qa

\* Input i accounts for the package: Silver and every hashed file are what i
\* gives, and the verdict is the gate's for i.
MadeFrom(i) ==
    /\ files[Silver] = Bytes(Silver, i)
    /\ \A p \in Paths : sidecar.hashes[p] \in {Absent, Bytes(p, i)}
    /\ manifest.verdict = VerdictOf[<<i, manifest.signed>>]

\* Whatever earlier invocations left and wherever the last one stopped, a
\* package that verifies was made from one input, its verdict included: no
\* mixture of two builds, or of a build and a failed rebuild, verifies
\* (order of the writes in run; Serialised).
VerifiedPackageIsCoherent == Verified => \E i \in Inputs : MadeFrom(i)

\* While a run appends its ExportRecords, from before the first to after the
\* last, the directory verifies as a package made from its own request, and
\* the data card agrees, over any leftovers of earlier runs (run, lines 146 to
\* 187, and append_export_record's loop; Serialised).
CompletedPackageIsOwn ==
    \A r \in Runs : pc[r] = "append" =>
        /\ Verified
        /\ MadeFrom(req[r].input)
        /\ \A p \in GoldSet(req[r]) : sidecar.hashes[p] = files[p]
        /\ manifest.formats = req[r].formats
        /\ datacard = [root |-> manifest.root, signed |-> manifest.signed,
                       verdict |-> qa, formats |-> manifest.formats]

\* The content hash of a build into an empty directory.
CleanBuildHash(q) ==
    [c \in Contents |->
        Cardinality({ix \in GoldIndex(q) : Bytes(GoldAt(q, ix), q.input) = c})]

\* The content hash depends on the request alone, never on what a failed or
\* a different build left in the directory (content_hash, versioning.py:
\* "Same Session + same profile + same engine version").
RebuildIsReproducible ==
    \A r \in Runs : pc[r] \in {"manifest", "datacard", "append", "done"} =>
        chash[r] = CleanBuildHash(req[r])

\* The documents appear in the order sidecar, QA report, manifest, data card,
\* under any interleaving of invocations: a manifest is never the first
\* document of a version, and the caller's Session knows of no version
\* without a data card.
DocumentsInOrder ==
    /\ qa # NoDoc => sidecar # NoDoc
    /\ manifest # NoDoc => qa # NoDoc
    /\ datacard # NoDoc => manifest # NoDoc
    /\ records # <<>> => datacard # NoDoc

RecordsBy(r) == {n \in DOMAIN records : records[n].run = r}

\* The records of run r are those of its first n formats, in order.
RecordedUpTo(r, n) ==
    \E at \in [1..n -> RecordsBy(r)] :
        /\ \A m \in RecordsBy(r) : \E k \in 1..n : at[k] = m
        /\ \A j, k \in 1..n : j < k => at[j] < at[k]
        /\ \A k \in 1..n : records[at[k]].format = Announced(r)[k]

\* In the session.exports that overlapping invocations share, each run has a
\* record of its own for every format of its request once it has returned, an
\* initial part of them while it appends or when it fails there, and none
\* before, in the order of its request, however the records of other runs
\* come in between (append_export_record's loop, last in run).
RecordsFollowTheRequest ==
    \A r \in Runs :
        /\ pc[r] \notin {"append", "done", "failed"} => RecordsBy(r) = {}
        /\ pc[r] \in {"append", "failed"} =>
               \E n \in 0..Len(Announced(r)) : RecordedUpTo(r, n)
        /\ pc[r] = "done" => RecordedUpTo(r, Len(Announced(r)))

\* Every invocation ends: the export loop and its cursor make progress.
EveryRunEnds ==
    \A r \in Runs : pc[r] = "project" ~> pc[r] \in {"done", "failed"}

----------------------------------------------------------------------------
(* The inductive invariant behind the three serialised properties.         *)

SoleActive == \A r, s \in Runs : Active(r) /\ Active(s) => r = s

\* Entry ix of gold_files comes before the cursor c.
Before(ix, c) == ix[1] < c[1] \/ (ix[1] = c[1] /\ ix[2] < c[2])

CleanHashes(q) ==
    [p \in Paths |-> IF p \in GoldSet(q) THEN Bytes(p, q.input) ELSE Absent]

\* What the sole active invocation has written is still there.
OwnProgress(r) ==
    /\ pc[r] = "export" =>
           \A ix \in GoldIndex(req[r]) : Before(ix, cursor[r]) =>
               files[GoldAt(req[r], ix)] = Bytes(GoldAt(req[r], ix), req[r].input)
    /\ pc[r] \in {"hash"} \cup Stamped =>
           \A p \in GoldSet(req[r]) : files[p] = Bytes(p, req[r].input)
    /\ pc[r] \in Stamped => prov[r].hashes = CleanHashes(req[r])
    /\ pc[r] \in Stamped \ {"sidecar"} => sidecar = prov[r]
    /\ pc[r] \in Stamped \ {"sidecar", "qa"} => qa = VerdictFor(r)
    /\ pc[r] \in {"manifest", "datacard", "append", "done"} =>
           chash[r] = CleanBuildHash(req[r])
    /\ pc[r] \in {"datacard", "append"} => manifest = ManifestOf(r)
    /\ pc[r] = "append" => datacard = DatacardOf(r)

\* Every sidecar and every manifest ever written speaks of one input.
SidecarOfOneInput ==
    Intact(sidecar) => \E i \in Inputs :
        /\ \A p \in Paths : sidecar.hashes[p] \in {Absent, Bytes(p, i)}
        /\ sidecar.hashes[Silver] = Bytes(Silver, i)

ManifestOfOneInput ==
    Intact(manifest) => \E i \in Inputs :
        /\ \A c \in manifest.root : c.data = DataOf[i]
        /\ manifest.verdict = VerdictOf[<<i, manifest.signed>>]

PackageInv ==
    /\ TypeOK
    /\ SoleActive
    /\ \A r \in Runs : OwnProgress(r)
    /\ SidecarOfOneInput
    /\ ManifestOfOneInput

----------------------------------------------------------------------------
(* The inductive invariant behind DocumentsInOrder, under any interleaving.*)

\* What an invocation wrote is there, whoever has rewritten it since.
DocumentProgress(r) ==
    /\ pc[r] \in Stamped \ {"sidecar"} => sidecar # NoDoc
    /\ pc[r] \in Stamped \ {"sidecar", "qa"} => qa # NoDoc
    /\ pc[r] \in {"datacard", "append"} => manifest # NoDoc
    /\ pc[r] = "append" => datacard # NoDoc

DocumentsInv ==
    /\ TypeOK
    /\ DocumentsInOrder
    /\ \A r \in Runs : DocumentProgress(r)

----------------------------------------------------------------------------
(* The inductive invariant behind RecordsFollowTheRequest.                 *)

\* The cursor says how many records of its own an appending run has.
RecordsProgress(r) ==
    /\ pc[r] \notin {"append", "done", "failed"} => RecordsBy(r) = {}
    /\ pc[r] = "append" => /\ cursor[r][1] <= Len(Announced(r)) + 1
                           /\ RecordedUpTo(r, cursor[r][1] - 1)
    /\ pc[r] = "done" => RecordedUpTo(r, Len(Announced(r)))
    /\ pc[r] = "failed" => \E n \in 0..Len(Announced(r)) : RecordedUpTo(r, n)

RecordsInv ==
    /\ TypeOK
    /\ \A r \in Runs : RecordsProgress(r)

----------------------------------------------------------------------------
\* What a verifying consumer sees, and the promise it is held to.
View == IF Verified
        THEN [silver |-> files[Silver], verdict |-> manifest.verdict,
              signed |-> manifest.signed]
        ELSE NoDoc

LegitimateOutcomes ==
    {[silver |-> Bytes(Silver, i), verdict |-> VerdictOf[<<i, signed>>],
      signed |-> signed] : i \in Inputs, signed \in BOOLEAN}

Promise == INSTANCE Publication
           WITH view <- View, Legitimate <- LegitimateOutcomes, None <- NoDoc

\* The directory implements Publication: the verified outcome is legitimate
\* and is never swapped for another one in a single step.
PublicationPromise == Promise!Spec
====
