---- MODULE Inspection ----
(***************************************************************************)
(* Readers of a version directory beside the invocations that write it:    *)
(* summarize_dataset and diff_datasets (inspect/), and the CLI commands    *)
(* inspect, diff and validate. A reader takes no lock and changes nothing; *)
(* it opens Silver, reads its columns and then the manifest, and a rebuild *)
(* may come in between.                                                    *)
(*                                                                         *)
(* The data stands for what a summary says of the streams: tables that     *)
(* differ may have equal statistics, equal tables always have.             *)
(***************************************************************************)
EXTENDS Pipeline

CONSTANT Readers

VARIABLES
    latest,   \* the invocation that made the last step (history)
    reader    \* where each reader is, and what it has read

\* at: "idle", "columns", "manifest", then "summary", "verdict" or "raised".
\* of: the invocation that had returned last when the reader began, NoDoc
\* once any invocation makes a step (history).
Blank == [at |-> "idle", of |-> NoDoc, footer |-> NoDoc, data |-> NoDoc,
          verdict |-> NoDoc, chash |-> NoDoc, formats |-> NoDoc]

Settled == IF latest # NoDoc /\ pc[latest] = "done" THEN latest ELSE NoDoc

Fresh(at) == [Blank EXCEPT !.at = at, !.of = Settled]

Free(i) == reader[i].at \notin {"columns", "manifest"}

SilverReadable == files[Silver] # Absent /\ files[Silver].data # Torn

Reads(i, result) ==
    /\ reader' = [reader EXCEPT ![i] = result]
    /\ UNCHANGED <<vars, latest>>

\* silver.exists() and ParquetFile(silver): the row count and the streams.
OpenSilver(i) ==
    /\ Free(i)
    /\ Reads(i, IF SilverReadable
                THEN [Fresh("columns") EXCEPT !.footer = files[Silver].data]
                ELSE Fresh("raised"))

\* pf.read(). Over a file rewritten since, the offsets of the old footer hit
\* something that does not decode, or the new table's columns.
ReadColumns(i) ==
    /\ reader[i].at = "columns"
    /\ \/ /\ SilverReadable
          /\ Reads(i, [reader[i] EXCEPT !.at = "manifest", !.data = files[Silver].data])
       \/ /\ files[Silver] # [kind |-> KindOf[Silver], data |-> reader[i].footer]
          /\ Reads(i, [reader[i] EXCEPT !.at = "raised"])

\* The manifest, when there is one; a torn one is no JSON.
ReadManifest(i) ==
    /\ reader[i].at = "manifest"
    /\ Reads(i, CASE manifest = NoDoc -> [reader[i] EXCEPT !.at = "summary"]
                  [] manifest = Torn -> [reader[i] EXCEPT !.at = "raised"]
                  [] OTHER -> [reader[i] EXCEPT !.at = "summary",
                                  !.verdict = manifest.verdict,
                                  !.chash = manifest.chash,
                                  !.formats = manifest.formats])

\* `validate` prints what qa_report.json says, or exits 1, or raises.
Validate(i) ==
    /\ Free(i)
    /\ Reads(i, IF Intact(qa) THEN [Fresh("verdict") EXCEPT !.verdict = qa]
                ELSE Fresh("raised"))

\* A step of an invocation: what was printed is past, and whoever is reading
\* has no calm.
Invoke(r) ==
    /\ Start(r) \/ Step(r) \/ Raise(r) \/ WriteFails(r)
    /\ latest' = r
    /\ reader' = [i \in Readers |-> IF Free(i) THEN Blank
                                    ELSE [reader[i] EXCEPT !.of = NoDoc]]

InspectInit ==
    /\ Init
    /\ latest = NoDoc
    /\ reader = [i \in Readers |-> Blank]

InspectNext ==
    \/ \E r \in Runs : Invoke(r)
    \/ \E i \in Readers :
           OpenSilver(i) \/ ReadColumns(i) \/ ReadManifest(i) \/ Validate(i)

InspectSpec == InspectInit /\ [][InspectNext]_<<vars, latest, reader>>

----------------------------------------------------------------------------
(* diff_datasets                                                           *)

\* content_hash_identical, and whether every stream is "same".
Diff(a, b) ==
    [identical |-> a.chash # NoDoc /\ a.chash = b.chash, streams |-> a.data = b.data]

\* The summary of another directory, in which q alone was built.
CleanSummary(q) ==
    [Blank EXCEPT !.at = "summary", !.data = DataOf[q.input],
                  !.chash = CleanBuildHash(q), !.formats = q.formats]

----------------------------------------------------------------------------
(* Properties.                                                             *)

\* In calm, once an invocation has returned and until the next one starts,
\* inspection does not raise, and what inspect and validate print is what
\* materialize printed of that invocation and of no earlier one, whatever
\* failed or differing builds went before it in the directory: its table,
\* verdict, content hash and formats (summarize_dataset, validate; Serialised).
CalmSummaryIsOfTheLastRun ==
    \A i \in Readers :
        LET s == reader[i]
        IN  Free(i) /\ s.of # NoDoc =>
                /\ s.at # "raised"
                /\ s.verdict = VerdictFor(s.of)
                /\ s.at = "summary" =>
                       /\ {s.footer, s.data} = {DataOf[req[s.of].input]}
                       /\ s.chash = chash[s.of]
                       /\ s.formats = req[s.of].formats

\* A diff in calm against a build of any request in another directory: an
\* identical content hash never goes with streams that differ, and a build of
\* the same table into the same formats always has one (diff_datasets over
\* content_hash and the manifest; Serialised).
DiffTellsBuildsApart ==
    \A i \in Readers : reader[i].at = "summary" /\ reader[i].of # NoDoc =>
        \A q \in Requests :
            LET own == req[reader[i].of]
                d == Diff(reader[i], CleanSummary(q))
            IN  /\ d.identical => d.streams
                /\ DataOf[q.input] = DataOf[own.input] /\ q.formats = own.formats =>
                       d.identical

----------------------------------------------------------------------------
(* The inductive invariant behind both, with PackageInv.                   *)

Summaries == [at : {"idle", "columns", "manifest", "summary", "verdict", "raised"},
              of : Runs \cup {NoDoc},
              footer : Data \cup {NoDoc}, data : Data \cup {NoDoc},
              verdict : Verdicts \cup {NoDoc},
              chash : [Contents -> Nat] \cup {NoDoc},
              formats : Seq(Formats) \cup {NoDoc}]

\* Nobody writes, and the directory is as invocation r left it.
LeftBy(r) ==
    /\ \A s \in Runs : ~Active(s)
    /\ \A p \in GoldSet(req[r]) : files[p] = Bytes(p, req[r].input)
    /\ qa = VerdictFor(r) /\ Intact(qa)
    /\ manifest = ManifestOf(r) /\ Intact(manifest)

\* What a reader that has had calm so far has read is invocation s.of's.
CalmSoFar(s) ==
    /\ s.of = Settled
    /\ s.at \in {"columns", "manifest", "summary", "verdict"}
    /\ s.at = "verdict" => s.verdict = VerdictFor(s.of)
    /\ s.at # "verdict" => s.footer = DataOf[req[s.of].input]
    /\ s.at \in {"manifest", "summary"} => s.data = DataOf[req[s.of].input]
    /\ s.at = "summary" => /\ s.verdict = VerdictFor(s.of)
                           /\ s.chash = chash[s.of]
                           /\ s.formats = req[s.of].formats

InspectionInv ==
    /\ PackageInv
    /\ latest \in Runs \cup {NoDoc}
    /\ reader \in [Readers -> Summaries]
    /\ Settled # NoDoc => LeftBy(latest)
    /\ \A i \in Readers : reader[i].of # NoDoc => CalmSoFar(reader[i])
====
