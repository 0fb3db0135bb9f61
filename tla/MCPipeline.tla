---- MODULE MCPipeline ----
(***************************************************************************)
(* Pipeline with the exporters' own files and the release gate's own       *)
(* verdicts, on three inputs:                                              *)
(*   good     clean, synchronisation certified                             *)
(*   demoted  the same table, but SentrixSync says NEEDS_REVIEW            *)
(*   lossy    another table, 0.5 % of the frames missing, SentrixSync says *)
(*            RELEASE                                                      *)
(* so that two inputs share a table and differ in verdict only.            *)
(***************************************************************************)
EXTENDS Pipeline, Exporters

Gate == INSTANCE ReleaseGate WITH
            HardFail <- [missing |-> 30, resid |-> 5000, conf |-> 850],
            Release <- [missing |-> 10, resid |-> 2000, conf |-> 900],
            Certified <- [missing |-> 2, resid |-> 500, conf |-> 950],
            RequireSigned <- TRUE, NaN <- NoDoc

MCInputs == {"good", "demoted", "lossy"}

\* The lossy one is materialised without a Session.
MCWithSession == {"good", "demoted"}

MCDataOf == [i \in MCInputs |-> IF i = "lossy" THEN "table2" ELSE "table1"]

CeilingOf == [i \in MCInputs |-> CASE i = "good" -> "CERTIFIED"
                                   [] i = "demoted" -> "NEEDS_REVIEW"
                                   [] i = "lossy" -> "RELEASE"]

EvidenceOf(i, signed) ==
    [missing |-> IF i = "lossy" THEN 5 ELSE 0, resid |-> 100, conf |-> 980,
     signed |-> signed, failed |-> {}, ceiling |-> CeilingOf[i]]

MCVerdictOf == [x \in MCInputs \X BOOLEAN |-> Gate!Verdict(EvidenceOf(x[1], x[2]))]

MCVerdicts == Gate!GateVerdicts

MCFormats == {"parquet", "rlds"}

MCFilesOf == [f \in MCFormats |-> IF f = "parquet" THEN ParquetFiles ELSE RldsFiles]

MCGoldPaths == UNION {{MCFilesOf[f][n] : n \in DOMAIN MCFilesOf[f]} : f \in MCFormats}

MCKindOf == [p \in {SilverPath} \cup MCGoldPaths |->
                IF p = ParquetFiles[1] THEN SilverPath ELSE p]

\* Silver alone, one format, two formats, and one format named twice.
FormatLists == {<<>>, <<"parquet">>, <<"rlds", "parquet">>, <<"parquet", "parquet">>}

MCRequests == [input : MCInputs, formats : FormatLists]

\* For invocations that overlap: each has two records to append.
MCOverlaps == [input : {"good", "lossy"}, formats : {<<"rlds", "parquet">>}]

\* Every exporter, derived with two gloves.
MCAllFiles ==
    [parquet |-> ParquetFiles, lerobot |-> LerobotFiles("v3"), rlds |-> RldsFiles,
     hdf5 |-> Hdf5Files, mcap |-> McapFiles,
     derived |-> DerivedFiles(<<"glove_L", "glove_R">>)]

MCAllFormats == DOMAIN MCAllFiles

MCAllPaths == UNION {{MCAllFiles[f][n] : n \in DOMAIN MCAllFiles[f]} : f \in MCAllFormats}

MCAllKinds == [p \in {SilverPath} \cup MCAllPaths |->
                  IF p = ParquetFiles[1] THEN SilverPath ELSE p]

----------------------------------------------------------------------------
(* Claims of the documentation that the code does not keep.                *)

\* docs/USER_GUIDE.md:64: "The dataset verdict can never exceed the
\* SentrixSync ValidationReport.gate_verdict". Read of what is on disk: when
\* Silver is whole, some synchronisation that gives this Silver allows the
\* stored verdict, as `validate` prints it.
StoredVerdictWithinCeiling ==
    Intact(qa) /\ files[Silver] \in {Bytes(Silver, i) : i \in Inputs} =>
        \E i \in Inputs : /\ files[Silver] = Bytes(Silver, i)
                          /\ Gate!Rank(qa) <= Gate!Rank(CeilingOf[i])

\* docs/USER_GUIDE.md:304: "Provenance (Merkle root + signature) makes any
\* delivered byte auditable". Once the package verifies, every file under the
\* version has its digest in the sidecar.
EveryDeliveredFileIsAudited ==
    Verified => \A p \in Paths : files[p] # Absent => sidecar.hashes[p] # Absent
====
