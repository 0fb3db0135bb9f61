# SentrixDataEngine in TLA+

A model of the dataset engine in `src/sentrixdataengine`: TLA+ modules, TLC
configurations and TLAPS proofs. Paths below are relative to that package
unless they start with `docs/`, `configs/` or `benchmarks/` or name the
repository's `README.md`.

## 1. The system

`Pipeline.run` (pipeline.py) turns a SentrixSync `SyncResult` and `Session` into
one dataset version directory, in one pass, with no lock, no temporary file, no
rename and no `except` clause:

    resolve payloads -> project -> Silver -> Gold per format -> checks ->
    digests + Merkle root + signature (sidecar) -> gate -> qa_report.json ->
    content hash -> manifest.json -> DATACARD.md -> ExportRecords

| component | state | operations | hard behaviour |
|---|---|---|---|
| Pipeline, layout | the version directory; what one call holds in memory | one write after another, in place | a stop or an exception between any two writes, a torn write, a retry over leftovers, two calls on one directory |
| Provenance, versioning, manifest, data card | sidecar, content hash, manifest, card, `session.exports` | `stamp_provenance`, `content_hash`, `write_*`, `append_export_record` | documents written at different moments about files that are read again each time |
| Release gate | none | `release_gate` | three bands with `>=` and `<` in both directions, NaN, the ceiling |
| Checks | none | `check_schema`, `check_timeline`, `check_metadata`, `check_confidence` | NaN in `nanmin`, empty arrays, which inputs ever get here |
| Projector, canonical table, confidence | the table | `project`, `_apply_alignment`, `fold` | stale indices at gaps, payloads shorter than the timeline, missing confidence |
| Resolvers and payload sources | three `lru_cache`s per process | `_payload_sources`, `resolve_stream`, `_source_hashes` | caches keyed by path while producers write, eviction, lineage taken later than the data |
| Exporters | the files of a format | `export` x 6 | several files each, any of which may fail; names across devices, gaps, batches, empty and unordered grids |
| Inspect, diff, `validate` | none | readers of a version directory | three files read one by one while a rebuild replaces them |
| Sub-frame | none | `materialize_subframe` | empty frames, whose indices are -1 |
| CLI, hooks | none | a command per process; no-ops | a Session that is loaded and never saved |

They interact by calls inside one process and by the files on disk; the caller's
`Session` is shared memory; producers of episodes and readers of packages are
other programs.

What makes each correct: a package that verifies was made from one input
(Pipeline); a retry owns its package; the content hash is a function of the
request; documents and records appear in order; the gate is monotone, capped and
sound at its limits and with NaN; the table invents nothing and what is let out
is honest; each stream gets its own array, in the sensor order of its own file,
and the lineage covers the table; every format holds the whole table under names
that do not collide; a reader between two builds is told about one of them.

## 2. Modules

| module | what it is | code |
|---|---|---|
| `ReleaseGate` | the gate as operators over an evidence record | validate/release_gate.py |
| `GateDegradation`, `MCGateDegradation` | evidence that only gets worse; qa_thresholds.yaml as constants | the same |
| `GateProofs` | what the verdict is, test by test; theorems about the gate | |
| `Publication` | the abstract promise to a consumer who verifies: publish, withdraw | |
| `Exporters` | the file lists of the six exporters | exporters/*.py |
| `Pipeline` | one action per write of `run` | pipeline.py, package/*.py |
| `MCPipeline` | instances: real file lists, real gate verdicts (`INSTANCE ReleaseGate`) | |
| `PipelineProofs` | theorems about `Pipeline`: any invocations, then serialised ones | |
| `Inspection`, `MCInspection` | readers beside the invocations of `Pipeline` | inspect/*, the CLI's inspect, diff, validate |
| `InspectionProofs` | theorems about `Inspection` | |
| `GoldFormats`, `MCGoldFormats` | what is in Silver and the Gold files, what each exporter refuses, what inspection computes | materialize/silver_writer.py, `feature_names`, exporters/*, inspect/summary.py |
| `FormatProofs` | theorems about `GoldFormats` | |
| `Projection`, `MCProjection` | SyncResult to verdict, through `ReleaseGate` | materialize/*, validate/*, `_mean_confidence` |
| `ProjectionProofs` | theorems about `Projection` and `Subframe` | |
| `Subframe`, `MCSubframe` | bursts gathered from the table of `Projection` | materialize/subframe.py |
| `PayloadCache`, `MCPayloadCache` | sources, resolvers, caches, source hashes, producers | resolve/*, `_payload_sources`, `_source_hashes` |
| `CacheProofs`, `LineageProofs` | theorems about `PayloadCache`, the second on top of the first | |
| `InductionLemmas` | least and greatest numbers, and induction, for the proofs above | |

### Pipeline

`pc[r]` is the place of invocation `r` in `run`, `req[r]` its request,
`cursor[r]` the format and file the export loop writes next and then the format
that is recorded next, `prov[r]` and
`chash[r]` its local variables `prov` and `chash`. `files` is the Silver and
Gold files, `sidecar`, `qa`, `manifest`, `datacard` the documents, `records`
is `session.exports`. `WriteSilver`, `ExportFile`, `HashFiles`, `WriteSidecar`,
`WriteQa`, `HashContent`, `WriteManifest`, `WriteDatacard`, `AppendRecord` and
`Return` are the effects of `run` in its order. `AppendRecord` is one pass of
`append_export_record`'s loop, so that a stop or another invocation may come
between two records; an input outside `WithSession` comes without a Session and
has none. `Raise` is an exception or a stop between two
writes, `WriteFails` one inside a write, which leaves the file truncated or
(Parquet removes it) absent, and a document truncated.

What is abstracted:

- Bytes are a kind of content and the table it was made from; a SHA-256 digest
  is the content (no collisions). Exporters are deterministic in the table.
- The Merkle root is the set of digests. That identifies more packages than the
  tree does, so what holds with it holds with the tree.
- Reading a list of files for hashing is one step. Truncated versions of one
  file are one value.
- A path is written by one format with one set of options. Two lerobot layouts,
  whose `info.json` differ, are not put into one instance.
- `authorize` says yes, `watermark` changes nothing, `derive_dataset_id` only
  names the directory: all invocations of an instance share one.
- A signature is its `signed` flag, free in each run: the Ed25519 key is new
  every time and `_sign` falls back to HMAC on any exception.
- `Serialised` is an assumption about callers: nothing in the code enforces it.
  `Overlap` drops it.

### Inspection

`reader[i]` is where a reader is and what it has read: the footer of Silver, its
columns, then the manifest; `validate` reads qa_report.json in one step. Readers
change nothing. A read over a file that was rewritten since its footer was taken
raises or returns the new table's columns; a torn document raises. `latest` and
the field `of` are history: the invocation that had returned when the reader
began, forgotten as soon as any invocation makes a step, which is what the
properties call calm. Outside calm a summary may mix two builds, and the model
lets it. Equal tables have equal statistics; other tables are given other ones.

### GoldFormats

One action per exporter over one table, in the order requested. A value is the
cell it comes from (stream, frame, channel), so that a file holds the table when
the right cells stand under the right names; a cell without a number is `NaN`, at
gaps and also at a valid frame whose source sample has none. An id is the
sequence of its dot-separated parts and joining names is `\o`. `Filled` is a
dict filled stream by stream, where a name used twice keeps the later entry;
HDF5 raises instead. Where an exporter refuses, the model stops; what it leaves
on disk is `WriteFails` and `Raise` of Pipeline.

Numbers are integers: times in microseconds, confidences in units of which `One`
make 1.0. Arithmetic in float64 is exact, arithmetic in float32 is not:

- a float32 has `SingleBits` significant bits, a spacing of one unit at least and
  of `2^MaxExponent` at most, and rounds half-way cases to even (`Ulp`,
  `Nearest`, `Single`). Every file but the replay log holds confidences (`Stored`)
  and LeRobot and HDF5 hold times that went through it;
- the mean that `summarize_dataset` takes of Silver's confidences adds up
  float32 numbers in float32, each partial sum rounded, and divides in float32;
  the one `summarize_canonical` takes of the table does neither. `Digit` is the
  last decimal that `round(x, 6)` keeps. numpy adds fewer than eight numbers one
  after another, as `SumOver` does, and more of them in blocks, whose error is
  smaller;
- of the proxies of `derived` only what decides about NaN is computed: the median
  of each payload row over the frames at which it has a number, and which rows
  are away from it. Means and norms over a cluster are NaN when one row has no
  number at the frame; the centroid, weighted by the responses, is 0/0 when no
  row has one (`Proxies`). What is left of the arithmetic is the cells it uses.
  The three axes of a sensor are one channel with one number. Payload rows are
  taken to be in the descriptor's order, as derived.py takes them.

### Projection

A payload is its number of rows, row i holding 2i so that a half-way blend is an
integer; a confidence of 1.0 is 1; ratios are per mille, rounded down. The
actions are the stages of one call. Indices and weights come from SentrixSync,
any within their types; the three confidence arrays are taken to have the
length of the grid.

`Subframe` extends it: from the table that `run` returned, `Gather` makes one
`SubframeTensor`, with the grid as the high-rate times, as
benchmarks/multi_device_benchmark.py does. SentrixSync's bucket indices are
external; the values and flags made from them are this code's.

### PayloadCache

`disk` is the episode files: absent, being written (`Torn`), or a version with a
Parquet layout: which sensor-id order the metadata declares and which column
sets are there. A column set stands for names (`mag.<id>.bx_uT`, ...) in some
order; a file in either order of the same sensors has the names of both, so that
columns asked for in a stale order are found. An array stands for the episode,
version and column set it came from, and remembers, as history, the one that
this version itself calls for (`declared`). `schemas`,
`columns` and `topics` are the caches, sequences in order of use, as
`functools.lru_cache` keeps them; exceptions are not cached. A process makes one
call at a time and `Restart` replaces it by a cold one. Producers, Parquet and
MCAP reading and `lru_cache` are external: they are modelled from how the code
uses them. A file that is being written cannot be read, only hashed. `before` and
`warm` are history variables for `FirstCallIsCurrent`. `NeverRewritten` is a
state predicate: what a property says under it holds up to the first rewrite in
a behaviour, not only in behaviours without one.

## 3. Runs

Passing runs:

| run | question | bounds |
|---|---|---|
| `Gate` | is the gate monotone, capped, sound at its limits? | every threshold itself, one value on either side, NaN; signed or not; no, a harmless, a critical failed check; four ceilings and an unknown word. The gate compares with the thresholds only, so one value per interval is enough |
| `Rebuild` | is a build over a build, with failures at every step, coherent? Does it implement `Publication`, does every run end? | 2 invocations, 3 inputs (two share a table and differ in verdict), no format, one, two, one named twice |
| `Inspect` | what do inspect, diff and validate print between builds that may have failed? | 1 reader (readers do not affect one another), 2 invocations: a full build with all six exporters and one of two formats of either of the other inputs |
| `Overlap` | what holds without serialisation? | 2 invocations that interleave at every step, of 2 formats each, on one Session or with one of them without |
| `Table` | is the table true to the join, what is let out honest, and a burst its own frame's? | 5 612 requests: one stream with every pair of 6 joins and 6 confidences, two streams, short and missing payloads, empty, equal and decreasing grids; 3 anchor rows and 2 rates for the bursts. Metrics are folded per stream and point, so two of each show every combination |
| `Formats` | does every format hold the table, and inspection agree? | 3 073 tables: up to 3 streams with every choice of 2 devices and 4 ids; every mask over grids of up to 5 frames, with every choice of 4 confidences up to 3 frames; one magnetic stream, one on either of two devices or two on one, over 4 descriptors and the sessions that name them or not, at rest, moving, or without a number at a valid frame. Batches of 2 instead of 4096; float32 of 5 bits instead of 24, so that the spacing doubles at 32 and 64, within the grids and below `One` = 64; of the confidences one is rounded up and one down |
| `Episodes` | do caches and lineage agree, and what survives a producer that rewrites? | 2 versions of a Parquet episode in 2 layouts (the sensors in one order; the tactile ones in the other, beside Layout-B), one version each of another Parquet and an MCAP episode, 3 calls with restarts, 4 requests; caches of 1 schema, 2 column sets and 1 topic instead of 32, 32 and 16, so that all three evict |

The bounds of `PayloadCache` are `MaxVersion` and `MaxCalls`. `Pipeline` needs
none: an invocation happens once. Deadlock is not checked where the system
stops: all invocations over, one call of `run` done, or evidence with NaN,
which has nothing worse. No run uses symmetry.

Properties and what would break them are in PROJECT.json under `mutants`: each
has a seeded fault in the module, next to the definition it stands in for
(`FileHashesWithoutSilver`, `ExportMissingFile`, `ColumnsKeyPathOnly`, ...).

Runs that end in a violation show where a document and the code differ:

| run | the document says | the code |
|---|---|---|
| `CrashCeiling` | the verdict never exceeds the sync verdict (docs/USER_GUIDE.md:64) | a rebuild that stops leaves new Silver under the old verdict, which `validate` prints |
| `StaleGold` | any delivered byte is auditable (docs/USER_GUIDE.md:304) | Gold files of an earlier build stay, with no digest |
| `ShapeMismatch` | a wrong shape is reported and BLOCKED (docs/USER_GUIDE.md:236) | the reshape raises first |
| `StaleArray` | same inputs, identical hash (README.md:106) | a warm process builds the old table and records the new file's digest |
| `StaleOrder` | the sensor order is read from each producer file (README.md:99) | a process with the old schema in its cache reads the new file's columns in the old order |

More of the kind were met while modelling and have no run of their own:

- overlapping calls can leave a package that verifies with a verdict above the
  ceiling of its Silver (docs/USER_GUIDE.md:64);
- a format named twice changes the content hash of the same set of files
  (package/versioning.py:27 speaks of a set), and two builds that differ in
  verdict only have one content hash, since the verdict is not hashed: `diff`
  then prints "identical" beside two verdicts;
- docs/CANONICAL_SCHEMA.md:46 says that confidence is 0 at gaps, and
  materialize/confidence.py:15 leaves the mask to the caller. `project()` applies
  none: a stream without confidence components has confidence 1 at its gaps, and
  one whose components are not 0 there keeps them. Such a table does not get
  past the gate, which `PublishableTableIsHonest` says;
- a NaN component passes `confidence_in_unit_interval` beside a number, since
  `nanmin` skips it (validate/confidence_check.py:1);
- a payload source given for a bare stream id does not override the session's
  reference (contracts.py:29 says it does), which `EveryStreamGetsItsOwnArray`
  states as it is;
- `feature_names` promises "a unique, export-safe feature name"
  (materialize/canonical.py:65), which a stream called `L.imu` beside device
  `L`'s `imu` breaks when another device has an `imu` too, as does a stream
  called like a column suffix (`imu.confidence`). The later stream then replaces
  the earlier one's columns and HDF5 raises. `EveryFormatHoldsTheTable` is
  stated for ids without dots (`PlainIds`), as the tests and benchmarks have them;
- two magnetic streams of one device get one `derived-<device>.parquet`: the
  second overwrites the first while both are counted and listed.
  `DerivedStaysInItsCluster` says that it is the last one's that stays;
- a ceiling in a word that `_ORDER` does not know caps nothing
  (validate/release_gate.py:97); the engine's own verdict stands;
- a summary taken while a rebuild runs, or after one failed, may show new Silver
  beside the manifest of an earlier build. No document says otherwise, and
  `CalmSummaryIsOfTheLastRun` and `DiffTellsBuildsApart` are about the summaries
  of a returned run;
- LeRobot and HDF5 time stamps are float32 seconds of the reference clock with
  nothing subtracted. Frames may share one as soon as the grid's step is not above
  the spacing there; `TimesSurvive` says exactly when they cannot.


## 4. Fairness

`FairSpec` asks weak fairness of each invocation's own steps: a started call is
straight-line code in a thread the system schedules. Nothing forces a call to
start or an exception to happen. `EveryRunEnds` is the one liveness property.

## 5. Proofs

`tlapm` checks every proof from nothing.

- `GateProofs`: for all thresholds (any integers, with no relation between the
  bands) and all evidence the gate is monotone, capped and sound. It is a case
  analysis over `OwnVerdict`; monotonicity rests on each band being inherited by
  better evidence.
- `PipelineProofs.TypeCorrect`: the type invariant, including that the cursor of
  an exporting call points at a file, for any number of calls, overlapping or
  not. `DocumentOrder` strengthens it with `DocumentProgress`: a call past a
  document's write knows that the document exists, whoever rewrote it. `Records`
  holds without serialisation too. `RecordsInv` says that the cursor of an
  appending call counts the records it has in the shared session: their places
  are a copy of the first formats of its list, which the appends of others leave
  where they are and its own append extends by one.
- The rest of `PipelineProofs` assumes `Serialised`. `VerifiedPackageIsCoherent` alone is
  not inductive: a step that makes a package verify needs to know what was
  written before. `PackageInv` adds that at most one call is active, that
  everything it has written is still there (`OwnProgress`), and that every
  intact sidecar and manifest on disk speaks of one input
  (`SidecarOfOneInput`, `ManifestOfOneInput`). The sidecar always lists Silver,
  which ties the verdict to the data: a torn Silver, or one of another table,
  does not verify. From the invariant follow `Coherence`, `Ownership`,
  `Reproducibility` and, step by step with the mapping `View`, `Implements`:
  `Pipeline` implements `Publication`.
- `InspectionProofs`, also under `Serialised`. `ReadersAreHarmless`: readers leave `PackageInv`
  alone, so all of the above holds beside them (`RecordsBesideReaders` says it
  of the records). `InspectionInv` adds what a reader in the middle of its
  three files has in hand as long as it is calm: the footer, the columns and then the
  manifest of the run that had returned when it began (`LeftBy`, `CalmSoFar`). At
  the last read that is `CalmSummary`, and with two summaries `DiffIsSound`.
- `ProjectionProofs`, for every grid, payload, join and confidence and all
  thresholds that ask for some coverage. `TableInv` says that each stream of the
  table is what `project` makes of the timeline's stream at its place, and that
  failures and verdict are those of that table; without it a verdict could be
  about another table than the one at hand. Lemmas about one stream
  (`SampleProperties`, `FoldedProperties`) then give `TypeCorrect` and
  `NothingInvented`. `PublishableIsHonest` goes backwards through the gate: a
  verdict that lets out means that no check failed, that the mean confidence is
  a number, and that no stream lacks every point; a NaN component
  would show in the mean at a valid point (`MeanShowsNaN`) and in
  `confidence_zero_at_gaps` elsewhere, and a stream without a valid point would
  take the coverage to 0 (`UncoveredStream`).
  `BurstsKeep`: the samples of a frame lie side by side since a sorted grid never
  goes down over any distance (`NeverDown`, by induction), so that the indices
  between the first and the last are the frame's own.
- `FormatProofs`: any tables, names, widths, masks, batch sizes, descriptors and
  lists of formats. `FilesInv` is inductive: a file that is there is what its
  exporter makes of the table, an exporter that delivered accepts the table, and a
  refusal had its cause. The rest is about one table:
  - plain ids make names unique, and a name followed by a suffix is never
    another stream's (`LastPart`, `DropLast`, `NameType`), so that `Filled` loses
    nothing (`FilledAt`); the messages of a stream are its valid frames, each at
    its rank (`IndicesOfMask`, by induction over the mask). Together `EveryFormat`;
  - every frame lies in some batch and the last batch ends with the grid
    (`BatchStart`, `ResizableIsArray`), hence `Hdf5Holds`;
  - coverages are rounded shares, and rounding keeps their order, which makes the
    two ways to take the least one agree (`LeastShare`). A mean is rounded three
    times on its way through Silver, in the file, in each partial sum and in the
    quotient. The difference is at most a decimal plus the spacing at the sum
    plus half the one at `One`, of which the property states the double:
    `InspectionMatches`;
  - the payload rows of a descriptor's magnetic sensors are a bijection, whatever
    sensors stand between them (`SensorsCounted`, `RowIsOfItsSensor`); the median
    of a row that never changes is its value, and the one number above all
    others of a row is not its median: `DerivedStays`;
  - rounding to a multiple never passes a multiple (`RoundedKeepsSides`). Where the
    spacing doubles there is a time that is a multiple of both spacings
    (`Threshold`), so order survives across it: `Times`.
- `CacheProofs`, `LineageProofs`: any processes, cache
  sizes, requests and producers. None of these properties is inductive, since
  a step copies a cache entry that was filled any number of calls ago.
  `CacheInv` types every entry by its key (what is stored for a path and columns
  came from that path and those columns), bounds each cache, and says of a call
  in progress that every array it has is its own. `LineageInv` adds that no
  entry and no array is of a version the disk has not reached, that what a
  call has read exists, and that an array of a process' first call is not older
  than the digests taken at its start; with the digests equal at both ends the
  version read is squeezed between them. `CurrentInv` says that as long as
  nothing was written over, whatever a cache, a call or a result holds is what
  the disk holds, so that two results of one request cannot differ.
  `OrderInv` follows the order of columns through both caches: as long as
  nothing was rewritten, or for a file that is whole and of the version it had
  when the first call of the process began (`Steady`), there is one layout, so
  that a schema and columns of it, cached at whatever moments, agree. Hence
  `OrdersKept`.

The assumptions are `GateAssumption`, `UniverseAssumption`,
`PipelineAssumption` (types of the constants, null values that are no documents
or file contents, Silver not among the Gold paths, every format writes at least one file),
`ProjectionAssumption` (types of the requests; the release band's limit on
missing frames is not above 100 %, as in configs/qa_thresholds.yaml),
`SubframeAssumption` and `CacheAssumption` (types of the constants) and
`FormatAssumption` (a table has one stream per device and id, no more channels than
there are column suffixes and no number at a gap; suffixes differ from each other
and from `valid` and `confidence`, as `c000`, `c001` do; a descriptor keeps its
sensors by id; NaN is no cell and no proxy). TLC evaluates them on every instance. `Serialised` is assumed where
stated.

Induction over a recursive function is done with sets: a property is given as the
set of the numbers that have it (`SetInduction`), and that the equation of the
function has a solution is shown first (`IndicesUpTo`, `PowerSolution`).

Only model-checked: `EveryRunEnds`, which is liveness, and the sums of samples
(`SumFunctionOnSet`), which the proofs compare as whole terms and never compute.

## 6. Not modelled

- Hooks: `authorize` always says yes, `watermark` returns a label.
- The Session of a bundle, which `materialize` loads and never saves: the records
  are memory of the caller, and no stored state exists to check.
- Exporter options (the lerobot layout, HDF5 compression), schema metadata that
  repeats labels, value ranges in summaries, the size of the proxies, float64
  rounding.
- Wording, JSON and Markdown layout, YAML loading, option parsing.
- SentrixSync, `sentrix_contracts`, pyarrow, h5py, mcap, cryptography.

## 7. Plan

Done: the gate; Pipeline with its failures, refinement and proofs; readers
beside it; the contents of the formats; Projection and the bursts; PayloadCache.
Every invariant and action property that a passing run checks is proved. Left, in this
order:

1. Proofs: that the export loop of `GoldFormats` writes the files that `Exporters`
   lists.
2. `MerkleTree`: the tree over small lists of digests, to say what the set of
   digests loses (a duplicated last leaf).
3. Contents by format and options in `Pipeline`, so that two lerobot layouts
   share a directory.
