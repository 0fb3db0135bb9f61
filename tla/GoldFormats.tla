---- MODULE GoldFormats ----
(***************************************************************************)
(* What write_silver and the six exporters put into their files for one    *)
(* canonical table, which of them refuse it, and what inspection reads     *)
(* back from Silver. Pipeline has the order of the files, this module what *)
(* is in them; what an exporter that raises leaves behind is Pipeline's    *)
(* WriteFails.                                                             *)
(*                                                                         *)
(* An id is the sequence of its dot-separated parts, so that joining names *)
(* with a dot is \o. A value is the cell it comes from: stream, frame and  *)
(* channel; a magnetic sensor's three axes are one channel, with one       *)
(* number. A file is what its columns, datasets or messages hold; metadata *)
(* that only repeats constants is left out. Times are in microseconds,     *)
(* confidences in units of which One make 1.0; float64 arithmetic on them  *)
(* is exact, float32 arithmetic is not.                                    *)
(***************************************************************************)
EXTENDS Integers, Sequences, FiniteSets, FiniteSetsExt, Functions

CONSTANTS
    Tables,        \* canonical tables with their session's devices: IsTable
    FormatLists,   \* MaterializationRequest.formats
    Descriptors,   \* topology_ref to a descriptor of sentrix_contracts
    Channel,       \* the column suffixes c000, c001, ...
    Batch,         \* _BATCH
    SingleBits,    \* significant bits of a float32
    MaxExponent,   \* and the largest exponent of its spacing
    One,           \* a confidence of 1.0
    Digit,         \* the last decimal that round(x, 6) keeps
    NaN, None

Ids == Seq(STRING) \ {<<>>}

Suffix == {Channel[j] : j \in DOMAIN Channel}

\* A frame that is valid has no number in a channel that its source sample
\* has none in, and in no channel when there is no source sample for it.
IsTable(t) ==
    /\ t.grid \in Seq(Int)
    /\ t.streams \in Seq([device : Ids, id : Ids, magnetic : BOOLEAN, width : DOMAIN Channel,
                          valid : [DOMAIN t.grid -> BOOLEAN], conf : [DOMAIN t.grid -> 0..One],
                          number : [DOMAIN t.grid -> [Suffix -> Int \cup {NaN}]]])
    /\ \A n \in DOMAIN t.streams, k \in DOMAIN t.grid :
           ~t.streams[n].valid[k] => \A x \in Suffix : t.streams[n].number[k][x] = NaN
    /\ \A m, n \in DOMAIN t.streams :
           t.streams[m].device = t.streams[n].device /\ t.streams[m].id = t.streams[n].id => m = n
    /\ \A d \in t.devices : d.ref \in DOMAIN Descriptors \cup {None}

\* A descriptor keeps its sensors and its clusters by id.
IsDescriptor(desc) ==
    /\ desc.sensors \in Seq([id : STRING, magnetic : BOOLEAN])
    /\ \A i, j \in DOMAIN desc.sensors : desc.sensors[i].id = desc.sensors[j].id => i = j
    /\ desc.clusters \in [DOMAIN desc.clusters -> SUBSET STRING]

ASSUME FormatAssumption ==
    /\ \A t \in Tables : IsTable(t)
    /\ \A ref \in DOMAIN Descriptors : IsDescriptor(Descriptors[ref])
    /\ FormatLists \subseteq Seq(STRING)
    /\ Channel \in Seq(STRING \ {"valid", "confidence"})
    /\ \A i, j \in DOMAIN Channel : Channel[i] = Channel[j] => i = j
    /\ {Batch, SingleBits, One, Digit} \subseteq Nat \ {0} /\ MaxExponent \in Nat
    /\ NaN \notin Nat \X Nat \X STRING
    /\ NaN \notin [response : SUBSET (Nat \X Nat \X STRING),
                   baseline : SUBSET (Nat \X Nat \X STRING),
                   centroid : SUBSET ((Nat \X Nat \X STRING) \cup {NaN})]

VARIABLES
    table,     \* the CanonicalTable, and the session it came from
    todo,      \* the formats still to export
    files,     \* path to contents
    results,   \* the ExportResults
    pc         \* "silver", "export" or "raised"

vars == <<table, todo, files, results, pc>>

----------------------------------------------------------------------------
(* CanonicalTable.                                                         *)

Frames == DOMAIN table.grid
Streams == DOMAIN table.streams
Channels(n) == {Channel[j] : j \in 1..table.streams[n].width}
Valid(n) == table.streams[n].valid
Conf(n) == table.streams[n].conf
ValidFrames(n) == {k \in Frames : Valid(n)[k]}
Number(n, k, x) == table.streams[n].number[k][x]

Cell(n, k, x) == IF Number(n, k, x) = NaN THEN NaN ELSE <<n, k, x>>
Values(n) == [k \in Frames |-> [x \in Channels(n) |-> Cell(n, k, x)]]

\* Seeded fault: the bare stream id, whatever the other devices expose.
BareName(n) == table.streams[n].id

\* feature_names
Name(n) ==
    LET st == table.streams[n]
    IN  IF \E m \in Streams \ {n} : table.streams[m].id = st.id
        THEN st.device \o st.id ELSE st.id

\* A dict of one entry, and a dict written over another.
Entry(c, value) == [x \in {c} |-> value]

Over(new, old) ==
    [x \in DOMAIN new \cup DOMAIN old |-> IF x \in DOMAIN new THEN new[x] ELSE old[x]]

\* A dict filled stream by stream: a name used twice keeps the later entry.
Filled(entries) ==
    [c \in UNION {DOMAIN entries[n] : n \in Streams} |->
        LET writer == Max({n \in Streams : c \in DOMAIN entries[n]})
        IN  entries[writer][c]]

\* The places a mask is true at, in order.
Indices(mask) ==
    LET upTo[k \in 0..Len(mask)] ==
            IF k = 0 THEN <<>>
            ELSE IF mask[k] THEN Append(upTo[k - 1], k) ELSE upTo[k - 1]
    IN  upTo[Len(mask)]

Samples(S) == SumFunctionOnSet([n \in S |-> Cardinality(ValidFrames(n))], S)

----------------------------------------------------------------------------
(* Rounding.                                                               *)

Power[e \in 0..(MaxExponent + SingleBits)] == IF e = 0 THEN 1 ELSE 2 * Power[e - 1]

\* Spacing of float32 numbers about t, not below a unit.
Ulp(t) ==
    LET size == IF t < 0 THEN -t ELSE t
    IN  Max({1} \cup {Power[e] : e \in {e \in 1..MaxExponent : Power[e + SingleBits - 1] <= size}})

\* a / b to the nearest multiple of u, half-way to the even one.
Nearest(a, b, u) ==
    LET low == a \div (b * u)
        rest == 2 * (a % (b * u))
    IN  IF rest < b * u \/ (rest = b * u /\ low % 2 = 0) THEN low * u ELSE (low + 1) * u

\* astype(np.float32)
Single(t) == Nearest(t, 1, Ulp(t))

\* A stream's confidence in every file but the replay log.
Stored(n) == [k \in Frames |-> Single(Conf(n)[k])]

----------------------------------------------------------------------------
(* Silver and parquet.                                                     *)

\* _stream_columns
StreamColumns(n) ==
    [c \in {Name(n) \o <<x>> : x \in Channels(n) \cup {"valid", "confidence"}} |->
        LET x == c[Len(c)]
        IN  IF x = "valid" THEN Valid(n)
            ELSE IF x = "confidence" THEN Stored(n)
            ELSE [k \in Frames |-> Cell(n, k, x)]]

\* build_arrow; stream_meta says which stream a name stands for.
SilverFile == [times |-> table.grid, columns |-> Filled([n \in Streams |-> StreamColumns(n)]),
               streams |-> Filled([n \in Streams |-> Entry(Name(n), n)])]

----------------------------------------------------------------------------
(* LeRobot and RLDS: one list-valued column for a stream.                  *)

Observed(n) == <<"observation">> \o Name(n)

ObservationColumns(n) ==
    Over(Entry(Observed(n), Values(n)), Entry(Observed(n) \o <<"confidence">>, Stored(n)))

\* (grid_us / 1e6).astype(np.float32), in microseconds again.
Timestamps == [k \in Frames |-> Single(table.grid[k])]

\* _features: the shapes that info.json declares.
Features(n) ==
    Over(Entry(Observed(n), table.streams[n].width), Entry(Observed(n) \o <<"confidence">>, 1))

LerobotFile == [columns |-> Filled([n \in Streams |-> ObservationColumns(n)]),
                timestamp |-> Timestamps,
                features |-> Filled([n \in Streams |-> Features(n)])]

\* is_first[0] is assigned for an empty grid too.
RldsRaises == Frames = {}

RldsFile == [columns |-> Filled([n \in Streams |-> ObservationColumns(n)]),
             first |-> [k \in Frames |-> k = 1],
             last |-> [k \in Frames |-> k = Len(table.grid)]]

----------------------------------------------------------------------------
(* HDF5: three datasets for a stream, filled in batches.                   *)

\* Seeded fault: only whole batches are written.
WholeBatches(n) == {s \in 0..(n - 1) : s % Batch = 0 /\ s + Batch <= n}

\* range(0, n, _BATCH)
Starts(n) == {s \in 0..(n - 1) : s % Batch = 0}

\* _stream_to_resizable: resize to the end of the batch, then fill it.
Resizable(array) ==
    LET n == Len(array)
        end(s) == Min({s + Batch, n})
    IN  [k \in 1..Max({0} \cup {end(s) : s \in Starts(n)}) |->
            IF \E s \in Starts(n) : s < k /\ k <= end(s) THEN array[k] ELSE 0]

Datasets(n) ==
    Over(Entry(Name(n), Resizable(Values(n))),
         Over(Entry(Name(n) \o <<"confidence">>, Resizable(Stored(n))),
              Entry(Name(n) \o <<"valid">>, Resizable(Valid(n)))))

\* create_dataset of a name that is there.
Hdf5Raises == \E m, n \in Streams : m # n /\ DOMAIN Datasets(m) \cap DOMAIN Datasets(n) # {}

Hdf5File == [obs |-> Filled([n \in Streams |-> Datasets(n)]), timestamp |-> Resizable(Timestamps)]

----------------------------------------------------------------------------
(* MCAP: a channel for a stream, a message for a valid frame.              *)

\* Seeded fault: the first frame is taken to be the earliest.
FirstTime == IF Frames = {} THEN 0 ELSE table.grid[1]

ReplayBase == IF Frames = {} THEN 0 ELSE Min({table.grid[k] : k \in Frames})

Message(n, k) ==
    [log |-> (table.grid[k] - ReplayBase) * 1000, time |-> table.grid[k],
     value |-> Values(n)[k], conf |-> Conf(n)[k]]

Messages(n) ==
    LET frames == Indices(Valid(n))
    IN  [m \in DOMAIN frames |-> Message(n, frames[m])]

McapFile == [n \in Streams |-> [topic |-> Name(n), messages |-> Messages(n)]]

\* log_time is unsigned.
McapRaises == \E n \in Streams : \E m \in DOMAIN Messages(n) : Messages(n)[m].log < 0

----------------------------------------------------------------------------
(* derived: features of the magnetic streams, cluster by cluster.          *)

Magnetic == {n \in Streams : table.streams[n].magnetic}

\* _topology_provenance: devices that declare a descriptor or its hash.
Topology == {d \in table.devices : d.ref # None \/ d.hash # None}

\* _topology_ref_for
TopologyRef(device) ==
    IF \E d \in Topology : d.device = device
    THEN (CHOOSE d \in Topology : d.device = device).ref ELSE None

\* Seeded fault: every sensor counts for the payload index.
AllSensors(desc) == desc.sensors

\* mags: the descriptor's magnetic sensors, in the payload's order.
MagneticSensors(desc) ==
    LET rows == Indices([j \in DOMAIN desc.sensors |-> desc.sensors[j].magnetic])
    IN  [i \in DOMAIN rows |-> desc.sensors[rows[i]]]

RowOf(desc, id) ==
    Channel[CHOOSE j \in DOMAIN MagneticSensors(desc) : MagneticSensors(desc)[j].id = id]

MagneticIds(desc) == {desc.sensors[j].id : j \in {j \in DOMAIN desc.sensors : desc.sensors[j].magnetic}}

\* Cluster ids to payload rows: every cluster that has a magnetic member, or
\* else each magnetic sensor by itself.
Clusters(desc) ==
    LET members(c) == desc.clusters[c] \cap MagneticIds(desc)
        grouped == {c \in DOMAIN desc.clusters : members(c) # {}}
    IN  IF grouped # {}
        THEN [c \in grouped |-> {RowOf(desc, id) : id \in members(c)}]
        ELSE [id \in MagneticIds(desc) |-> {RowOf(desc, id)}]

Descriptor(n) == Descriptors[TopologyRef(table.streams[n].device)]

\* No magnetic stream, no descriptor for one, or another number of sensors.
DerivedRaises ==
    \/ Magnetic = {}
    \/ \E n \in Magnetic :
           \/ TopologyRef(table.streams[n].device) = None
           \/ Cardinality(MagneticIds(Descriptor(n))) # table.streams[n].width

\* The frames at which a payload row has a number.
Numbered(n, x) == {k \in Frames : Number(n, k, x) # NaN}

\* Twice np.nanmedian of a row: the lower and the upper middle of its numbers.
TwiceMedian(n, x) ==
    LET F == Numbered(n, x)
        value(k) == Number(n, k, x)
        half(S) == 2 * Cardinality(S) >= Cardinality(F)
    IN  Min({value(k) : k \in {k \in F : half({g \in F : value(g) <= value(k)})}})
        + Max({value(k) : k \in {k \in F : half({g \in F : value(k) <= value(g)})}})

\* The rows with a response at frame k, a distance from the baseline.
Pulling(n, rows, k) == {x \in rows : 2 * Number(n, k, x) # TwiceMedian(n, x)}

\* The cells behind the six proxies of some rows at frame k. Means and norms
\* over the rows are NaN when one of them is; the centroid, weighted by the
\* responses, is 0 / 0 when there is none.
Proxies(n, rows, k) ==
    IF \E x \in rows : Number(n, k, x) = NaN THEN NaN
    ELSE [response |-> {Cell(n, k, x) : x \in rows},
          baseline |-> UNION {{Cell(n, g, x) : g \in Numbered(n, x)} : x \in rows},
          centroid |-> IF Pulling(n, rows, k) = {} THEN {NaN}
                       ELSE {Cell(n, k, x) : x \in Pulling(n, rows, k)}]

DerivedPath(n) ==
    IF Cardinality(Magnetic) > 1
    THEN <<"derived">> \o table.streams[n].device ELSE <<"derived">>

\* Streams of one device share a path, where the last one stays.
DerivedFiles ==
    [path \in {DerivedPath(n) : n \in Magnetic} |->
        LET n == Max({m \in Magnetic : DerivedPath(m) = path})
        IN  [device |-> table.streams[n].device,
             columns |-> [c \in DOMAIN Clusters(Descriptor(n)) |->
                [k \in Frames |-> Proxies(n, Clusters(Descriptor(n))[c], k)]]]]

----------------------------------------------------------------------------
(* Inspection.                                                             *)

\* Seeded fault: the confidence is averaged over the gaps too.
AllFrames(file, name) == DOMAIN file.times

SeenFrames(file, name) ==
    {k \in DOMAIN file.times : file.columns[name \o <<"valid">>][k]}

\* np.sum over some frames: of float32 numbers every partial sum is one, too.
SumOver(array, S, dtype) ==
    LET upTo[k \in 0..Len(array)] ==
            IF k = 0 THEN 0
            ELSE IF k \notin S THEN upTo[k - 1]
            ELSE IF dtype = "float32" THEN Single(upTo[k - 1] + array[k])
            ELSE upTo[k - 1] + array[k]
    IN  upTo[Len(array)]

\* round(float(np.mean(...)), 6), of float64 and of float32 numbers.
Mean(array, S) ==
    IF S = {} THEN 0 ELSE Nearest(SumOver(array, S, "float64"), Cardinality(S), Digit)

SingleMean(array, S) ==
    LET sum == SumOver(array, S, "float32")
        mean == Nearest(sum, Cardinality(S), Ulp(sum \div Cardinality(S)))
    IN  IF S = {} THEN 0 ELSE Nearest(mean, 1, Digit)

Share(count, n) == IF n = 0 THEN 0 ELSE Nearest(One * count, n, Digit)

\* summarize_dataset, from the file alone.
SummaryOfSilver(file) ==
    LET n == Len(file.times)
        confidence(name) == file.columns[name \o <<"confidence">>]
        valid(name) == {k \in 1..n : file.columns[name \o <<"valid">>][k]}
        streams == [name \in DOMAIN file.streams |->
                       [device |-> table.streams[file.streams[name]].device,
                        coverage |-> Share(Cardinality(valid(name)), n),
                        confidence |-> SingleMean(confidence(name), SeenFrames(file, name))]]
    IN  [n_grid |-> n, streams |-> streams,
         coverage_min |-> IF DOMAIN streams = {} THEN One
                          ELSE Min({streams[c].coverage : c \in DOMAIN streams})]

\* summarize_canonical, from the table in memory.
SummaryOfTable ==
    LET count(n) == Cardinality(ValidFrames(n))
    IN  [n_grid |-> Len(table.grid),
         streams |-> Filled([n \in Streams |-> Entry(Name(n),
             [device |-> table.streams[n].device, coverage |-> Share(count(n), Len(table.grid)),
              confidence |-> Mean(Conf(n), ValidFrames(n))])]),
         coverage_min |-> IF Streams = {} THEN One
                          ELSE Share(Min({count(n) : n \in Streams}), Len(table.grid))]

----------------------------------------------------------------------------
(* The export loop of run().                                               *)

Init ==
    /\ table \in Tables
    /\ todo \in FormatLists
    /\ files = [path \in {} |-> None]
    /\ results = <<>>
    /\ pc = "silver"

WriteSilver ==
    /\ pc = "silver"
    /\ files' = Entry(<<"silver">>, SilverFile)
    /\ pc' = "export"
    /\ UNCHANGED <<table, todo, results>>

Turn(format) == pc = "export" /\ todo # <<>> /\ Head(todo) = format

Refuse == pc' = "raised" /\ UNCHANGED <<table, todo, files, results>>

\* The exporter writes its files and returns an ExportResult.
Deliver(written, samples) ==
    /\ files' = Over(written, files)
    /\ results' = Append(results, [format |-> Head(todo), frames |-> Len(table.grid),
                                   samples |-> samples])
    /\ todo' = Tail(todo)
    /\ UNCHANGED <<table, pc>>

ExportParquet ==
    Turn("parquet") /\ Deliver(Entry(<<"parquet">>, SilverFile), Samples(Streams))

ExportLerobot ==
    Turn("lerobot") /\ Deliver(Entry(<<"lerobot">>, LerobotFile), Samples(Streams))

ExportRlds ==
    /\ Turn("rlds")
    /\ IF RldsRaises THEN Refuse
       ELSE Deliver(Entry(<<"rlds">>, RldsFile), Samples(Streams))

ExportHdf5 ==
    /\ Turn("hdf5")
    /\ IF Hdf5Raises THEN Refuse
       ELSE Deliver(Entry(<<"hdf5">>, Hdf5File), Samples(Streams))

\* sample_count counts the messages.
ExportMcap ==
    /\ Turn("mcap")
    /\ IF McapRaises THEN Refuse
       ELSE Deliver(Entry(<<"mcap">>, McapFile),
                    SumFunctionOnSet([n \in Streams |-> Len(Messages(n))], Streams))

ExportDerived ==
    /\ Turn("derived")
    /\ IF DerivedRaises THEN Refuse ELSE Deliver(DerivedFiles, Samples(Magnetic))

Registered == {"derived", "hdf5", "lerobot", "mcap", "parquet", "rlds"}

\* get_exporter raises KeyError.
ExportUnknown ==
    /\ pc = "export" /\ todo # <<>> /\ Head(todo) \notin Registered
    /\ Refuse

Next == \/ WriteSilver \/ ExportParquet \/ ExportLerobot \/ ExportRlds
        \/ ExportHdf5 \/ ExportMcap \/ ExportDerived \/ ExportUnknown

Spec == Init /\ [][Next]_vars

----------------------------------------------------------------------------
(* Properties.                                                             *)

\* Ids without a dot that are not called like a column suffix.
PlainIds ==
    \A n \in Streams : LET st == table.streams[n] IN
        Len(st.device) = 1 /\ Len(st.id) = 1 /\ st.id \notin {<<"valid">>, <<"confidence">>}

UniqueNames == \A m, n \in Streams : Name(m) = Name(n) => m = n

Written(path) == path \in DOMAIN files

\* Whatever streams share ids across devices, each stream is found under its
\* own name in every columnar file and in the replay log, with its values,
\* gaps and confidence, the latter to float32 precision but in the log, and no
\* other stream has written over it; RLDS marks one first and one last step;
\* all full formats report one sample count (feature_names, build_arrow,
\* _features, export; ids as PlainIds).
EveryFormatHoldsTheTable ==
    PlainIds =>
        /\ \A n \in Streams :
            /\ \A path \in {<<"silver">>, <<"parquet">>} : Written(path) =>
                LET column(x) == files[path].columns[Name(n) \o <<x>>]
                IN  /\ column("valid") = Valid(n) /\ column("confidence") = Stored(n)
                    /\ \A x \in Channels(n), k \in Frames : column(x)[k] = Cell(n, k, x)
            /\ \A path \in {<<"lerobot">>, <<"rlds">>} : Written(path) =>
                LET observed == files[path].columns
                IN  /\ observed[Observed(n)] = Values(n)
                    /\ observed[Observed(n) \o <<"confidence">>] = Stored(n)
            /\ Written(<<"lerobot">>) =>
                files[<<"lerobot">>].features[Observed(n)] = table.streams[n].width
            /\ Written(<<"mcap">>) =>
                LET channels == {c \in Streams : files[<<"mcap">>][c].topic = Name(n)}
                    log == files[<<"mcap">>][n].messages
                    place(k) == Cardinality({g \in ValidFrames(n) : g <= k})
                IN  /\ channels = {n} /\ Len(log) = Cardinality(ValidFrames(n))
                    /\ \A k \in ValidFrames(n) :
                           /\ log[place(k)].time = table.grid[k]
                           /\ log[place(k)].value = Values(n)[k]
                           /\ log[place(k)].conf = Conf(n)[k]
        /\ Written(<<"rlds">>) => \A flag \in {"first", "last"} :
               Cardinality({k \in Frames : files[<<"rlds">>][flag][k]}) = 1
        /\ \A i, j \in {i \in DOMAIN results : results[i].format # "derived"} :
               results[i].samples = results[j].samples

\* The datasets of an HDF5 file have the length of the grid and hold it to
\* the last frame, at every remainder of the grid by the batch and for an
\* empty grid, and plain ids never make create_dataset refuse a name
\* (_stream_to_resizable, Hdf5Exporter.export).
Hdf5HoldsTheTable ==
    PlainIds =>
        /\ Written(<<"hdf5">>) =>
            LET obs == files[<<"hdf5">>].obs
            IN  /\ Len(files[<<"hdf5">>].timestamp) = Len(table.grid)
                /\ \A n \in Streams :
                    /\ obs[Name(n)] = Values(n)
                    /\ obs[Name(n) \o <<"confidence">>] = Stored(n)
                    /\ obs[Name(n) \o <<"valid">>] = Valid(n)
        /\ pc = "raised" => Head(todo) # "hdf5"

\* What a reader computes from Silver is what the engine says of its table:
\* the names, the coverage and its minimum exactly, with empty grids, streams
\* without a valid frame and tables without streams, and the mean confidence,
\* which Silver rounds to float32 and a reader adds up in float32, to one
\* decimal and the spacing of float32 at the sum (summarize_dataset against
\* summarize_canonical).
InspectionMatchesTheTable ==
    pc # "silver" /\ UniqueNames =>
        LET read == SummaryOfSilver(files[<<"silver">>])
            told == SummaryOfTable
        IN  /\ read.n_grid = told.n_grid
            /\ read.coverage_min = told.coverage_min
            /\ DOMAIN read.streams = DOMAIN told.streams
            /\ \A n \in Streams :
                LET seen == read.streams[Name(n)]
                    known == told.streams[Name(n)]
                    sum == SumOver(Stored(n), ValidFrames(n), "float32")
                    bound == 2 * Digit + 2 * Ulp(sum) + Ulp(One)
                IN  /\ seen.device = known.device
                    /\ seen.coverage = known.coverage
                    /\ 2 * (seen.confidence - known.confidence) <= bound
                    /\ 2 * (known.confidence - seen.confidence) <= bound

\* Replay accepts every grid, negative and unordered ones included: log times
\* are not negative and keep the spacing of all streams' frames. LeRobot and
\* HDF5 time stamps, float32 seconds that nothing is subtracted from, never
\* swap two frames, and tell them apart as long as the grid's step is above
\* the spacing of float32 there (McapExporter.export, timestamp).
TimesSurvive ==
    /\ pc = "raised" => Head(todo) # "mcap"
    /\ Written(<<"mcap">>) =>
        LET messages == UNION {{files[<<"mcap">>][n].messages[m] :
                                   m \in DOMAIN files[<<"mcap">>][n].messages} : n \in Streams}
        IN  \A a, b \in messages : /\ a.log >= 0
                                   /\ a.log - b.log = 1000 * (a.time - b.time)
    /\ Written(<<"lerobot">>) => \A j, k \in Frames :
        LET stamp == files[<<"lerobot">>].timestamp
            step == table.grid[k] - table.grid[j]
        IN  /\ step >= 0 => stamp[j] <= stamp[k]
            /\ step > Max({Ulp(table.grid[j]), Ulp(table.grid[k])}) => stamp[j] < stamp[k]

\* The sensor whose samples a payload row holds: magnetic sensors in order.
SensorOf(desc, x) ==
    {id \in MagneticIds(desc) : \E j \in DOMAIN desc.sensors :
        /\ desc.sensors[j].id = id
        /\ x = Channel[Cardinality({i \in 1..j : desc.sensors[i].magnetic})]}

SensorsIn(desc, cells) == UNION {SensorOf(desc, cell[3]) : cell \in cells}

\* The magnetic sensors of a cluster, or the sensor by itself when no cluster
\* has one.
MagneticOf(desc, c) == desc.clusters[c] \cap MagneticIds(desc)

Grouped(desc) == UNION {MagneticOf(desc, c) : c \in DOMAIN desc.clusters}

Members(desc, c) == IF Grouped(desc) = {} THEN {c} ELSE MagneticOf(desc, c)

\* A sensor has a number at a frame, the same as at all its others, or one
\* above them.
Has(n, id, k) ==
    \E x \in Channels(n) : id \in SensorOf(Descriptor(n), x) /\ Number(n, k, x) # NaN

Steady(n, id, k) ==
    \E x \in Channels(n) :
        /\ id \in SensorOf(Descriptor(n), x)
        /\ \A g \in Numbered(n, x) \ {k} : Number(n, g, x) = Number(n, k, x)

Peak(n, id, k) ==
    \E x \in Channels(n) :
        /\ id \in SensorOf(Descriptor(n), x) /\ Numbered(n, x) \ {k} # {}
        /\ \A g \in Numbered(n, x) \ {k} : Number(n, g, x) < Number(n, k, x)

ProxyOf(proxy, n, ids, k) ==
    LET pulls == proxy.centroid \ {NaN}
        sensors(cells) == SensorsIn(Descriptor(n), cells)
    IN  /\ proxy = NaN <=> \E id \in ids : ~Has(n, id, k)
        /\ proxy # NaN =>
            /\ Valid(n)[k]
            /\ sensors(proxy.response) = ids
            /\ sensors(proxy.baseline) = ids
            /\ \A cell \in proxy.baseline : cell[1] = n
            /\ \A cell \in proxy.response \cup pulls : cell[1] = n /\ cell[2] = k
            /\ sensors(pulls) \subseteq {id \in ids : ~Steady(n, id, k)}
            /\ {id \in ids : Peak(n, id, k)} \subseteq sensors(pulls)
            /\ NaN \in proxy.centroid <=> pulls = {}

\* Each derived file is one magnetic stream's, the last one's where a device
\* has several, with a column group for each cluster that has a magnetic
\* sensor. A proxy is NaN exactly when a sensor of its cluster has no number
\* at the frame, as at every gap, and else made from this stream's samples of
\* these sensors alone, its response from those of its own frame. A sensor
\* that never changes does not pull the centroid, which is NaN when none
\* does, and one above all its other samples does pull (DerivedExporter.export,
\* _features; payload rows in the descriptor's order, as derived.py assumes).
DerivedStaysInItsCluster ==
    "derived" \in {results[i].format : i \in DOMAIN results} =>
    \A path \in {DerivedPath(m) : m \in Magnetic} :
        LET n == Max({m \in Magnetic : DerivedPath(m) = path})
            desc == Descriptor(n)
            columns == files[path].columns
        IN  /\ files[path].device = table.streams[n].device
            /\ UNION {Members(desc, c) : c \in DOMAIN columns}
                   = IF Grouped(desc) = {} THEN MagneticIds(desc) ELSE Grouped(desc)
            /\ \A c \in DOMAIN columns, k \in Frames :
                   ProxyOf(columns[c][k], n, Members(desc, c), k)

----------------------------------------------------------------------------
(* An inductive invariant: a file that is there was written from the table *)
(* by an exporter that accepts it.                                         *)

Holds(path, contents) == Written(path) => files[path] = contents

FilesHold ==
    /\ Holds(<<"silver">>, SilverFile)
    /\ Holds(<<"parquet">>, SilverFile)
    /\ Holds(<<"lerobot">>, LerobotFile)
    /\ Holds(<<"rlds">>, RldsFile)
    /\ Holds(<<"hdf5">>, Hdf5File)
    /\ Holds(<<"mcap">>, McapFile)
    /\ "derived" \in {results[i].format : i \in DOMAIN results} =>
           \A path \in DOMAIN DerivedFiles : Written(path) /\ files[path] = DerivedFiles[path]

RefusalsHold ==
    /\ Written(<<"rlds">>) => ~RldsRaises
    /\ "derived" \in {results[i].format : i \in DOMAIN results} => ~DerivedRaises
    /\ pc = "raised" =>
           /\ Head(todo) = "hdf5" => Hdf5Raises
           /\ Head(todo) = "mcap" => McapRaises

ResultsHold ==
    /\ results \in Seq([format : STRING, frames : Nat,
                        samples : {Samples(Streams), Samples(Magnetic)}])
    /\ \A i \in DOMAIN results :
           results[i].format # "derived" => results[i].samples = Samples(Streams)

FilesInv ==
    /\ table \in Tables
    /\ todo \in Seq(STRING)
    /\ pc \in {"silver", "export", "raised"}
    /\ pc = "silver" => results = <<>>
    /\ pc # "silver" => Written(<<"silver">>)
    /\ FilesHold /\ RefusalsHold /\ ResultsHold
====
