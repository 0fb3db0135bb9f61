---- MODULE Projection ----
(***************************************************************************)
(* From a SyncResult to a verdict: project() applies the join indices of   *)
(* the timeline to the resolved payloads, stream by stream, and folds the  *)
(* confidence; write_silver flattens the table; the four check modules     *)
(* look at it; release_gate turns checks and metrics into the verdict.     *)
(* Everything here happens inside one call of Pipeline.run, in memory.     *)
(*                                                                         *)
(* A payload is its number of rows: row i holds the value 2 * i, so that   *)
(* half-way blends are integers. A confidence of 1.0 is the integer 1.     *)
(* Ratios are in per mille, rounded down.                                  *)
(***************************************************************************)
EXTENDS ReleaseGate, Sequences, FiniteSets, FiniteSetsExt, TLC

CONSTANTS
    Requests,   \* what run() is called with; see RequestType
    NoConf      \* the SyncResult has no confidence for this stream

Kernels == {"hold", "continuous"}
Components == {"source", "clock", "interpolation"}

\* What stands between a stream key and its payload array. "misshapen": the
\* file's columns do not make the declared payload_shape (and it has a row).
\* "flat_one", "flat_many": the descriptor declares no payload_shape, and the
\* file has one column, or several, for the payload kind.
Supplies == {"fits", "no_descriptor", "no_source", "unreadable", "misshapen",
             "flat_one", "flat_many"}

\* A stream of the timeline over n grid points: its StreamAlignment, its
\* payload and its confidence. Indices are 0-based, -1 for none.
StreamType(n) ==
    [kernel : Kernels, src : [1..n -> Int], nxt : [1..n -> Int],
     weight : [1..n -> 0..2], valid : [1..n -> BOOLEAN], rows : Nat,
     supply : Supplies,
     conf : {NoConf} \cup [Components -> [1..n -> Metrics]]]

IsRequest(q) ==
    /\ q.grid \in Seq(Int)
    /\ q.rate \in Nat
    /\ q.streams \in Seq(StreamType(Len(q.grid)))
    /\ q.named \in BOOLEAN /\ q.clocked \in BOOLEAN /\ q.signed \in BOOLEAN
    /\ q.resid \in Metrics

\* A limit on a ratio asks for something.
ASSUME ProjectionAssumption ==
    /\ \A q \in Requests : IsRequest(q)
    /\ Release.missing <= 1000

VARIABLES
    request,   \* the SyncResult, its identity keys and the signing outcome
    pc,        \* "project", "silver", "check", "gate", "done" or "raised"
    table,     \* the CanonicalStreams built so far
    failed,    \* the checks that say "fail"
    verdict    \* QAReport.gate_verdict, "" before the gate

vars == <<request, pc, table, failed, verdict>>

Grid == 1..Len(request.grid)

----------------------------------------------------------------------------
(* project()                                                               *)

\* Seeded fault: the mask asks only for a source index.
IndexOnly(st, k) == st.src[k] >= 0

\* has_src, and `ok` of the hold kernel.
HasSource(st, k) == st.valid[k] /\ st.src[k] >= 0

HasBoth(st, k) == HasSource(st, k) /\ st.kernel = "continuous" /\ st.nxt[k] >= 0

\* NaN everywhere, then hold or blend where the masks allow.
Sample(st, k) ==
    CASE HasBoth(st, k) ->
             st.src[k] * (2 - st.weight[k]) + st.nxt[k] * st.weight[k]
      [] HasSource(st, k) /\ ~HasBoth(st, k) -> 2 * st.src[k]
      [] OTHER -> NaN

\* Seeded fault: the output is no longer than the payload.
AlignedToPayload(st) == [k \in {g \in Grid : g <= st.rows} |-> Sample(st, k)]

\* _apply_alignment
Aligned(st) == [k \in Grid |-> Sample(st, k)]

\* Fancy indexing raises IndexError past the last row of the payload.
IndicesFit(st) ==
    \A k \in Grid : /\ HasSource(st, k) => st.src[k] < st.rows
                    /\ HasBoth(st, k) => st.nxt[k] < st.rows

Times(x, y) == IF NaN \in {x, y} THEN NaN ELSE x * y

\* np.clip(x, 0, 1): NaN stays NaN.
Clip(x) == CASE x = NaN -> NaN [] x # NaN /\ x < 0 -> 0
             [] x # NaN /\ x > 1 -> 1 [] OTHER -> x

\* fold: the three components and the export scalar, ones when missing.
Folded(st) ==
    IF st.conf = NoConf
    THEN [c \in Components \cup {"scalar"} |-> [k \in Grid |-> 1]]
    ELSE [c \in Components \cup {"scalar"} |->
             IF c \in Components THEN st.conf[c]
             ELSE [k \in Grid |-> Clip(Times(Times(st.conf["source"][k],
                                                   st.conf["clock"][k]),
                                             st.conf["interpolation"][k]))]]

\* `shaped`: values.shape[1:] is the declared shape. `flattens`: width, the
\* product of that shape, is the number of columns.
CanonicalStream(st) ==
    [values |-> Aligned(st), valid |-> st.valid, conf |-> Folded(st),
     shaped |-> st.supply = "fits", flattens |-> st.supply # "flat_many"]

Supplied(st) == st.supply \in {"fits", "flat_one", "flat_many"}

NextStream == request.streams[Len(table) + 1]

\* One iteration of project()'s loop over timeline.per_stream.
ProjectStream ==
    /\ pc = "project"
    /\ Len(table) < Len(request.streams)
    /\ IF Supplied(NextStream) /\ IndicesFit(NextStream)
       THEN pc' = pc /\ table' = Append(table, CanonicalStream(NextStream))
       ELSE pc' = "raised" /\ UNCHANGED table
    /\ UNCHANGED <<request, failed, verdict>>

ProjectReturns ==
    /\ pc = "project"
    /\ Len(table) = Len(request.streams)
    /\ pc' = "silver"
    /\ UNCHANGED <<request, table, failed, verdict>>

\* write_silver: flat_values() reshapes [n_grid, columns] to [n_grid, width].
WriteSilver ==
    /\ pc = "silver"
    /\ pc' = IF \A i \in DOMAIN table : table[i].flattens \/ Grid = {}
             THEN "check" ELSE "raised"
    /\ UNCHANGED <<request, table, failed, verdict>>

----------------------------------------------------------------------------
(* The checks: the names that say "fail".                                  *)

Steps == [k \in 1..(Len(request.grid) - 1) |-> request.grid[k + 1] - request.grid[k]]

\* Twice the median of a sequence of integers.
TwiceMedian(steps) ==
    LET s == SortSeq(steps, LAMBDA x, y : x < y)
        m == Len(s)
    IN  s[(m + 1) \div 2] + s[m \div 2 + 1]

\* grid_rate_hz, or else _infer_rate, is positive.
RatePositive == request.rate > 0 \/ (Len(request.grid) > 1 /\ TwiceMedian(Steps) > 0)

\* dt.min() >= 1 and dt.max() <= 2 * dt.min()
StepsBounded ==
    \A j, k \in DOMAIN Steps : Steps[k] >= 1 /\ Steps[j] <= 2 * Steps[k]

\* Seeded fault: only the export scalar is looked at, which is clipped.
ScalarInUnit(s) == \A k \in Grid : s.conf["scalar"][k] \in {NaN, 0, 1}

\* _in_unit of every component: nanmin and nanmax look past NaN, and an array
\* of nothing but NaN is not in the unit interval.
InUnit(s) ==
    \A c \in DOMAIN s.conf :
        LET numbers == {s.conf[c][k] : k \in Grid} \ {NaN}
        IN  Grid = {} \/ (numbers # {} /\ \A x \in numbers : 0 <= x /\ x <= 1)

\* np.any(confidence[invalid] != 0.0): NaN differs from 0.
ZeroAtGaps(s) == \A k \in Grid : s.valid[k] \/ s.conf["scalar"][k] = 0

NaNAtGaps(s) == \A k \in Grid : s.valid[k] \/ s.values[k] = NaN

Streams == {table[i] : i \in DOMAIN table}

FailsIf(check, condition) == {c \in {check} : condition}

\* check_schema. project() builds frame_index, and a version is always given.
CheckSchema ==
    UNION {FailsIf("grid_frame_index_aligned", FALSE),
           FailsIf("stream_shapes_consistent", \E s \in Streams : ~s.shaped),
           FailsIf("schema_version_present", FALSE)}

CheckTimeline ==
    UNION {FailsIf("grid_monotonic", \E k \in DOMAIN Steps : Steps[k] <= 0),
           FailsIf("bounded_step", ~StepsBounded),
           FailsIf("no_fabricated_gaps", \E s \in Streams : ~NaNAtGaps(s))}

CheckMetadata ==
    UNION {FailsIf("session_id_present", ~request.named),
           FailsIf("reference_clock_present", ~request.clocked),
           FailsIf("grid_rate_positive", ~RatePositive),
           FailsIf("has_streams", Streams = {})}

CheckConfidence ==
    UNION {FailsIf("confidence_in_unit_interval", \E s \in Streams : ~InUnit(s)),
           FailsIf("confidence_zero_at_gaps", \E s \in Streams : ~ZeroAtGaps(s))}

RunChecks ==
    /\ pc = "check"
    /\ failed' = UNION {CheckSchema, CheckTimeline, CheckMetadata, CheckConfidence}
    /\ pc' = "gate"
    /\ UNCHANGED <<request, table, verdict>>

----------------------------------------------------------------------------
(* release_gate()'s metrics.                                               *)

ValidPoints(s) == {k \in Grid : s.valid[k]}

\* CanonicalStream.coverage and CanonicalTable.coverage_min.
Coverage(s) == IF Grid = {} THEN 0
               ELSE (1000 * Cardinality(ValidPoints(s))) \div Len(request.grid)

CoverageMin == IF Streams = {} THEN 1000 ELSE Min({Coverage(s) : s \in Streams})

\* np.mean of f over a non-empty set: NaN as soon as one value is.
Mean(f, S) ==
    IF \E x \in S : f[x] = NaN THEN NaN
    ELSE SumFunctionOnSet(f, S) \div Cardinality(S)

StreamConfidence(s) ==
    Mean([k \in Grid |-> Times(1000, s.conf["scalar"][k])], ValidPoints(s))

\* _mean_confidence: over the streams that have a valid point.
MeanConfidence ==
    LET seen == {i \in DOMAIN table : ValidPoints(table[i]) # {}}
    IN  IF seen = {} THEN 0
        ELSE Mean([i \in seen |-> StreamConfidence(table[i])], seen)

TableEvidence ==
    [missing |-> 1000 - CoverageMin, resid |-> request.resid,
     conf |-> MeanConfidence, signed |-> request.signed, failed |-> failed,
     ceiling |-> request.ceiling]

RunGate ==
    /\ pc = "gate"
    /\ verdict' = Verdict(TableEvidence)
    /\ pc' = "done"
    /\ UNCHANGED <<request, table, failed>>

----------------------------------------------------------------------------
Init ==
    /\ request \in Requests
    /\ pc = "project"
    /\ table = <<>>
    /\ failed = {}
    /\ verdict = ""

Next == ProjectStream \/ ProjectReturns \/ WriteSilver \/ RunChecks \/ RunGate

Spec == Init /\ [][Next]_vars

----------------------------------------------------------------------------
(* Properties.                                                             *)

TypeOK ==
    /\ IsRequest(request)
    /\ pc \in {"project", "silver", "check", "gate", "done", "raised"}
    /\ Len(table) <= Len(request.streams)
    /\ \A i \in DOMAIN table :
           /\ table[i].values \in [Grid -> Metrics]
           /\ \A c \in DOMAIN table[i].conf : table[i].conf[c] \in [Grid -> Metrics]
    /\ failed \subseteq Checks
    /\ verdict \in GateVerdicts \cup {request.ceiling, ""}

\* The projector invents nothing: a gap of the timeline is NaN whatever
\* indices the alignment still carries there, any other value lies between
\* the two samples the join names, and is the first of them when the kernel
\* is hold or the join names no second (_apply_alignment).
NothingIsInvented ==
    \A i \in DOMAIN table : \A k \in Grid :
        LET st == request.streams[i]
            value == table[i].values[k]
            low == 2 * Min({st.src[k], st.nxt[k]})
            high == 2 * Max({st.src[k], st.nxt[k]})
        IN  value # NaN =>
                /\ st.valid[k]
                /\ value = 2 * st.src[k] \/ (low <= value /\ value <= high)
                /\ st.kernel = "hold" \/ st.nxt[k] < 0 => value = 2 * st.src[k]

\* Whatever SentrixSync hands over, a dataset the gate lets out has streams,
\* each of them covered somewhere and of its declared shape, a grid that
\* advances, NaN and confidence 0 at every gap, and every component of every
\* point in [0, 1]. No single check says so: nanmin overlooks a NaN component,
\* which must then surface in the mean or at the gap (check_*, release_gate).
PublishableTableIsHonest ==
    pc = "done" /\ OkToPublish(verdict) =>
        /\ table # <<>>
        /\ \A k \in DOMAIN Steps : Steps[k] > 0
        /\ \A s \in Streams :
               /\ s.shaped
               /\ ValidPoints(s) # {}
               /\ NaNAtGaps(s) /\ ZeroAtGaps(s)
               /\ \A c \in DOMAIN s.conf, k \in Grid : s.conf[c][k] \in 0..1
====
