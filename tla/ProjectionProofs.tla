---- MODULE ProjectionProofs ----
(***************************************************************************)
(* Proofs about Projection and Subframe, for any grid, any streams, any    *)
(* indices a timeline may carry, any thresholds, and any frames and rates. *)
(***************************************************************************)
EXTENDS Subframe, InductionLemmas, FiniteSetTheorems, SequenceTheorems, TLAPS

----------------------------------------------------------------------------
(* One stream.                                                             *)

LEMMA RequestType ==
    ASSUME NEW q \in Requests
    PROVE  /\ IsRequest(q)
           /\ Len(q.grid) \in Nat
           /\ q.streams \in Seq(StreamType(Len(q.grid)))
           /\ Len(q.streams) \in Nat
           /\ DOMAIN q.streams = 1..Len(q.streams)
           /\ \A i \in 1..Len(q.streams) : q.streams[i] \in StreamType(Len(q.grid))
    <1>1. IsRequest(q)
        BY ProjectionAssumption
    <1>2. q.grid \in Seq(Int) /\ q.streams \in Seq(StreamType(Len(q.grid)))
        BY <1>1 DEF IsRequest
    <1> QED BY <1>1, <1>2, LenProperties, ElementOfSeq

Between(v, x, y) == (x <= v /\ v <= y) \/ (y <= v /\ v <= x)

\* A grid point of the table is NaN, held, or blended from two samples.
LEMMA SampleProperties ==
    ASSUME request \in Requests, NEW st \in StreamType(Len(request.grid)), NEW k \in Grid
    PROVE  /\ Sample(st, k) \in Metrics
           /\ Sample(st, k) # NaN => st.valid[k]
           /\ Sample(st, k) # NaN /\ (st.kernel = "hold" \/ st.nxt[k] < 0) =>
                  Sample(st, k) = 2 * st.src[k]
           /\ Sample(st, k) # NaN => Between(Sample(st, k), 2 * st.src[k], 2 * st.nxt[k])
                                     \/ Sample(st, k) = 2 * st.src[k]
           /\ ~st.valid[k] => Sample(st, k) = NaN
    <1>1. /\ st.src[k] \in Int /\ st.nxt[k] \in Int /\ st.weight[k] \in 0..2
          /\ st.valid[k] \in BOOLEAN /\ st.kernel \in {"hold", "continuous"}
        BY DEF StreamType, Kernels, Grid
    <1>2. NaN \notin Int
        BY GateAssumption
    <1>3. CASE HasBoth(st, k)
        <2>1. /\ HasSource(st, k) /\ st.valid[k]
              /\ Sample(st, k) = st.src[k] * (2 - st.weight[k]) + st.nxt[k] * st.weight[k]
              /\ st.kernel # "hold" /\ st.nxt[k] >= 0
            BY <1>3 DEF HasBoth, HasSource, Sample
        <2>2. Sample(st, k) \in {2 * st.src[k], st.src[k] + st.nxt[k], 2 * st.nxt[k]}
            <3>1. \A a, b \in Int : /\ a * (2 - 0) + b * 0 = 2 * a
                                    /\ a * (2 - 1) + b * 1 = a + b
                                    /\ a * (2 - 2) + b * 2 = 2 * b
                OBVIOUS
            <3>2. st.weight[k] \in {0, 1, 2}
                BY <1>1
            <3> QED BY <1>1, <2>1, <3>1, <3>2
        <2>3. Sample(st, k) \in Int /\ Between(Sample(st, k), 2 * st.src[k], 2 * st.nxt[k])
            <3>1. \A a, b \in Int : \A v \in {2 * a, a + b, 2 * b} :
                      v \in Int /\ Between(v, 2 * a, 2 * b)
                BY DEF Between
            <3> QED BY <1>1, <2>2, <3>1
        <2>4. st.kernel # "hold" /\ ~(st.nxt[k] < 0)
            BY <1>1, <2>1
        <2> QED BY <2>1, <2>3, <2>4 DEF Metrics
    <1>4. CASE ~HasBoth(st, k) /\ HasSource(st, k)
        <2>1. Sample(st, k) = 2 * st.src[k] /\ st.valid[k]
            BY <1>4 DEF HasSource, Sample
        <2> QED BY <1>1, <2>1 DEF Metrics
    <1>5. CASE ~HasBoth(st, k) /\ ~HasSource(st, k)
        <2>1. Sample(st, k) = NaN
            BY <1>5 DEF Sample
        <2> QED BY <2>1 DEF Metrics
    <1>6. ~st.valid[k] => ~HasBoth(st, k) /\ ~HasSource(st, k)
        BY DEF HasBoth, HasSource
    <1> QED BY <1>3, <1>4, <1>5, <1>6

\* The folded confidence, by component.
LEMMA FoldedProperties ==
    ASSUME request \in Requests, NEW st \in StreamType(Len(request.grid))
    PROVE  /\ DOMAIN Folded(st) = Components \cup {"scalar"}
           /\ \A c \in Components \cup {"scalar"} : Folded(st)[c] \in [Grid -> Metrics]
           /\ \A c \in Components, k \in Grid :
                  Folded(st)[c][k] = NaN => Folded(st)["scalar"][k] = NaN
    <1>1. \A x, y \in Metrics : Times(x, y) \in Metrics
        BY DEF Times, Metrics
    <1>2. \A x \in Metrics : Clip(x) \in Metrics
        BY GateAssumption DEF Clip, Metrics
    <1>3. CASE st.conf = NoConf
        <2>1. Folded(st) = [c \in Components \cup {"scalar"} |-> [k \in Grid |-> 1]]
            BY <1>3 DEF Folded
        <2>2. 1 \in Metrics /\ 1 # NaN
            BY GateAssumption DEF Metrics
        <2> QED BY <2>1, <2>2
    <1>4. CASE st.conf # NoConf
        <2>1. st.conf \in [Components -> [Grid -> Metrics]]
            BY <1>4 DEF StreamType, Grid
        <2> DEFINE product(k) == Times(Times(st.conf["source"][k], st.conf["clock"][k]),
                                       st.conf["interpolation"][k])
        <2>2. \A k \in Grid : product(k) \in Metrics
            BY <1>1, <2>1 DEF Components
        <2>3. \A c \in Components, k \in Grid : st.conf[c][k] = NaN => product(k) = NaN
            BY DEF Times, Components
        <2>4. /\ DOMAIN Folded(st) = Components \cup {"scalar"}
              /\ \A c \in Components : Folded(st)[c] = st.conf[c]
              /\ Folded(st)["scalar"] = [k \in Grid |-> Clip(product(k))]
            BY <1>4 DEF Folded, Components
        <2>5. Clip(NaN) = NaN
            BY DEF Clip
        <2> HIDE DEF product
        <2>6. \A c \in Components \cup {"scalar"} : Folded(st)[c] \in [Grid -> Metrics]
            BY <1>2, <2>1, <2>2, <2>4
        <2> QED BY <2>3, <2>4, <2>5, <2>6
    <1> QED BY <1>3, <1>4

----------------------------------------------------------------------------
(* The inductive invariant: every stream of the table is what project()    *)
(* makes of the timeline's, and checks and verdict are of that table.      *)

Places == {"project", "silver", "check", "gate", "done", "raised"}

CanonicalStreams == {CanonicalStream(st) : st \in StreamType(Len(request.grid))}

AllChecks == UNION {CheckSchema, CheckTimeline, CheckMetadata, CheckConfidence}

TableInv ==
    /\ request \in Requests
    /\ pc \in Places
    /\ table \in Seq(CanonicalStreams)
    /\ Len(table) <= Len(request.streams)
    /\ \A i \in 1..Len(table) : table[i] = CanonicalStream(request.streams[i])
    /\ failed = IF pc \in {"gate", "done"} THEN AllChecks ELSE {}
    /\ verdict = IF pc = "done" THEN Verdict(TableEvidence) ELSE ""

\* Checks and evidence look at the request and the table alone.
LEMMA SameTable ==
    ASSUME UNCHANGED <<request, table>>
    PROVE  /\ CanonicalStreams' = CanonicalStreams
           /\ \A st : CanonicalStream(st)' = CanonicalStream(st)
           /\ AllChecks' = AllChecks
           /\ failed' = failed => TableEvidence' = TableEvidence
    <1>1. Grid' = Grid /\ Streams' = Streams /\ Steps' = Steps
        BY DEF Grid, Streams, Steps
    <1>2. \A st : CanonicalStream(st)' = CanonicalStream(st)
        BY <1>1 DEF CanonicalStream, Aligned, Folded
    <1>3. CanonicalStreams' = CanonicalStreams
        BY <1>1 DEF CanonicalStreams, CanonicalStream, Aligned, Folded, StreamType
    <1>4. RatePositive' = RatePositive /\ StepsBounded' = StepsBounded
        BY <1>1 DEF RatePositive, StepsBounded
    <1>5. AllChecks' = AllChecks
        BY <1>1, <1>4 DEF AllChecks, CheckSchema, CheckTimeline, CheckMetadata, CheckConfidence,
                          NaNAtGaps, InUnit, ZeroAtGaps
    <1>6. CoverageMin' = CoverageMin
        BY <1>1 DEF CoverageMin, Coverage, ValidPoints
    <1>7. MeanConfidence' = MeanConfidence
        BY <1>1 DEF MeanConfidence, StreamConfidence, ValidPoints
    <1>8. failed' = failed => TableEvidence' = TableEvidence
        BY <1>6, <1>7 DEF TableEvidence
    <1> QED BY <1>2, <1>3, <1>5, <1>8

LEMMA InitTableInv == Init => TableInv
    <1> SUFFICES ASSUME Init PROVE TableInv
        OBVIOUS
    <1>1. request \in Requests /\ pc = "project" /\ table = <<>> /\ failed = {} /\ verdict = ""
        BY DEF Init
    <1>2. table \in Seq(CanonicalStreams) /\ Len(table) = 0
        BY <1>1, EmptySeq
    <1>3. Len(request.streams) \in Nat
        BY <1>1, RequestType
    <1>4. Len(table) <= Len(request.streams)
        BY <1>2, <1>3
    <1>5. \A i \in 1..Len(table) : table[i] = CanonicalStream(request.streams[i])
        BY <1>2
    <1> QED BY <1>1, <1>2, <1>4, <1>5 DEF TableInv, Places

LEMMA NextTableInv == TableInv /\ [Next]_vars => TableInv'
    <1> SUFFICES ASSUME TableInv, [Next]_vars
                 PROVE  TableInv'
        OBVIOUS
    <1>1. CASE ProjectStream
        <2>1. /\ UNCHANGED <<request, failed, verdict>> /\ pc = "project"
              /\ pc' \in {"project", "raised"}
            BY <1>1 DEF ProjectStream
        <2>2. /\ CanonicalStreams' = CanonicalStreams
              /\ \A st : CanonicalStream(st)' = CanonicalStream(st)
            BY <2>1 DEF CanonicalStreams, CanonicalStream, Aligned, Folded, Grid, StreamType
        <2>3. CASE UNCHANGED table
            BY <2>1, <2>2, <2>3 DEF TableInv, Places
        <2>4. CASE table' = Append(table, CanonicalStream(NextStream))
            <3> DEFINE last == Len(table) + 1
            <3>0. /\ request \in Requests /\ table \in Seq(CanonicalStreams)
                  /\ Len(table) < Len(request.streams)
                BY <1>1 DEF TableInv, ProjectStream
            <3>1. Len(table) \in Nat /\ Len(request.streams) \in Nat /\ last <= Len(request.streams)
                BY <3>0, LenProperties, RequestType
            <3>2. NextStream = request.streams[last] /\ NextStream \in StreamType(Len(request.grid))
                BY <3>0, <3>1, RequestType DEF NextStream
            <3>3. CanonicalStream(NextStream) \in CanonicalStreams
                BY <3>2 DEF CanonicalStreams
            <3>4. /\ table' \in Seq(CanonicalStreams)
                  /\ Len(table') = last
                  /\ \A i \in 1..Len(table) : table'[i] = table[i]
                  /\ table'[last] = CanonicalStream(NextStream)
                <4> HIDE DEF last
                <4> QED BY <2>4, <3>0, <3>3, AppendProperties DEF last
            <3>5. \A i \in 1..Len(table') : table'[i] = CanonicalStream(request.streams[i])
                <4> TAKE i \in 1..Len(table')
                <4>1. CASE i = last
                    BY <3>2, <3>4, <4>1
                <4>2. CASE i # last
                    <5>1. i \in 1..Len(table)
                        BY <3>1, <3>4, <4>2
                    <5>2. table[i] = CanonicalStream(request.streams[i])
                        BY <5>1 DEF TableInv
                    <5> QED BY <3>4, <5>1, <5>2
                <4> QED BY <4>1, <4>2
            <3>6. request' \in Requests /\ pc' \in Places /\ Len(table') <= Len(request'.streams)
                BY <2>1, <3>0, <3>1, <3>4 DEF Places
            <3>7. table' \in Seq(CanonicalStreams)'
                BY <2>2, <3>4
            <3>8. \A i \in 1..Len(table') : table'[i] = CanonicalStream(request.streams[i])'
                BY <2>1, <2>2, <3>5
            <3>9. failed' = {} /\ verdict' = "" /\ pc' \notin {"gate", "done"}
                BY <2>1 DEF TableInv
            <3> QED BY <3>6, <3>7, <3>8, <3>9 DEF TableInv
        <2> QED BY <1>1, <2>3, <2>4 DEF ProjectStream
    <1>2. CASE ProjectReturns \/ WriteSilver \/ UNCHANGED vars
        <2>1. UNCHANGED <<request, table, failed, verdict>>
            BY <1>2 DEF ProjectReturns, WriteSilver, vars
        <2>2. \/ pc' = pc
              \/ pc \in {"project", "silver"} /\ pc' \in {"silver", "check", "raised"}
            BY <1>2 DEF ProjectReturns, WriteSilver, vars
        <2> QED BY <2>1, <2>2, SameTable DEF TableInv, Places
    <1>3. CASE RunChecks
        <2>1. /\ UNCHANGED <<request, table, verdict>> /\ pc = "check" /\ pc' = "gate"
              /\ failed' = AllChecks
            BY <1>3 DEF RunChecks, AllChecks
        <2> QED BY <2>1, SameTable DEF TableInv, Places
    <1>4. CASE RunGate
        <2>1. /\ UNCHANGED <<request, table, failed>> /\ pc = "gate" /\ pc' = "done"
              /\ verdict' = Verdict(TableEvidence)
            BY <1>4 DEF RunGate
        <2> QED BY <2>1, SameTable DEF TableInv, Places
    <1> QED BY <1>1, <1>2, <1>3, <1>4 DEF Next

\* TableInv holds in every reachable state.
THEOREM TableInvariant == Spec => []TableInv
    BY InitTableInv, NextTableInv, PTL DEF Spec

----------------------------------------------------------------------------
(* What the invariant gives.                                               *)

LEMMA TableStreams ==
    ASSUME TableInv
    PROVE  /\ request \in Requests
           /\ Len(request.grid) \in Nat /\ Len(request.streams) \in Nat
           /\ Len(table) \in Nat
           /\ DOMAIN table = 1..Len(table)
           /\ \A i \in DOMAIN table :
                  /\ request.streams[i] \in StreamType(Len(request.grid))
                  /\ table[i] = CanonicalStream(request.streams[i])
    <1>1. request \in Requests /\ table \in Seq(CanonicalStreams)
        BY DEF TableInv
    <1>2. /\ Len(request.grid) \in Nat /\ Len(request.streams) \in Nat
          /\ \A i \in 1..Len(request.streams) : request.streams[i] \in StreamType(Len(request.grid))
        BY <1>1, RequestType
    <1>3. Len(table) \in Nat /\ DOMAIN table = 1..Len(table)
        BY <1>1, LenProperties
    <1>4. /\ Len(table) <= Len(request.streams)
          /\ \A i \in 1..Len(table) : table[i] = CanonicalStream(request.streams[i])
        BY DEF TableInv
    <1>5. \A i \in DOMAIN table : i \in 1..Len(request.streams)
        BY <1>2, <1>3, <1>4
    <1> QED BY <1>1, <1>2, <1>3, <1>4, <1>5

LEMMA CanonicalStreamFields ==
    ASSUME NEW st
    PROVE  /\ CanonicalStream(st).values = Aligned(st)
           /\ CanonicalStream(st).valid = st.valid
           /\ CanonicalStream(st).conf = Folded(st)
           /\ CanonicalStream(st).shaped = (st.supply = "fits")
           /\ CanonicalStream(st).flattens = (st.supply # "flat_many")
    BY DEF CanonicalStream

LEMMA FailedAreChecks == AllChecks \subseteq Checks
    BY DEF AllChecks, CheckSchema, CheckTimeline, CheckMetadata, CheckConfidence, FailsIf, Checks

LEMMA VerdictRange == ASSUME NEW e PROVE Verdict(e) \in GateVerdicts \cup {e.ceiling}
    BY DEF Verdict, OwnVerdict, GateVerdicts

\* Every value of the table is a number or NaN on every grid point, every
\* failure has the name of a check, and every verdict is one of the four or
\* the one SentrixSync gave.
THEOREM TypeCorrect == Spec => []TypeOK
    <1>1. TableInv => TypeOK
        <2> SUFFICES ASSUME TableInv PROVE TypeOK
            OBVIOUS
        <2>1. IsRequest(request)
            BY TableStreams, RequestType
        <2>2. pc \in {"project", "silver", "check", "gate", "done", "raised"}
            BY DEF TableInv, Places
        <2>3. Len(table) <= Len(request.streams)
            BY DEF TableInv
        <2>4. ASSUME NEW i \in DOMAIN table
              PROVE  /\ table[i].values \in [Grid -> Metrics]
                     /\ \A c \in DOMAIN table[i].conf : table[i].conf[c] \in [Grid -> Metrics]
            <3> DEFINE st == request.streams[i]
            <3>1. /\ request \in Requests /\ st \in StreamType(Len(request.grid))
                  /\ table[i] = CanonicalStream(st)
                BY TableStreams
            <3> HIDE DEF st
            <3>2. table[i].values = Aligned(st) /\ table[i].conf = Folded(st)
                BY <3>1, CanonicalStreamFields
            <3>3. \A k \in Grid : Sample(st, k) \in Metrics
                BY <3>1, SampleProperties
            <3>4. Aligned(st) \in [Grid -> Metrics]
                BY <3>3 DEF Aligned
            <3> QED BY <3>1, <3>2, <3>4, FoldedProperties
        <2>5. failed \subseteq Checks
            BY FailedAreChecks DEF TableInv
        <2>6. verdict \in GateVerdicts \cup {request.ceiling, ""}
            <3>1. Verdict(TableEvidence) \in GateVerdicts \cup {TableEvidence.ceiling}
                BY VerdictRange
            <3>2. TableEvidence.ceiling = request.ceiling
                BY DEF TableEvidence
            <3>3. verdict \in {Verdict(TableEvidence), ""}
                BY DEF TableInv
            <3> QED BY <3>1, <3>2, <3>3
        <2> QED BY <2>1, <2>2, <2>3, <2>4, <2>5, <2>6 DEF TypeOK
    <1> QED BY <1>1, TableInvariant, PTL

LEMMA MinMaxOfPair ==
    ASSUME NEW x \in Int, NEW y \in Int
    PROVE  /\ Min({x, y}) \in {x, y} /\ Min({x, y}) <= x /\ Min({x, y}) <= y
           /\ Max({x, y}) \in {x, y} /\ Max({x, y}) >= x /\ Max({x, y}) >= y
    <1>1. \E m \in {x, y} : \A z \in {x, y} : m <= z
        OBVIOUS
    <1>2. \E m \in {x, y} : \A z \in {x, y} : m >= z
        OBVIOUS
    <1>3. Min({x, y}) \in {x, y} /\ \A z \in {x, y} : Min({x, y}) <= z
        BY <1>1 DEF Min
    <1>4. Max({x, y}) \in {x, y} /\ \A z \in {x, y} : Max({x, y}) >= z
        BY <1>2 DEF Max
    <1> QED BY <1>3, <1>4

\* The projector invents nothing: every value is a gap, a held sample or
\* lies between the two samples the join names.
THEOREM NothingInvented == Spec => []NothingIsInvented
    <1>1. TableInv => NothingIsInvented
        <2> SUFFICES ASSUME TableInv, NEW i \in DOMAIN table, NEW k \in Grid,
                            table[i].values[k] # NaN
                     PROVE  LET st == request.streams[i]
                                value == table[i].values[k]
                                low == 2 * Min({st.src[k], st.nxt[k]})
                                high == 2 * Max({st.src[k], st.nxt[k]})
                            IN  /\ st.valid[k]
                                /\ value = 2 * st.src[k] \/ (low <= value /\ value <= high)
                                /\ st.kernel = "hold" \/ st.nxt[k] < 0 => value = 2 * st.src[k]
            BY DEF NothingIsInvented
        <2> DEFINE st == request.streams[i]
                   value == table[i].values[k]
        <2>1. /\ request \in Requests /\ st \in StreamType(Len(request.grid))
              /\ table[i] = CanonicalStream(st)
            BY TableStreams
        <2>2. value = Sample(st, k)
            <3> HIDE DEF st
            <3>1. table[i].values = Aligned(st)
                BY <2>1, CanonicalStreamFields
            <3> QED BY <3>1 DEF Aligned
        <2>3. st.src[k] \in Int /\ st.nxt[k] \in Int
            BY <2>1 DEF StreamType, Grid
        <2>4. value # NaN
            OBVIOUS
        <2> HIDE DEF st, value
        <2>5. /\ st.valid[k]
              /\ st.kernel = "hold" \/ st.nxt[k] < 0 => value = 2 * st.src[k]
              /\ value \in Metrics
              /\ Between(value, 2 * st.src[k], 2 * st.nxt[k]) \/ value = 2 * st.src[k]
            BY <2>1, <2>2, <2>4, SampleProperties, Zenon
        <2>6. value = 2 * st.src[k] \/ (/\ 2 * Min({st.src[k], st.nxt[k]}) <= value
                                       /\ value <= 2 * Max({st.src[k], st.nxt[k]}))
            <3>1. value \in Int
                BY <2>4, <2>5 DEF Metrics
            <3>2. \A v, a, b, m, n \in Int :
                      m <= a /\ m <= b /\ n >= a /\ n >= b /\ Between(v, 2 * a, 2 * b)
                          => 2 * m <= v /\ v <= 2 * n
                BY DEF Between
            <3> DEFINE a == st.src[k]
                       b == st.nxt[k]
                       m == Min({a, b})
                       n == Max({a, b})
            <3>3. a \in Int /\ b \in Int
                BY <2>3
            <3> HIDE DEF a, b
            <3>4. /\ m \in {a, b} /\ m <= a /\ m <= b
                  /\ n \in {a, b} /\ n >= a /\ n >= b
                BY <3>3, MinMaxOfPair
            <3> HIDE DEF m, n
            <3>5. Between(value, 2 * a, 2 * b) => 2 * m <= value /\ value <= 2 * n
                BY <3>1, <3>2, <3>3, <3>4
            <3>6. Between(value, 2 * a, 2 * b) \/ value = 2 * a
                BY <2>5 DEF a, b
            <3>7. value = 2 * a \/ (2 * m <= value /\ value <= 2 * n)
                BY <3>5, <3>6
            <3> QED BY <3>7 DEF a, b, m, n
        <2> QED BY <2>5, <2>6 DEF st, value
    <1> QED BY <1>1, TableInvariant, PTL

----------------------------------------------------------------------------
(* What the gate has seen when it lets a table out.                        *)

\* Every test of release_gate and every check behind it has passed.
LEMMA PublishableEvidence ==
    ASSUME TableInv, pc = "done", OkToPublish(verdict)
    PROVE  /\ AllChecks = {}
           /\ TableEvidence.conf # NaN
           /\ Below(TableEvidence.missing, Release.missing)
    <1> DEFINE e == TableEvidence
    <1>1. verdict = Verdict(e)
        BY DEF TableInv
    <1>2. Publishable(e)
        <2>1. CASE Verdict(e) = OwnVerdict(e)
            BY <1>1, <2>1 DEF OkToPublish, OwnVerdict
        <2>2. CASE Verdict(e) # OwnVerdict(e)
            <3>1. Rank(Verdict(e)) < Rank(OwnVerdict(e)) /\ Rank(Verdict(e)) >= 2
                BY <1>1, <2>2 DEF Verdict, OkToPublish, Rank
            <3> QED BY <3>1 DEF OwnVerdict, Rank
        <2> QED BY <2>1, <2>2
    <1>3. e.failed = AllChecks
        BY DEF TableEvidence, TableInv
    <1> QED BY <1>2, <1>3 DEF Publishable, Within, AtLeast

\* Which, spelled out, leaves no stream without its shape, no gap filled and
\* no grid that stands still.
LEMMA NoCheckFails ==
    ASSUME AllChecks = {}
    PROVE  /\ Streams # {}
           /\ \A k \in DOMAIN Steps : ~(Steps[k] <= 0)
           /\ \A s \in Streams : s.shaped /\ NaNAtGaps(s) /\ ZeroAtGaps(s) /\ InUnit(s)
    <1>1. CheckSchema = {} /\ CheckTimeline = {} /\ CheckMetadata = {} /\ CheckConfidence = {}
        BY DEF AllChecks
    <1>2. ASSUME NEW name, NEW condition, FailsIf(name, condition) = {}
          PROVE  ~condition
        BY <1>2 DEF FailsIf
    <1>3. FailsIf("stream_shapes_consistent", \E s \in Streams : ~s.shaped) = {}
        BY <1>1 DEF CheckSchema
    <1>4. /\ FailsIf("grid_monotonic", \E k \in DOMAIN Steps : Steps[k] <= 0) = {}
          /\ FailsIf("no_fabricated_gaps", \E s \in Streams : ~NaNAtGaps(s)) = {}
        BY <1>1 DEF CheckTimeline
    <1>5. FailsIf("has_streams", Streams = {}) = {}
        BY <1>1 DEF CheckMetadata
    <1>6. /\ FailsIf("confidence_in_unit_interval", \E s \in Streams : ~InUnit(s)) = {}
          /\ FailsIf("confidence_zero_at_gaps", \E s \in Streams : ~ZeroAtGaps(s)) = {}
        BY <1>1 DEF CheckConfidence
    <1> QED BY <1>2, <1>3, <1>4, <1>5, <1>6 DEF FailsIf

\* A stream without a valid point takes the coverage of the table to 0.
LEMMA UncoveredStream ==
    ASSUME TableInv, NEW s \in Streams, ValidPoints(s) = {}
    PROVE  CoverageMin \in Int /\ CoverageMin <= 0
    <1>1. Len(request.grid) \in Nat
        BY TableStreams
    <1>2. IsFiniteSet(Grid)
        BY <1>1, FS_Interval DEF Grid
    <1>3. \A t \in Streams : Coverage(t) \in Nat
        <2> TAKE t \in Streams
        <2>1. Cardinality(ValidPoints(t)) \in Nat
            BY <1>2, FS_Subset, FS_CardinalityType DEF ValidPoints
        <2>2. CASE Grid = {}
            BY <2>2 DEF Coverage
        <2>3. CASE Grid # {}
            <3>1. Len(request.grid) > 0
                BY <1>1, <2>3 DEF Grid
            <3>2. 1000 * Cardinality(ValidPoints(t)) \in Nat
                BY <2>1
            <3>3. (1000 * Cardinality(ValidPoints(t))) \div Len(request.grid) \in Nat
                BY <1>1, <3>1, <3>2
            <3> QED BY <2>3, <3>3 DEF Coverage
        <2> QED BY <2>2, <2>3
    <1>4. Coverage(s) = 0
        <2>1. Cardinality(ValidPoints(s)) = 0
            BY FS_EmptySet
        <2>2. Grid # {} => Len(request.grid) > 0
            BY <1>1 DEF Grid
        <2>3. \A n \in Nat : n > 0 => 0 \div n = 0
            OBVIOUS
        <2>4. 1000 * Cardinality(ValidPoints(s)) = 0
            BY <2>1
        <2>5. Grid # {} => (1000 * Cardinality(ValidPoints(s))) \div Len(request.grid) = 0
            BY <1>1, <2>2, <2>3, <2>4
        <2> QED BY <2>5 DEF Coverage
    <1> DEFINE coverages == {Coverage(t) : t \in Streams}
    <1>5. 0 \in coverages /\ coverages \subseteq Nat
        BY <1>3, <1>4
    <1> HIDE DEF coverages
    <1>6. \E m \in coverages : \A x \in coverages : m <= x
        BY <1>5
    <1>7. Min(coverages) \in coverages /\ \A x \in coverages : Min(coverages) <= x
        BY <1>6 DEF Min
    <1>8. CoverageMin = Min(coverages)
        <2>1. Streams # {}
            OBVIOUS
        <2> QED BY <2>1 DEF CoverageMin, coverages
    <1>9. Min(coverages) \in Int /\ Min(coverages) <= 0
        <2> DEFINE m == Min(coverages)
        <2>1. m \in coverages /\ \A x \in coverages : m <= x
            BY <1>7
        <2> HIDE DEF m
        <2>2. m \in Nat /\ m <= 0
            BY <1>5, <2>1
        <2> QED BY <2>2 DEF m
    <1> QED BY <1>8, <1>9

\* A NaN in any component of a valid point is a NaN in the mean confidence.
LEMMA MeanShowsNaN ==
    ASSUME TableInv, NEW i \in DOMAIN table, NEW k \in ValidPoints(table[i]),
           table[i].conf["scalar"][k] = NaN
    PROVE  MeanConfidence = NaN
    <1> DEFINE scaled == [g \in Grid |-> Times(1000, table[i].conf["scalar"][g])]
               seen == {j \in DOMAIN table : ValidPoints(table[j]) # {}}
               means == [j \in seen |-> StreamConfidence(table[j])]
    <1>1. k \in Grid
        BY DEF ValidPoints
    <1>2. scaled[k] = NaN
        BY <1>1 DEF Times
    <1>3. StreamConfidence(table[i]) = Mean(scaled, ValidPoints(table[i]))
        BY DEF StreamConfidence
    <1>4. i \in seen
        OBVIOUS
    <1>5. MeanConfidence = Mean(means, seen)
        BY <1>4 DEF MeanConfidence
    <1> HIDE DEF scaled
    <1>6. StreamConfidence(table[i]) = NaN
        BY <1>2, <1>3 DEF Mean
    <1>7. means[i] = NaN
        BY <1>4, <1>6
    <1> HIDE DEF seen, means
    <1> QED BY <1>4, <1>5, <1>7 DEF Mean

\* What the gate lets out is honest, for any thresholds that ask for some
\* coverage at all.
THEOREM PublishableIsHonest == Spec => []PublishableTableIsHonest
    <1>1. TableInv => PublishableTableIsHonest
        <2> SUFFICES ASSUME TableInv, pc = "done", OkToPublish(verdict)
                     PROVE  /\ table # <<>>
                            /\ \A k \in DOMAIN Steps : Steps[k] > 0
                            /\ \A s \in Streams :
                                   /\ s.shaped
                                   /\ ValidPoints(s) # {}
                                   /\ NaNAtGaps(s) /\ ZeroAtGaps(s)
                                   /\ \A c \in DOMAIN s.conf, k \in Grid : s.conf[c][k] \in 0..1
            BY DEF PublishableTableIsHonest
        <2>1. /\ AllChecks = {} /\ TableEvidence.conf # NaN
              /\ Below(TableEvidence.missing, Release.missing)
            BY PublishableEvidence
        <2>2. /\ Streams # {}
              /\ \A k \in DOMAIN Steps : ~(Steps[k] <= 0)
              /\ \A s \in Streams : s.shaped /\ NaNAtGaps(s) /\ ZeroAtGaps(s) /\ InUnit(s)
            BY <2>1, NoCheckFails
        <2>3. table # <<>>
            BY <2>2 DEF Streams
        <2>4. \A k \in DOMAIN Steps : Steps[k] > 0
            <3> TAKE k \in DOMAIN Steps
            <3>1. request.grid \in Seq(Int) /\ Len(request.grid) \in Nat
                BY TableStreams, RequestType DEF IsRequest
            <3>2. k \in 1..(Len(request.grid) - 1)
                BY DEF Steps
            <3>3. request.grid[k] \in Int /\ request.grid[k + 1] \in Int
                BY <3>1, <3>2, ElementOfSeq
            <3>4. Steps[k] \in Int
                BY <3>2, <3>3 DEF Steps
            <3> QED BY <2>2, <3>4
        <2>5. ASSUME NEW s \in Streams PROVE ValidPoints(s) # {}
            <3> SUFFICES ASSUME ValidPoints(s) = {} PROVE FALSE
                OBVIOUS
            <3>1. CoverageMin \in Int /\ CoverageMin <= 0
                BY UncoveredStream
            <3>2. TableEvidence.missing = 1000 - CoverageMin
                BY DEF TableEvidence
            <3>3. 1000 - CoverageMin < Release.missing
                BY <2>1, <3>2 DEF Below
            <3> QED BY <3>1, <3>3, GateAssumption, ProjectionAssumption DEF Bands
        <2>6. ASSUME NEW s \in Streams, NEW c \in DOMAIN s.conf, NEW k \in Grid
              PROVE  s.conf[c][k] \in 0..1
            <3>1. PICK i \in DOMAIN table : s = table[i]
                BY DEF Streams
            <3> DEFINE st == request.streams[i]
            <3>2. /\ request \in Requests /\ st \in StreamType(Len(request.grid))
                  /\ table[i] = CanonicalStream(st)
                BY TableStreams
            <3> HIDE DEF st
            <3>3. s.conf = Folded(st)
                BY <3>1, <3>2, CanonicalStreamFields
            <3>4. /\ c \in Components \cup {"scalar"} /\ s.conf[c] \in [Grid -> Metrics]
                  /\ c \in Components /\ s.conf[c][k] = NaN => s.conf["scalar"][k] = NaN
                BY <3>2, <3>3, FoldedProperties
            <3>5. s.conf["scalar"][k] # NaN
                <4> SUFFICES ASSUME s.conf["scalar"][k] = NaN PROVE FALSE
                    OBVIOUS
                <4>1. 0 # NaN
                    BY GateAssumption
                <4>2. s.valid[k]
                    BY <2>2, <4>1 DEF ZeroAtGaps
                <4>3. k \in ValidPoints(table[i])
                    BY <3>1, <4>2 DEF ValidPoints
                <4>4. MeanConfidence = NaN
                    BY <3>1, <4>3, MeanShowsNaN
                <4> QED BY <2>1, <4>4 DEF TableEvidence
            <3>6. s.conf[c][k] # NaN /\ s.conf[c][k] \in Int
                BY <3>4, <3>5 DEF Metrics
            <3>7. \A x \in {s.conf[c][g] : g \in Grid} \ {NaN} : 0 <= x /\ x <= 1
                BY <2>2 DEF InUnit
            <3>8. 0 <= s.conf[c][k] /\ s.conf[c][k] <= 1
                BY <3>6, <3>7
            <3> QED BY <3>6, <3>8
        <2> QED BY <2>2, <2>3, <2>4, <2>5, <2>6
    <1> QED BY <1>1, TableInvariant, PTL

----------------------------------------------------------------------------
(* Bursts.                                                                 *)

LEMMA BurstInvariant == SubframeSpec => [](TableInv /\ BurstOfTheTable)
    <1>1. SubframeInit => TableInv /\ BurstOfTheTable
        BY InitTableInv DEF SubframeInit, BurstOfTheTable
    <1>2. TableInv /\ [SubframeNext]_<<vars, burst>> => TableInv'
        BY NextTableInv DEF SubframeNext, Gather
    <1>3. BurstOfTheTable /\ [SubframeNext]_<<vars, burst>> => BurstOfTheTable'
        <2> SUFFICES ASSUME BurstOfTheTable, [SubframeNext]_<<vars, burst>>, burst' # None
                     PROVE  /\ pc' = "done" /\ Sorted' /\ Grid' # {}
                            /\ \E i \in DOMAIN table', anchors \in Anchors, R \in Rates :
                                   burst' = Tensor(i, anchors, R)'
            BY DEF BurstOfTheTable
        <2>1. /\ pc = "done" /\ Sorted /\ Grid # {} /\ UNCHANGED vars
              /\ \E i \in DOMAIN table, anchors \in Anchors, R \in Rates :
                     burst' = Tensor(i, anchors, R)
            <3>1. CASE Gather
                BY <3>1 DEF Gather
            <3>2. CASE (Next /\ UNCHANGED burst) \/ UNCHANGED <<vars, burst>>
                <4>1. pc = "done" => ~Next
                    BY DEF Next, ProjectStream, ProjectReturns, WriteSilver, RunChecks, RunGate
                <4> QED BY <3>2, <4>1 DEF BurstOfTheTable
            <3> QED BY <3>1, <3>2 DEF SubframeNext
        <2>2. UNCHANGED <<request, table>>
            BY <2>1 DEF vars
        <2>3. \A i, anchors, R : Tensor(i, anchors, R)' = Tensor(i, anchors, R)
            BY <2>2 DEF Tensor, Frame, Index, Inside, Grid
        <2> QED BY <2>1, <2>2, <2>3 DEF Sorted, Steps, Grid, vars
    <1> QED BY <1>1, <1>2, <1>3, PTL DEF SubframeSpec

\* A sorted grid has the samples of a frame side by side.
LEMMA FrameIsInterval ==
    ASSUME request \in Requests, Sorted, NEW anchors \in Seq(Int),
           NEW k \in 1..(Len(anchors) - 1), Inside(anchors, k) # {}
    PROVE  \E lo, hi \in Grid : /\ lo <= hi /\ Inside(anchors, k) = lo..hi
                               /\ Min(Inside(anchors, k)) = lo
                               /\ Max(Inside(anchors, k)) = hi
    <1> DEFINE own == Inside(anchors, k)
               grid == request.grid
               n == Len(request.grid)
    <1>1. grid \in Seq(Int) /\ n \in Nat /\ Grid = 1..n
        BY RequestType DEF IsRequest, Grid
    <1>2. grid \in [1..n -> Int]
        BY <1>1
    <1>3. anchors[k] \in Int /\ anchors[k + 1] \in Int
        <2>1. k \in 1..Len(anchors) /\ k + 1 \in 1..Len(anchors)
            OBVIOUS
        <2> QED BY <2>1, ElementOfSeq
    <1>4. \A g \in 1..(n - 1) : grid[g] <= grid[g + 1]
        <2> TAKE g \in 1..(n - 1)
        <2>1. Steps[g] >= 0 /\ Steps[g] = grid[g + 1] - grid[g]
            BY DEF Sorted, Steps
        <2>2. g \in 1..n /\ g + 1 \in 1..n
            BY <1>1
        <2>3. grid[g] \in Int /\ grid[g + 1] \in Int
            BY <1>2, <2>2
        <2> QED BY <2>1, <2>3
    <1>5. own = {g \in 1..n : anchors[k] <= grid[g] /\ grid[g] < anchors[k + 1]}
        BY <1>1 DEF Inside
    <1> HIDE DEF grid, n, own
    <1>6. \A i, j \in 1..n : i <= j => grid[i] <= grid[j]
        BY <1>1, <1>2, <1>4, NeverDown
    <1>7. /\ own # {} /\ own \subseteq 1..n /\ own \subseteq Int
          /\ 1 \in Int /\ n \in Int /\ \A g \in own : 1 <= g /\ g <= n
        <2>1. own # {}
            BY DEF own
        <2> QED BY <1>1, <1>5, <2>1
    <1>8. PICK lo \in own : \A g \in own : lo <= g
        BY <1>7, LeastBounded
    <1>9. PICK hi \in own : \A g \in own : g <= hi
        BY <1>7, GreatestBounded
    <1>10. Min(own) = lo /\ Max(own) = hi
        <2>1. Min(own) \in own /\ \A g \in own : Min(own) <= g
            BY <1>8 DEF Min
        <2>2. Max(own) \in own /\ \A g \in own : Max(own) >= g
            BY <1>7, <1>9 DEF Max
        <2> DEFINE a == Min(own)
                   b == Max(own)
        <2> HIDE DEF a, b
        <2>3. a \in Int /\ b \in Int /\ lo \in Int /\ hi \in Int
            BY <1>7, <2>1, <2>2 DEF a, b
        <2>4. a <= lo /\ lo <= a /\ b <= hi /\ hi <= b
            BY <1>7, <1>8, <1>9, <2>1, <2>2, <2>3 DEF a, b
        <2>5. a = lo /\ b = hi
            BY <2>3, <2>4
        <2> QED BY <2>5 DEF a, b
    <1>11. own = lo..hi
        <2>1. own \subseteq lo..hi
            BY <1>7, <1>8, <1>9
        <2>2. ASSUME NEW g \in lo..hi PROVE g \in own
            <3>1. g \in 1..n /\ lo \in 1..n /\ hi \in 1..n /\ lo <= g /\ g <= hi
                BY <1>1, <1>7
            <3>2. grid[lo] <= grid[g] /\ grid[g] <= grid[hi]
                BY <1>6, <3>1
            <3>3. anchors[k] <= grid[lo] /\ grid[hi] < anchors[k + 1]
                BY <1>5
            <3>4. grid[lo] \in Int /\ grid[hi] \in Int /\ grid[g] \in Int
                BY <1>2, <3>1
            <3>5. anchors[k] <= grid[g] /\ grid[g] < anchors[k + 1]
                BY <1>3, <3>2, <3>3, <3>4
            <3> QED BY <1>5, <3>1, <3>5
        <2> QED BY <2>1, <2>2
    <1>12. lo \in Grid /\ hi \in Grid /\ lo <= hi
        BY <1>1, <1>7, <1>8
    <1> QED BY <1>10, <1>11, <1>12 DEF own

LEMMA MinOfPair ==
    ASSUME NEW x \in Int, NEW y \in Int
    PROVE  Min({x, y}) = IF x <= y THEN x ELSE y
    <1> DEFINE m == Min({x, y})
    <1>1. m \in {x, y} /\ m <= x /\ m <= y
        BY MinMaxOfPair
    <1> HIDE DEF m
    <1>2. m = IF x <= y THEN x ELSE y
        BY <1>1
    <1> QED BY <1>2 DEF m

\* Where a sample is among the first samples of its frame.
LEMMA PlaceInFrame ==
    ASSUME NEW lo \in Nat, NEW hi \in Nat, NEW g \in lo..hi
    PROVE  Cardinality({h \in lo..hi : h <= g}) = g - lo + 1
    <1>1. {h \in lo..hi : h <= g} = lo..g
        OBVIOUS
    <1>2. Cardinality(lo..g) = g - lo + 1
        BY FS_Interval
    <1> QED BY <1>1, <1>2

\* A value of the table is a gap exactly where there is no source.
LEMMA SampleIsNaN ==
    ASSUME request \in Requests, NEW st \in StreamType(Len(request.grid)), NEW k \in Grid
    PROVE  Sample(st, k) = NaN <=> ~HasSource(st, k)
    <1>1. st.src[k] \in Int /\ st.nxt[k] \in Int /\ st.weight[k] \in Int
        BY DEF StreamType, Grid
    <1>2. CASE HasBoth(st, k)
        <2>1. Sample(st, k) = st.src[k] * (2 - st.weight[k]) + st.nxt[k] * st.weight[k]
            BY <1>2 DEF Sample
        <2>2. Sample(st, k) \in Int
            BY <1>1, <2>1
        <2> QED BY <1>2, <2>2, GateAssumption DEF HasBoth
    <1>3. CASE ~HasBoth(st, k) /\ HasSource(st, k)
        <2>1. Sample(st, k) = 2 * st.src[k]
            BY <1>3 DEF Sample
        <2>2. Sample(st, k) \in Int
            BY <1>1, <2>1
        <2> QED BY <1>3, <2>2, GateAssumption
    <1>4. CASE ~HasBoth(st, k) /\ ~HasSource(st, k)
        BY <1>4 DEF Sample
    <1> QED BY <1>2, <1>3, <1>4

\* What one frame shows.
LEMMA FrameShows ==
    ASSUME request \in Requests, Sorted, NEW anchors \in Seq(Int), NEW R \in Nat \ {0},
           NEW k \in 1..(Len(anchors) - 1), NEW st \in StreamType(Len(request.grid))
    PROVE  FrameKeeps(st, Inside(anchors, k), Frame(CanonicalStream(st), anchors, R, k),
                      Min({Cardinality(Inside(anchors, k)), R}),
                      Cardinality(Inside(anchors, k)) > 0, R)
    <1> DEFINE own == Inside(anchors, k)
               shown == Frame(CanonicalStream(st), anchors, R, k)
               m == Min({Cardinality(own), R})
               place(g) == Cardinality({h \in own : h <= g})
    <1> SUFFICES /\ Cardinality(own) > 0 <=> own # {}
                 /\ own = {} => m = 0 /\ \A j \in DOMAIN shown : shown[j] = 0
                 /\ \A g \in own : place(g) <= R =>
                        /\ shown[place(g)] = NaN <=> ~HasSource(st, g)
                        /\ shown[place(g)] # NaN => shown[place(g)] = Sample(st, g)
                 /\ \A j \in DOMAIN shown : own # {} /\ j > m => shown[j] = shown[m]
        BY DEF FrameKeeps
    <1>1. Len(request.grid) \in Nat /\ Grid = 1..Len(request.grid)
        BY RequestType DEF Grid
    <1>2. CASE own = {}
        <2>1. Cardinality(own) = 0
            BY <1>2, FS_EmptySet
        <2>2. m = 0
            <3>1. 0 \in Int /\ R \in Int /\ 0 <= R
                OBVIOUS
            <3>2. Min({0, R}) = 0
                BY <3>1, MinOfPair
            <3> QED BY <2>1, <3>2
        <2>3. shown = [j \in 1..R |-> 0]
            BY <1>2 DEF Frame
        <2> HIDE DEF own, shown, m, place
        <2> QED BY <1>2, <2>1, <2>2, <2>3
    <1>3. CASE own # {}
        <2>1. PICK lo, hi \in Grid : /\ lo <= hi /\ own = lo..hi
                                    /\ Min(own) = lo /\ Max(own) = hi
            BY <1>3, FrameIsInterval
        <2>2. lo \in Nat /\ hi \in Nat /\ lo..hi \subseteq Grid
            BY <1>1
        <2>3. Cardinality(own) = hi - lo + 1
            BY <2>1, <2>2, FS_Interval
        <2>4. m = IF hi - lo + 1 <= R THEN hi - lo + 1 ELSE R
            <3>1. hi - lo + 1 \in Int /\ R \in Int
                BY <2>2
            <3> QED BY <2>3, <3>1, MinOfPair
        <2>5. shown = [j \in 1..R |-> Aligned(st)[Index(anchors, R, k)[j]]]
            BY <1>3, CanonicalStreamFields DEF Frame
        <2>6. ASSUME NEW j \in 1..R
              PROVE  Index(anchors, R, k)[j] = IF lo + j - 1 <= hi THEN lo + j - 1 ELSE hi
            <3>1. Index(anchors, R, k)[j] = Min({lo + j - 1, hi})
                BY <1>3, <2>1 DEF Index
            <3>2. lo + j - 1 \in Int /\ hi \in Int
                BY <2>2
            <3> QED BY <3>1, <3>2, MinOfPair
        <2> HIDE DEF own, shown, m
        <2>7. ASSUME NEW j \in 1..R
              PROVE  shown[j] = Aligned(st)[IF lo + j - 1 <= hi THEN lo + j - 1 ELSE hi]
            BY <2>5, <2>6
        <2>8. ASSUME NEW g \in own, place(g) <= R
              PROVE  shown[place(g)] = Sample(st, g)
            <3>1. place(g) = g - lo + 1
                BY <2>1, <2>2, PlaceInFrame
            <3>2. g - lo + 1 \in 1..R /\ lo + (g - lo + 1) - 1 = g /\ g <= hi /\ g \in Grid
                BY <2>1, <2>2, <2>8, <3>1
            <3>3. shown[g - lo + 1] = Aligned(st)[g]
                BY <2>7, <3>2
            <3> QED BY <3>1, <3>2, <3>3 DEF Aligned
        <2>9. ASSUME NEW j \in 1..R, j > m PROVE shown[j] = shown[m]
            <3>1. m = hi - lo + 1 /\ m \in 1..R
                BY <2>1, <2>2, <2>4, <2>9
            <3>2. ~(lo + j - 1 <= hi) /\ lo + m - 1 = hi
                BY <2>2, <2>9, <3>1
            <3>3. shown[j] = Aligned(st)[hi]
                BY <2>7, <3>2
            <3>4. shown[m] = Aligned(st)[hi]
                BY <2>7, <3>1, <3>2
            <3> QED BY <3>3, <3>4
        <2>10. Cardinality(own) > 0
            BY <2>1, <2>2, <2>3
        <2>11. DOMAIN shown = 1..R
            BY <2>5
        <2>12. \A g \in own : Sample(st, g) = NaN <=> ~HasSource(st, g)
            BY <2>1, <2>2, SampleIsNaN
        <2> HIDE DEF place
        <2> QED BY <1>3, <2>8, <2>9, <2>10, <2>11, <2>12
    <1> HIDE DEF own, shown, m, place
    <1> QED BY <1>2, <1>3

\* Frames of a burst keep to their own samples, for any edges and any rate.
THEOREM BurstsKeep == SubframeSpec => []BurstsKeepToTheirFrame
    <1>1. TableInv /\ BurstOfTheTable => BurstsKeepToTheirFrame
        <2> SUFFICES ASSUME TableInv, BurstOfTheTable, burst # None
                     PROVE  BurstsKeepToTheirFrame
            BY DEF BurstsKeepToTheirFrame
        <2>1. PICK i \in DOMAIN table, anchors \in Anchors, R \in Rates :
                  burst = Tensor(i, anchors, R)
            BY DEF BurstOfTheTable
        <2> DEFINE st == request.streams[i]
                   frames == 1..(Len(anchors) - 1)
        <2>2. /\ request \in Requests /\ st \in StreamType(Len(request.grid))
              /\ table[i] = CanonicalStream(st)
            BY TableStreams
        <2>3. anchors \in Seq(Int) /\ R \in Nat \ {0} /\ Sorted
            BY SubframeAssumption DEF BurstOfTheTable
        <2>4. /\ request.streams[burst.stream] = st
              /\ burst.anchors = anchors /\ burst.R = R
              /\ DOMAIN burst.tensor = frames
              /\ \A k \in frames :
                     /\ burst.tensor[k] = Frame(CanonicalStream(st), anchors, R, k)
                     /\ burst.m[k] = Min({Cardinality(Inside(anchors, k)), R})
                     /\ burst.valid[k] = (Cardinality(Inside(anchors, k)) > 0)
            BY <2>1, <2>2 DEF Tensor
        <2> HIDE DEF st
        <2>5. ASSUME NEW k \in frames
              PROVE  FrameKeeps(st, Inside(anchors, k), burst.tensor[k], burst.m[k],
                                burst.valid[k], R)
            <3>1. FrameKeeps(st, Inside(anchors, k), Frame(CanonicalStream(st), anchors, R, k),
                             Min({Cardinality(Inside(anchors, k)), R}),
                             Cardinality(Inside(anchors, k)) > 0, R)
                BY <2>2, <2>3, FrameShows
            <3> QED BY <2>4, <3>1
        <2> QED BY <2>4, <2>5 DEF BurstsKeepToTheirFrame
    <1> QED BY <1>1, BurstInvariant, PTL
====
