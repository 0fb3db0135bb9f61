---- MODULE GateProofs ----
(***************************************************************************)
(* Proofs about the release gate, for every choice of thresholds (the      *)
(* bands need not even be ordered), every evidence and every ceiling.      *)
(***************************************************************************)
EXTENDS GateDegradation, TLAPS

\* The verdict before the ceiling is one of the four, by the three tests.
LEMMA OwnVerdictRank ==
    ASSUME NEW e
    PROVE  /\ OwnVerdict(e) \in GateVerdicts
           /\ Rank(OwnVerdict(e)) = 0 <=> HardFailed(e)
           /\ Rank(OwnVerdict(e)) >= 2 <=> ~HardFailed(e) /\ Publishable(e)
           /\ Rank(OwnVerdict(e)) = 3 <=>
                ~HardFailed(e) /\ Publishable(e) /\ Within(e, Certified)
           /\ Rank(OwnVerdict(e)) \in 0..3
    <1>1. CASE HardFailed(e)
        <2>1. OwnVerdict(e) = "BLOCKED" BY <1>1 DEF OwnVerdict
        <2> QED BY <1>1, <2>1 DEF Rank, GateVerdicts
    <1>2. CASE ~HardFailed(e) /\ ~Publishable(e)
        <2>1. OwnVerdict(e) = "NEEDS_REVIEW" BY <1>2 DEF OwnVerdict
        <2> QED BY <1>2, <2>1 DEF Rank, GateVerdicts
    <1>3. CASE ~HardFailed(e) /\ Publishable(e) /\ ~Within(e, Certified)
        <2>1. OwnVerdict(e) = "RELEASE" BY <1>3 DEF OwnVerdict
        <2> QED BY <1>3, <2>1 DEF Rank, GateVerdicts
    <1>4. CASE ~HardFailed(e) /\ Publishable(e) /\ Within(e, Certified)
        <2>1. OwnVerdict(e) = "CERTIFIED" BY <1>4 DEF OwnVerdict
        <2> QED BY <1>4, <2>1 DEF Rank, GateVerdicts
    <1> QED BY <1>1, <1>2, <1>3, <1>4

LEMMA RankRange == ASSUME NEW v PROVE Rank(v) \in 0..3
    BY DEF Rank

\* The ceiling takes the minimum of the two ranks.
LEMMA VerdictRank ==
    ASSUME NEW e
    PROVE  /\ Rank(Verdict(e)) <= Rank(OwnVerdict(e))
           /\ Rank(Verdict(e)) <= Rank(e.ceiling)
           /\ Rank(Verdict(e)) \in {Rank(OwnVerdict(e)), Rank(e.ceiling)}
    <1>1. Rank(OwnVerdict(e)) \in 0..3 /\ Rank(e.ceiling) \in 0..3
        BY RankRange
    <1>2. CASE Rank(OwnVerdict(e)) > Rank(e.ceiling)
        <2>1. Verdict(e) = e.ceiling BY <1>2 DEF Verdict
        <2> QED BY <1>1, <1>2, <2>1
    <1>3. CASE ~(Rank(OwnVerdict(e)) > Rank(e.ceiling))
        <2>1. Verdict(e) = OwnVerdict(e) BY <1>3 DEF Verdict
        <2> QED BY <1>1, <1>3, <2>1
    <1> QED BY <1>2, <1>3

\* Worse evidence fails every test the better evidence fails.
LEMMA TestsAreMonotone ==
    ASSUME NEW d \in Evidence, NEW e \in Evidence, NoBetter(d, e),
           NEW band \in Bands
    PROVE  /\ HardFailed(e) => HardFailed(d)
           /\ Within(d, band) => Within(e, band)
           /\ Publishable(d) => Publishable(e)
    <1>1. \A b \in Bands :
              /\ AtLeast(e.missing, b.missing) => AtLeast(d.missing, b.missing)
              /\ AtLeast(e.resid, b.resid) => AtLeast(d.resid, b.resid)
              /\ Below(e.conf, b.conf) => Below(d.conf, b.conf)
              /\ Within(d, b) => Within(e, b)
        BY GateAssumption DEF NoBetter, AtLeast, Below, Within, Bands
    <1>2. HardFailed(e) => HardFailed(d)
        BY <1>1, GateAssumption DEF HardFailed, NoBetter, Evidence
    <1>3. Publishable(d) => Publishable(e)
        BY <1>1, GateAssumption DEF Publishable, NoBetter
    <1> QED BY <1>1, <1>2, <1>3

\* Worse evidence never earns a better verdict.
THEOREM VerdictIsMonotone ==
    ASSUME NEW d \in Evidence, NEW e \in Evidence, NoBetter(d, e)
    PROVE  Rank(Verdict(d)) <= Rank(Verdict(e))
    <1>1. Rank(OwnVerdict(d)) <= Rank(OwnVerdict(e))
        <2>1. /\ HardFailed(e) => HardFailed(d)
              /\ Within(d, Certified) => Within(e, Certified)
              /\ Publishable(d) => Publishable(e)
            BY TestsAreMonotone, GateAssumption
        <2> QED BY <2>1, OwnVerdictRank
    <1>2. Rank(d.ceiling) <= Rank(e.ceiling)
        BY DEF NoBetter
    <1> QED BY <1>1, <1>2, VerdictRank, RankRange

LEMMA EvidenceStays == Spec => [](evidence \in Universe)
    <1>1. Init => evidence \in Universe BY DEF Init
    <1>2. evidence \in Universe /\ [Degrade]_evidence => (evidence \in Universe)'
        BY DEF Degrade
    <1> QED BY <1>1, <1>2, PTL DEF Spec

\* Worse evidence never earns a better verdict, as the run states it.
THEOREM GateMonotone == Spec => GateIsMonotone
    <1>1. evidence \in Universe /\ [Degrade]_evidence =>
              [Rank(Verdict(evidence')) <= Rank(Verdict(evidence))]_evidence
        <2> SUFFICES ASSUME evidence \in Universe, Degrade
                     PROVE  Rank(Verdict(evidence')) <= Rank(Verdict(evidence))
            OBVIOUS
        <2> PICK d \in Universe : NoBetter(d, evidence) /\ evidence' = d
            BY DEF Degrade
        <2> QED BY UniverseAssumption, VerdictIsMonotone
    <1> QED BY <1>1, EvidenceStays, PTL DEF Spec, GateIsMonotone

\* The verdict never exceeds the synchronisation's and is always one of the
\* four, whatever word the synchronisation uses.
THEOREM Ceiling == Spec => []VerdictWithinCeiling
    <1> DEFINE v == Verdict(evidence)
               c == evidence.ceiling
    <1>1. v \in GateVerdicts
        <2>1. CASE Rank(OwnVerdict(evidence)) > Rank(c)
            <3>1. v = c /\ Rank(c) < 3
                BY <2>1, OwnVerdictRank, RankRange DEF Verdict
            <3> QED BY <3>1 DEF Rank, GateVerdicts
        <2>2. CASE ~(Rank(OwnVerdict(evidence)) > Rank(c))
            BY <2>2, OwnVerdictRank DEF Verdict
        <2> QED BY <2>1, <2>2
    <1>2. Rank(v) <= Rank(c)
        BY VerdictRank
    <1> HIDE DEF v
    <1>3. c = "BLOCKED" => v = "BLOCKED"
        BY <1>1, <1>2 DEF Rank, GateVerdicts
    <1>4. c = "NEEDS_REVIEW" => v \in {"BLOCKED", "NEEDS_REVIEW"}
        BY <1>1, <1>2 DEF Rank, GateVerdicts
    <1>5. c = "RELEASE" => v # "CERTIFIED"
        BY <1>1, <1>2 DEF Rank, GateVerdicts
    <1>6. VerdictWithinCeiling
        BY <1>1, <1>3, <1>4, <1>5 DEF VerdictWithinCeiling, v
    <1> QED BY <1>6, PTL

\* What may be published is sound: NaN, a metric at or beyond a limit, a
\* failed check or a missing signature each keep the verdict below RELEASE,
\* and what misses the certified band stays below CERTIFIED.
THEOREM PublishedIsSound == Spec => []PublishedEvidenceIsSound
    <1>1. evidence \in Universe => PublishedEvidenceIsSound
        <2> DEFINE v == Verdict(evidence)
        <2> SUFFICES ASSUME evidence \in Universe, OkToPublish(v)
                     PROVE  /\ {evidence.missing, evidence.resid,
                                evidence.conf} \subseteq Int
                            /\ Clears(evidence, HardFail)
                            /\ Clears(evidence, Release)
                            /\ v = "CERTIFIED" => Clears(evidence, Certified)
                            /\ evidence.failed = {}
                            /\ RequireSigned => evidence.signed
            BY DEF PublishedEvidenceIsSound
        <2>1. Rank(v) >= 2 /\ (v = "CERTIFIED" => Rank(v) = 3)
            BY DEF OkToPublish, Rank
        <2> HIDE DEF v
        <2>2. /\ Rank(OwnVerdict(evidence)) >= 2
              /\ v = "CERTIFIED" => Rank(OwnVerdict(evidence)) = 3
            BY <2>1, VerdictRank, OwnVerdictRank, RankRange DEF v
        <2>3. /\ ~HardFailed(evidence) /\ Publishable(evidence)
              /\ v = "CERTIFIED" => Within(evidence, Certified)
            BY <2>2, OwnVerdictRank
        <2>4. evidence \in Evidence
            BY UniverseAssumption
        <2>5. ASSUME NEW band, Within(evidence, band)
              PROVE  /\ {evidence.missing, evidence.resid,
                         evidence.conf} \subseteq Int
                     /\ Clears(evidence, band)
            BY <2>4, <2>5 DEF Within, AtLeast, Below, Clears, Evidence, Metrics
        <2>6. /\ {evidence.missing, evidence.resid, evidence.conf} \subseteq Int
              /\ Clears(evidence, Release)
              /\ v = "CERTIFIED" => Clears(evidence, Certified)
            BY <2>3, <2>5 DEF Publishable
        <2>7. Clears(evidence, HardFail)
            BY <2>3, <2>6, GateAssumption
            DEF HardFailed, AtLeast, Below, Clears, Bands
        <2>8. evidence.failed = {} /\ (RequireSigned => evidence.signed)
            BY <2>3 DEF HardFailed, Publishable
        <2> QED BY <2>6, <2>7, <2>8
    <1> QED BY <1>1, EvidenceStays, PTL
====
