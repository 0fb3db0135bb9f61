---- MODULE ReleaseGate ----
(***************************************************************************)
(* The dataset-level release gate (validate/release_gate.py): one verdict  *)
(* out of three metrics, the signing flag, the QA checks and the verdict   *)
(* SentrixSync gave the synchronisation the dataset rests on.              *)
(*                                                                         *)
(* A metric is an integer in a unit the instance chooses, or NaN: every    *)
(* comparison of the code is a float comparison, false when either side    *)
(* is NaN, so "x >= t" and "~(x < t)" are different questions here.        *)
(***************************************************************************)
EXTENDS Integers

CONSTANTS
    HardFail,       \* thresholds.hard_fail, a band of limits
    Release,        \* thresholds.release
    Certified,      \* thresholds.certified
    RequireSigned,  \* hard_fail.require_lineage_signed
    NaN             \* the float that is no number

Bands == [missing : Int, resid : Int, conf : Int]

ASSUME GateAssumption ==
    /\ HardFail \in Bands
    /\ Release \in Bands
    /\ Certified \in Bands
    /\ RequireSigned \in BOOLEAN
    /\ NaN \notin Int

GateVerdicts == {"BLOCKED", "NEEDS_REVIEW", "RELEASE", "CERTIFIED"}

\* The names check_schema, check_timeline, check_metadata and
\* check_confidence report on, and those whose failure alone blocks.
Checks == {"grid_frame_index_aligned", "stream_shapes_consistent",
           "schema_version_present", "grid_monotonic", "bounded_step",
           "no_fabricated_gaps", "session_id_present",
           "reference_clock_present", "grid_rate_positive", "has_streams",
           "confidence_in_unit_interval", "confidence_zero_at_gaps"}

CriticalChecks == {"no_fabricated_gaps", "stream_shapes_consistent",
                   "confidence_in_unit_interval"}

Metrics == Int \cup {NaN}

\* What release_gate looks at. `failed` is the set of checks that say
\* "fail"; `ceiling` is SentrixSync's verdict, upper-cased, CERTIFIED when
\* there is no validation report; a word _ORDER does not know is allowed.
Evidence == [missing : Metrics, resid : Metrics, conf : Metrics,
             signed : BOOLEAN, failed : SUBSET Checks, ceiling : STRING]

\* Seeded fault: "x >= t" written as "not x < t".
NotBelow(x, t) == x # NaN => x >= t

AtLeast(x, t) == x # NaN /\ x >= t
Below(x, t) == x # NaN /\ x < t

\* _ORDER.get(verdict, 3): an unknown ceiling limits nothing.
Rank(v) == CASE v = "BLOCKED" -> 0
             [] v = "NEEDS_REVIEW" -> 1
             [] v = "RELEASE" -> 2
             [] OTHER -> 3

HardFailed(e) ==
    \/ AtLeast(e.missing, HardFail.missing)
    \/ AtLeast(e.resid, HardFail.resid)
    \/ Below(e.conf, HardFail.conf)
    \/ RequireSigned /\ ~e.signed
    \/ e.failed \cap CriticalChecks # {}

\* The three comparisons a band asks for, each of which NaN fails.
Within(e, band) ==
    /\ Below(e.missing, band.missing)
    /\ Below(e.resid, band.resid)
    /\ AtLeast(e.conf, band.conf)

Publishable(e) == Within(e, Release) /\ e.failed = {}

\* The verdict of the dataset's own evidence, before the ceiling.
OwnVerdict(e) ==
    CASE HardFailed(e) -> "BLOCKED"
      [] ~HardFailed(e) /\ ~Publishable(e) -> "NEEDS_REVIEW"
      [] ~HardFailed(e) /\ Publishable(e) /\ ~Within(e, Certified) -> "RELEASE"
      [] OTHER -> "CERTIFIED"

\* Seeded fault: the ceiling is applied only to a CERTIFIED dataset.
VerdictCapsCertifiedOnly(e) ==
    IF OwnVerdict(e) = "CERTIFIED" /\ Rank(e.ceiling) < 3
    THEN e.ceiling ELSE OwnVerdict(e)

\* release_gate: the own verdict, cut down to the ceiling when above it.
Verdict(e) ==
    IF Rank(OwnVerdict(e)) > Rank(e.ceiling) THEN e.ceiling ELSE OwnVerdict(e)

\* QAReport.ok_to_publish
OkToPublish(v) == v \in {"RELEASE", "CERTIFIED"}

----------------------------------------------------------------------------
\* Evidence d is no better than e: no metric, check, signature or ceiling of
\* d is better. NaN compares with nothing, so both must be numbers.
NoBetter(d, e) ==
    /\ {d.missing, e.missing, d.resid, e.resid, d.conf, e.conf} \subseteq Int
    /\ d.missing >= e.missing
    /\ d.resid >= e.resid
    /\ d.conf <= e.conf
    /\ d.signed => e.signed
    /\ e.failed \subseteq d.failed
    /\ Rank(d.ceiling) <= Rank(e.ceiling)
====
