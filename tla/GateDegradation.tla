---- MODULE GateDegradation ----
(***************************************************************************)
(* The release gate over evidence that only gets worse. The one state is   *)
(* the evidence of a rebuild of the dataset, the one step a rebuild whose  *)
(* evidence is no better in any respect: the steps walk through the pairs  *)
(* of inputs on which the gate has to be monotone.                         *)
(***************************************************************************)
EXTENDS ReleaseGate

CONSTANT Universe   \* the evidence considered

ASSUME UniverseAssumption == Universe \subseteq Evidence

VARIABLE evidence

Init == evidence \in Universe

Degrade == \E d \in Universe : NoBetter(d, evidence) /\ evidence' = d

Spec == Init /\ [][Degrade]_evidence

----------------------------------------------------------------------------
\* Worse evidence never earns a better verdict (release_gate): no band, check
\* or ceiling turns a loss of quality into a promotion.
GateIsMonotone ==
    [][Rank(Verdict(evidence')) <= Rank(Verdict(evidence))]_evidence

\* The verdict never exceeds the verdict of the synchronisation underneath
\* (release_gate, "inherit the sync ceiling"), and a ceiling in a word that
\* _ORDER does not know, which caps nothing, never becomes the verdict.
VerdictWithinCeiling ==
    LET v == Verdict(evidence)
    IN  /\ v \in GateVerdicts
        /\ evidence.ceiling = "BLOCKED" => v = "BLOCKED"
        /\ evidence.ceiling = "NEEDS_REVIEW" => v \in {"BLOCKED", "NEEDS_REVIEW"}
        /\ evidence.ceiling = "RELEASE" => v # "CERTIFIED"

\* On the right side of the limits of a band: a metric that is at a limit of
\* missing frames or residual is beyond it, one at the confidence is not.
Clears(e, band) ==
    /\ e.missing < band.missing
    /\ e.resid < band.resid
    /\ e.conf >= band.conf

\* What ok_to_publish lets through has three metrics that are numbers and on
\* the right side of every limit it was let through by, at the limits too, no
\* failed check at all, and a signature when one is required. A NaN metric
\* escapes the hard-fail comparisons, so only the release band stands between
\* it and a publication (release_gate, ok_to_publish).
PublishedEvidenceIsSound ==
    LET e == evidence
        v == Verdict(evidence)
    IN  OkToPublish(v) =>
            /\ {e.missing, e.resid, e.conf} \subseteq Int
            /\ Clears(e, HardFail) /\ Clears(e, Release)
            /\ v = "CERTIFIED" => Clears(e, Certified)
            /\ e.failed = {}
            /\ RequireSigned => e.signed
====
