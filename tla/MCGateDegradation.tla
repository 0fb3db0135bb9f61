---- MODULE MCGateDegradation ----
(***************************************************************************)
(* The gate with the thresholds of configs/qa_thresholds.yaml: missing     *)
(* frames and confidence in thousandths, the residual in microseconds.     *)
(* The metrics take each limit itself, one value beyond, and NaN.          *)
(***************************************************************************)
EXTENDS GateDegradation

MCHardFail == [missing |-> 30, resid |-> 5000, conf |-> 850]
MCRelease == [missing |-> 10, resid |-> 2000, conf |-> 900]
MCCertified == [missing |-> 2, resid |-> 500, conf |-> 950]

\* A harmless and a critical check, and a ceiling _ORDER does not know.
MCUniverse ==
    [missing : {1, 2, 10, 30, NaN}, resid : {499, 500, 2000, 5000, NaN},
     conf : {849, 850, 900, 950, NaN}, signed : BOOLEAN,
     failed : {{}, {"bounded_step"}, {"no_fabricated_gaps"}},
     ceiling : GateVerdicts \cup {"PENDING"}]
====
