---- MODULE Publication ----
(***************************************************************************)
(* What one dataset version promises a consumer who verifies it before     *)
(* using it: that the digests in the sidecar match the bytes on disk and   *)
(* that sidecar, QA report and manifest agree. `view` is what verification *)
(* yields: an outcome, or None while the package does not verify. A        *)
(* verified outcome is always a legitimate one, and it is never replaced   *)
(* in place: a consumer sees the package invalid in between.               *)
(***************************************************************************)
CONSTANTS
    Legitimate,   \* the outcomes some input accounts for
    None          \* the package does not verify

VARIABLE view

Init == view = None

Publish == view = None /\ view' \in Legitimate

Withdraw == view # None /\ view' = None

Spec == Init /\ [][Publish \/ Withdraw]_view
====
