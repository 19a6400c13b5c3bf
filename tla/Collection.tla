----------------------------- MODULE Collection -----------------------------
(***************************************************************************)
(* What collecting the output of a command promises to whoever finalizes   *)
(* it, with no threads, pipes or buffers in it: bytes are charged to one   *)
(* limit, a loss and a storage failure are remembered for good, nothing    *)
(* but a failure loses a byte before the limit is spent, and one verdict   *)
(* is drawn, from what was remembered, after which nothing it was drawn    *)
(* from changes.  Both engines make this promise: the native one is        *)
(* CaptureDrain, the Python one is ReferenceCapture.                       *)
(***************************************************************************)
EXTENDS Naturals

CONSTANT
    Limit       \* bytes both streams may retain together

VARIABLES
    total,      \* bytes charged to the limit
    dropped,    \* a byte was read and not retained
    damaged,    \* a read, a write or a sync failed
    recorded,   \* what else the manifest describes
    verdict     \* the capture status once decided

vars == <<total, dropped, damaged, recorded, verdict>>

Verdict(failed, cut) ==
    IF failed THEN "CAPTURE_FAILED" ELSE IF cut THEN "TRUNCATED" ELSE "COMPLETE"

Init == total = 0 /\ ~dropped /\ ~damaged /\ verdict = "none"

Collect ==
    /\ verdict = "none"
    /\ total' \in total..Limit
    /\ dropped => dropped'
    /\ damaged => damaged'
    /\ dropped' /\ ~damaged' => total' = Limit

\* The last failure may be found in the step that draws the verdict.
Next == Collect /\ verdict' \in {"none", Verdict(damaged', dropped')}

Spec == Init /\ [][Next]_vars

=============================================================================
