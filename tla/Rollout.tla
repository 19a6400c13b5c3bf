------------------------------ MODULE Rollout ------------------------------
(***************************************************************************)
(* Engine selection for one caller of a release                            *)
(* (src/outctl/native/rollout.py): adoption evidence grows gate by gate, an*)
(* operator may fall back with OUTCTL_ENABLED=0, the native artifact on    *)
(* disk may be replaced at any time, and a selection is used later, by     *)
(* run_native.  Digests are numbers: 1 is the artifact the evidence pins.  *)
(***************************************************************************)
EXTENDS Naturals, FiniteSets

CONSTANTS
    RoBucket,      \* cohort_bucket of the caller
    RoBasisPoints, \* values of canary_basis_points tried
    RoMaxSwaps,    \* bound on the replacements of the artifact
    RoMaxRuns      \* bound on run_native

ASSUME RoConstants ==
    /\ RoBucket \in Nat /\ RoBasisPoints \subseteq Nat /\ 0 \in RoBasisPoints
    /\ RoMaxSwaps \in Nat /\ RoMaxRuns \in Nat

RoGates == {"clean_install", "host_conformance", "rollback", "shadow", "canary"}
RoModes == {"bypass", "shadow", "enforce", "unsupported"}

VARIABLES
    roGates,     \* gates passed
    roPoints,    \* canary_basis_points
    roDefault,   \* native_default_enabled, with its authorization
    roPinned,    \* this host class has a pinned artifact
    roDisk,      \* digest of the artifact on disk
    roSwaps,     \* replacements so far
    roLast,      \* the last selection, or none
    roHistory,   \* native selections: the evidence each one was made with
    roRan        \* digests executed by run_native, in a bag of at most RoMaxRuns

roEvidence == <<roGates, roPoints, roDefault, roPinned>>
roVars == <<roEvidence, roDisk, roSwaps, roLast, roHistory, roRan>>

RoTracks == {"python", "shadow", "canary", "default", "raised"}
RoNone == [mode |-> "none", track |-> "none", digest |-> 0]

RoTypeOK ==
    /\ roGates \subseteq RoGates /\ roPoints \in RoBasisPoints
    /\ roDefault \in BOOLEAN /\ roPinned \in BOOLEAN
    /\ roDisk \in 0..RoMaxSwaps + 1 /\ roSwaps \in 0..RoMaxSwaps
    /\ roLast.track \in RoTracks \cup {"none"} /\ roLast.digest \in {0, 1}
    /\ roHistory \subseteq {"shadow", "canary", "default"}
    /\ roRan \in [0..RoMaxSwaps + 1 -> 0..RoMaxRuns]

RoInit ==
    /\ roGates = {} /\ roPoints = 0 /\ roDefault = FALSE /\ roPinned = FALSE
    /\ roDisk = 1 /\ roSwaps = 0
    /\ roLast = RoNone /\ roHistory = {}
    /\ roRan = [d \in 0..RoMaxSwaps + 1 |-> 0]

\* pre_shadow_passed, pre_canary_passed, default_passed.
RoPreShadow(gates) == {"clean_install", "host_conformance", "rollback"} \subseteq gates
RoPreCanary(gates) == RoPreShadow(gates) /\ "shadow" \in gates
RoDefaultPassed(gates) == RoPreCanary(gates) /\ "canary" \in gates

\* A release publishes more evidence: RolloutEvidence.from_dict accepts a
\* document only with every prior wave, sorted unique host pins, and a
\* default that carries its authorization.
RoPublish ==
    /\ \E gates \in SUBSET RoGates, points \in RoBasisPoints, default, pinned \in BOOLEAN :
           /\ roGates \subseteq gates /\ roPoints <= points
           /\ roDefault => default
           /\ roPinned => pinned
           /\ Cardinality(gates \ roGates) <= 1
           /\ roGates' = gates /\ roPoints' = points
           /\ roDefault' = default /\ roPinned' = pinned
    /\ UNCHANGED <<roDisk, roSwaps, roLast, roHistory, roRan>>

\* The artifact on disk is replaced.
RoSwap ==
    /\ roSwaps < RoMaxSwaps
    /\ roSwaps' = roSwaps + 1 /\ roDisk' = roSwaps + 2
    /\ UNCHANGED <<roEvidence, roLast, roHistory, roRan>>

\* probe_native_capabilities: the pinned bytes answer, cleanly and bounded.
RoProbes(probe) == roDisk = 1 /\ probe.clean

\* _native_selection: with the pinned capabilities, for this platform, and
\* with what the caller requires.
RoNativeUsable(probe) == RoProbes(probe) /\ probe.negotiated

\* select_rollout_engines: the track, or an error.  release: the configured
\* manifest digest is the evidence's; key: the caller has a canary key.
RoTrack(mode, enabled, release, key, probe) ==
    LET native(track) == IF RoNativeUsable(probe) THEN track ELSE "raised" IN
    IF enabled = "0" \/ mode = "bypass" THEN "python"
    ELSE IF enabled \notin {"none", "1"} \/ mode = "unsupported" \/ ~release THEN "raised"
    ELSE IF ~roPinned \/ ~RoPreShadow(roGates) THEN "python"
    ELSE IF mode = "shadow" THEN native("shadow")
    ELSE IF ~RoPreCanary(roGates) THEN "python"
    ELSE IF roDefault
         THEN IF RoDefaultPassed(roGates) THEN native("default") ELSE "raised"
    ELSE IF key /\ RoBucket < roPoints THEN native("canary")
    ELSE "python"

RoSelect ==
    /\ \E mode \in RoModes, enabled \in {"none", "0", "1", "other"},
          release, key \in BOOLEAN, probe \in [clean : BOOLEAN, negotiated : BOOLEAN] :
           LET track == RoTrack(mode, enabled, release, key, probe)
               native == track \in {"shadow", "canary", "default"} IN
           /\ roLast' = [mode |-> mode, track |-> track,
                         digest |-> IF native THEN 1 ELSE 0]
           /\ roHistory' = IF native THEN roHistory \cup {track} ELSE roHistory
    /\ UNCHANGED <<roEvidence, roDisk, roSwaps, roRan>>

\* A slip: the selection is trusted to have verified the file.
RoHashedAtSelection == TRUE

\* run_pinned_native: the bytes opened now are the pinned ones.
RoHashed == roDisk = roLast.digest

\* RolloutSelection.run_native; it refuses a Python selection.
RoRunNative ==
    /\ roLast.digest # 0 /\ roRan[roDisk] < RoMaxRuns
    /\ IF RoHashed THEN roRan' = [roRan EXCEPT ![roDisk] = @ + 1] ELSE UNCHANGED roRan
    /\ UNCHANGED <<roEvidence, roDisk, roSwaps, roLast, roHistory>>

RoNext == RoPublish \/ RoSwap \/ RoSelect \/ RoRunNative

RoSpec == RoInit /\ [][RoNext]_roVars

-----------------------------------------------------------------------------
(* Rollout fails closed (select_rollout_engines, run_native): nothing but   *)
(* the pinned artifact is ever executed, however it is swapped between      *)
(* selection and launch; and a native selection was made only on a host     *)
(* with a pin and after the gates its track needs, which evidence that only *)
(* grows still shows.                                                       *)
RolloutFailsClosed ==
    /\ \A d \in DOMAIN roRan : roRan[d] > 0 => d = 1 /\ roHistory # {}
    /\ roHistory # {} => roPinned /\ RoPreShadow(roGates)
    /\ "canary" \in roHistory => "shadow" \in roGates /\ RoBucket < roPoints
    /\ "default" \in roHistory => roGates = RoGates /\ roDefault

=============================================================================
