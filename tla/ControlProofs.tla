--------------------------- MODULE ControlProofs ----------------------------
(***************************************************************************)
(* What is let to run.  Policy: the two sets of rules, the compiler's in   *)
(* Python and the engine's in Rust, agree for every bound of ages,         *)
(* validity and time.  Rollout fails closed for every bucket and threshold *)
(* and any number of replacements of the artifact.  A bundle that is       *)
(* published is whole, and a rehearsal runs what it pins, for any number   *)
(* of builders, hosts, edits and drifts.                                   *)
(***************************************************************************)
EXTENDS PolicyFlow, Rollout, Bundle, TLAPS

-----------------------------------------------------------------------------
(* Policy.                                                                 *)

PfDocuments == [body : PfBodies, digest : PfBodies]
PfRequests == [body : PfBodies, trust : PfDomains, disclosure : PfDisclosures,
               mode : {"direct-argv", "explicit-shell"}]
PfAnswers == [outcome : {"none", "expired", "invalid", "binding", "context",
                         "unsupported", "denied", "secret", "accepted"},
              at : 0..PfHorizon]

\* What compile_policy_source checked of a body.
PfSound(body) ==
    /\ body \in PfBodies
    /\ body.trust = "trusted-local" =>
           /\ body.commissioned /\ body.capture.required
           /\ body.capture.commitment \in PfPersistent
    /\ PfSinkContract(body.sink) /\ PfScopeContract(body.scope)
    /\ body.sink.trust \in PfAdmits(body.trust)
    /\ PfSnapshot(body.capture)

\* The inductive invariant: the digest of the stored document and the binding
\* of the request are of compiled bodies, whatever became of the document.
PfInv ==
    /\ \A body \in pfCompiled : PfSound(body)
    /\ pfStored = PfNone \/ (pfStored \in PfDocuments /\ pfStored.digest \in pfCompiled)
    /\ pfRequest = PfNone \/ (pfRequest \in PfRequests /\ pfRequest.body \in pfCompiled)
    /\ pfAnswer \in PfAnswers
    /\ pfAnswer.outcome # "none" => pfStored # PfNone
    /\ CompiledIsEnforced

-----------------------------------------------------------------------------
(* A compiled body passes every check of the engine's validate_snapshot.   *)
LEMMA CompiledIsValid ==
    ASSUME NEW body, PfSound(body) PROVE PfValid(body)
<1>1. body.trust \in PfDomains /\ body.sink \in PfSinks /\ body.capture \in PfCaptures
      /\ body.scope \in PfScopes /\ body.commissioned \in BOOLEAN
  BY DEF PfSound, PfBodies
<1>2. PfSessionValid(body)
  BY DEF PfSound, PfSessionValid
<1>3. PfCaptureValid(body.capture)
  BY <1>1 DEF PfSound, PfSnapshot, PfCaptureValid, PfCaptures, PfCommitments, PfEphemeral
<1>4. PfScopeValid(body.scope)
  BY <1>1 DEF PfSound, PfScopeContract, PfScopeValid, PfScopes
<1>5. PfSinkValid(body.sink)
  BY <1>1 DEF PfSound, PfSinkContract, PfSinkValid, PfSinks
<1>6. PfContextValid(body)
  BY <1>1 DEF PfSound, PfAdmits, PfContextValid, PfDomains, PfSinks
<1> QED
  BY <1>2, <1>3, <1>4, <1>5, <1>6 DEF PfValid

(* What compile_policy_source stores is sound, and is its own digest.      *)
LEMMA CompileIsSound ==
    ASSUME NEW trust \in PfDomains, NEW commissioned \in BOOLEAN, NEW valid \in Nat,
           NEW source, source.sink \in PfSinks, source.capture \in PfCaptures,
           source.scope \in PfScopes,
           PfCompile(trust, commissioned, valid, source)
    PROVE  \E body : /\ PfSound(body)
                     /\ pfCompiled' = pfCompiled \cup {body}
                     /\ pfStored' = [body |-> body, digest |-> body]
<1> DEFINE body == [trust |-> trust, commissioned |-> commissioned, sink |-> source.sink,
                    capture |-> source.capture, scope |-> source.scope,
                    age |-> source.age, expires |-> PfIssued + valid]
<1>1. /\ pfCompiled' = pfCompiled \cup {body}
      /\ pfStored' = [body |-> body, digest |-> body]
  BY DEF PfCompile
<1>2. body \in PfBodies
  <2>1. valid \in 1..PfMaxValid /\ source.age \in 1..PfMaxAge
    BY DEF PfCompile, PfContext, PfSource
  <2>2. PfIssued + valid \in PfIssued + 1..PfIssued + PfMaxValid
    BY <2>1, PfConstants
  <2> QED
    BY <2>1, <2>2 DEF PfBodies
<1>3. PfSound(body)
  BY <1>2 DEF PfCompile, PfContext, PfSource, PfContextual, PfSound
<1> QED
  BY <1>1, <1>3

-----------------------------------------------------------------------------
LEMMA PfInitInv == PfInit => PfInv
  BY PfConstants DEF PfInit, PfInv, PfNoAnswer, PfAnswers, CompiledIsEnforced

(* Compiling, while nothing was decided, keeps the invariant.              *)
LEMMA PfCompileInv ==
    ASSUME PfInv, pfAnswer.outcome = "none", UNCHANGED <<pfRequest, pfAnswer>>,
           NEW body, PfSound(body), pfCompiled' = pfCompiled \cup {body},
           pfStored' = [body |-> body, digest |-> body]
    PROVE  PfInv'
<1>1. pfStored' \in PfDocuments /\ pfStored'.digest \in pfCompiled'
  BY DEF PfDocuments, PfSound
<1>2. \A b \in pfCompiled' : PfSound(b)
  BY DEF PfInv
<1>3. CompiledIsEnforced'
  BY DEF CompiledIsEnforced
<1> QED
  BY <1>1, <1>2, <1>3 DEF PfInv, PfSound

LEMMA PfNextInv == PfInv /\ [PfNext]_pfVars => PfInv'
<1> SUFFICES ASSUME PfInv, [PfNext]_pfVars PROVE PfInv'
  OBVIOUS
<1>1. CASE PfCommission
  <2>1. pfStored = PfNone
    BY <1>1 DEF PfInv, PfCommission
  <2>2. pfAnswer.outcome = "none"
    BY <2>1 DEF PfInv
  <2>3. PICK trust \in PfDomains, commissioned \in BOOLEAN, valid \in 1..PfMaxValid + 1,
             sink \in PfSinks, capture \in PfCaptures, scope \in PfScopes,
             age \in 0..PfMaxAge + 1 :
           PfCompile(trust, commissioned, valid,
                     [sink |-> sink, capture |-> capture, scope |-> scope, age |-> age])
    BY <1>1 DEF PfCommission
  <2>4. \E body : /\ PfSound(body)
                  /\ pfCompiled' = pfCompiled \cup {body}
                  /\ pfStored' = [body |-> body, digest |-> body]
    BY <2>3, CompileIsSound, PfConstants
  <2> QED
    BY <1>1, <2>2, <2>4, PfCompileInv DEF PfCommission
<1>2. CASE PfRevise
  <2>1. PICK body \in pfCompiled :
           PfCompile(body.trust, body.commissioned, body.expires - PfIssued,
                     [sink |-> [body.sink EXCEPT !.disclosure = "deny"],
                      capture |-> body.capture, scope |-> body.scope, age |-> body.age])
    BY <1>2 DEF PfRevise
  <2>2. body \in PfBodies
    BY DEF PfInv, PfSound
  <2>3. /\ body.trust \in PfDomains /\ body.commissioned \in BOOLEAN
        /\ body.expires - PfIssued \in Nat
        /\ body.capture \in PfCaptures /\ body.scope \in PfScopes
        /\ [body.sink EXCEPT !.disclosure = "deny"] \in PfSinks
    BY <2>2, PfConstants DEF PfBodies, PfSinks, PfDisclosures
  <2>4. \E b : /\ PfSound(b)
               /\ pfCompiled' = pfCompiled \cup {b}
               /\ pfStored' = [body |-> b, digest |-> b]
    BY <2>1, <2>3, CompileIsSound
  <2> QED
    BY <1>2, <2>4, PfCompileInv DEF PfRevise, PfNoAnswer
<1>3. CASE PfAltered
  <2>1. pfStored' \in PfDocuments /\ pfStored'.digest = pfStored.digest
    BY <1>3 DEF PfAltered, PfInv, PfDocuments, PfBodies, PfCaptures
  <2>2. CompiledIsEnforced'
    BY <1>3 DEF PfAltered, CompiledIsEnforced, PfNoAnswer
  <2>3. pfAnswer'.outcome = "none"
    BY <1>3 DEF PfAltered, PfNoAnswer
  <2> QED
    BY <1>3, <2>1, <2>2, <2>3 DEF PfAltered, PfInv
<1>4. CASE PfAsk
  <2>1. pfRequest' \in PfRequests /\ pfRequest'.body \in pfCompiled
    BY <1>4 DEF PfAsk, PfRequests, PfInv, PfSound, PfBodies, PfSinks
  <2>2. CompiledIsEnforced'
    BY <1>4 DEF PfAsk, CompiledIsEnforced, PfNoAnswer
  <2> QED
    BY <1>4, <2>1, <2>2 DEF PfAsk, PfInv
<1>5. CASE PfEvaluate
  <2>1. PICK now \in 0..PfHorizon, context \in BOOLEAN, registered \in BOOLEAN :
           pfAnswer' = [outcome |-> PfOutcome(pfStored, pfRequest, now, context, registered),
                        at |-> now]
    BY <1>5 DEF PfEvaluate
  <2> DEFINE body == pfStored.body
             outcome == PfOutcome(pfStored, pfRequest, now, context, registered)
  <2>2. /\ pfStored \in PfDocuments /\ pfStored.digest \in pfCompiled
        /\ pfRequest \in PfRequests /\ body \in PfBodies
        /\ UNCHANGED <<pfCompiled, pfStored, pfRequest>> /\ pfStored # PfNone
    BY <1>5 DEF PfEvaluate, PfInv, PfDocuments
  <2>3. pfAnswer' \in PfAnswers
    BY <2>1 DEF PfAnswers, PfOutcome
  <2>4. outcome = "invalid" => body \notin pfCompiled
    BY CompiledIsValid DEF PfInv, PfOutcome
  <2>5. ASSUME outcome = "accepted"
        PROVE  /\ body \in pfCompiled /\ pfRequest.body = body
               /\ now \in PfIssued..body.expires - 1
               /\ now - PfIssued < body.age
               /\ pfRequest.disclosure = body.sink.disclosure
               /\ body.sink.disclosure # "deny"
               /\ body.sink.trust \in PfAdmits(body.trust)
               /\ body.sink.disclosure = "safe-unredacted" =>
                      body.commissioned /\ body.capture.required
                      /\ body.capture.commitment \in PfPersistent
    <3>1. PfFresh(body, now) /\ pfStored.digest = body /\ pfRequest.body = body
          /\ pfRequest.disclosure = body.sink.disclosure /\ body.sink.disclosure # "deny"
      BY <2>5 DEF PfOutcome
    <3>2. PfSound(body)
      BY <2>2, <3>1 DEF PfInv
    <3>3. body.age \in Nat /\ body.expires \in Nat /\ now \in Nat
      BY <2>2, PfConstants DEF PfBodies
    <3>4. now \in PfIssued..body.expires - 1 /\ now - PfIssued < body.age
      BY <3>1, <3>3, PfConstants DEF PfFresh
    <3>5. body.sink.disclosure = "safe-unredacted" => body.trust = "trusted-local"
      BY <2>2, <3>2 DEF PfSound, PfSinkContract, PfAdmits, PfBodies, PfDomains
    <3> QED
      BY <2>2, <3>1, <3>2, <3>4, <3>5 DEF PfSound
  <2>6. pfAnswer'.outcome = outcome /\ pfAnswer'.at = now
    BY <2>1
  <2>7. CompiledIsEnforced'
    BY <2>2, <2>4, <2>5, <2>6 DEF CompiledIsEnforced
  <2> QED
    BY <2>2, <2>3, <2>7 DEF PfInv
<1>6. CASE PfAnswered \/ UNCHANGED pfVars
  BY <1>6 DEF PfAnswered, pfVars, PfInv, CompiledIsEnforced
<1> QED
  BY <1>1, <1>2, <1>3, <1>4, <1>5, <1>6 DEF PfNext

(* The invariant holds in every reachable state of compile_policy_source   *)
(* and evaluate_policy.                                                    *)
THEOREM PolicyInvariance == PfSpec => []PfInv
<1>1. PfInit => PfInv
  BY PfInitInv
<1>2. PfInv /\ [PfNext]_pfVars => PfInv'
  BY PfNextInv
<1> QED
  BY <1>1, <1>2, PTL DEF PfSpec

(* What compile_policy_source produced is never invalid to evaluate_policy,*)
(* and what that accepts was compiled as it stands, is fresh and is bound  *)
(* by its request, for every bound of ages and times.                      *)
THEOREM PolicyIsEnforced == PfSpec => []CompiledIsEnforced
<1>1. PfInv => CompiledIsEnforced
  BY DEF PfInv
<1> QED
  BY <1>1, PolicyInvariance, PTL

(* The variables of the policy flow keep their types.                      *)
THEOREM PfTyping == PfSpec => []PfTypeOK
<1>1. PfInv => PfTypeOK
  BY DEF PfInv, PfSound, PfDocuments, PfAnswers, PfTypeOK
<1> QED
  BY <1>1, PolicyInvariance, PTL

-----------------------------------------------------------------------------
(* Rollout.                                                                *)

\* The inductive invariant.  A selection that carries the pinned digest is a
\* native one, so it is in the history; the history needs the evidence that
\* its tracks were chosen with, which only grows.
RoInv ==
    /\ roGates \subseteq RoGates /\ roPoints \in RoBasisPoints
    /\ roDefault \in BOOLEAN /\ roPinned \in BOOLEAN
    /\ roDisk \in 0..RoMaxSwaps + 1 /\ roSwaps \in 0..RoMaxSwaps
    /\ roRan \in [0..RoMaxSwaps + 1 -> 0..RoMaxRuns]
    /\ roHistory \subseteq {"shadow", "canary", "default"}
    /\ roLast.track \in RoTracks \cup {"none"} /\ roLast.digest \in {0, 1}
    /\ roLast.digest = 1 => roHistory # {}
    /\ RolloutFailsClosed

-----------------------------------------------------------------------------
LEMMA RoInitInv == RoInit => RoInv
<1> SUFFICES ASSUME RoInit PROVE RoInv
  OBVIOUS
<1>1. roLast.track = "none" /\ roLast.digest = 0
  BY DEF RoInit, RoNone
<1>2. roRan \in [0..RoMaxSwaps + 1 -> 0..RoMaxRuns] /\ \A d \in DOMAIN roRan : roRan[d] = 0
  BY RoConstants DEF RoInit
<1>3. RolloutFailsClosed
  BY <1>2 DEF RoInit, RolloutFailsClosed
<1>4. roPoints \in RoBasisPoints /\ roDisk \in 0..RoMaxSwaps + 1 /\ roSwaps \in 0..RoMaxSwaps
  BY RoConstants DEF RoInit
<1>5. /\ roGates \subseteq RoGates /\ roHistory \subseteq {"shadow", "canary", "default"}
      /\ roDefault \in BOOLEAN /\ roPinned \in BOOLEAN
  BY DEF RoInit
<1> QED
  BY <1>1, <1>2, <1>3, <1>4, <1>5 DEF RoInv

(* select_rollout_engines answers a native track only with what it needs.  *)
LEMMA RoTrackIsGated ==
    ASSUME NEW mode, NEW enabled, NEW release \in BOOLEAN, NEW key \in BOOLEAN,
           NEW probe, roGates \subseteq RoGates,
           NEW track, track = RoTrack(mode, enabled, release, key, probe)
    PROVE  /\ track \in RoTracks
           /\ track \in {"shadow", "canary", "default"} => roPinned /\ RoPreShadow(roGates)
           /\ track = "canary" => "shadow" \in roGates /\ RoBucket < roPoints
           /\ track = "default" => roGates = RoGates /\ roDefault
<1>1. RoDefaultPassed(roGates) => roGates = RoGates
  BY DEF RoDefaultPassed, RoPreCanary, RoPreShadow, RoGates
<1>2. RoPreCanary(roGates) => "shadow" \in roGates
  BY DEF RoPreCanary
<1> QED
  BY <1>1, <1>2 DEF RoTrack, RoTracks

LEMMA RoNextInv == RoInv /\ [RoNext]_roVars => RoInv'
<1> SUFFICES ASSUME RoInv, [RoNext]_roVars PROVE RoInv'
  OBVIOUS
<1>1. CASE RoPublish
  <2>1. PICK gates \in SUBSET RoGates, points \in RoBasisPoints,
             default \in BOOLEAN, pinned \in BOOLEAN :
           /\ roGates \subseteq gates /\ roPoints <= points
           /\ roDefault => default
           /\ roPinned => pinned
           /\ roGates' = gates /\ roPoints' = points
           /\ roDefault' = default /\ roPinned' = pinned
    BY <1>1 DEF RoPublish
  <2>2. UNCHANGED <<roDisk, roSwaps, roLast, roHistory, roRan>>
    BY <1>1 DEF RoPublish
  <2>3. RoPreShadow(roGates) => RoPreShadow(roGates')
    BY <2>1 DEF RoPreShadow
  <2>4. RoBucket < roPoints => RoBucket < roPoints'
    BY <2>1, RoConstants DEF RoInv
  <2>5. RolloutFailsClosed'
    BY <2>1, <2>2, <2>3, <2>4 DEF RoInv, RolloutFailsClosed
  <2> QED
    BY <2>1, <2>2, <2>5 DEF RoInv
<1>2. CASE RoSwap
  <2>1. roDisk' \in 0..RoMaxSwaps + 1 /\ roSwaps' \in 0..RoMaxSwaps
    BY <1>2, RoConstants DEF RoInv, RoSwap
  <2>2. RolloutFailsClosed'
    BY <1>2 DEF RoInv, RoSwap, roEvidence, RolloutFailsClosed
  <2> QED
    BY <1>2, <2>1, <2>2 DEF RoInv, RoSwap, roEvidence
<1>3. CASE RoSelect
  <2>1. PICK mode \in RoModes, enabled \in {"none", "0", "1", "other"},
             release \in BOOLEAN, key \in BOOLEAN,
             probe \in [clean : BOOLEAN, negotiated : BOOLEAN] :
           LET track == RoTrack(mode, enabled, release, key, probe)
               native == track \in {"shadow", "canary", "default"} IN
           /\ roLast' = [mode |-> mode, track |-> track,
                         digest |-> IF native THEN 1 ELSE 0]
           /\ roHistory' = IF native THEN roHistory \cup {track} ELSE roHistory
    BY <1>3 DEF RoSelect
  <2> DEFINE track == RoTrack(mode, enabled, release, key, probe)
             native == track \in {"shadow", "canary", "default"}
  <2>2. UNCHANGED <<roGates, roPoints, roDefault, roPinned, roDisk, roSwaps, roRan>>
    BY <1>3 DEF RoSelect, roEvidence
  <2>3. /\ track \in RoTracks
        /\ native => roPinned /\ RoPreShadow(roGates)
        /\ track = "canary" => "shadow" \in roGates /\ RoBucket < roPoints
        /\ track = "default" => roGates = RoGates /\ roDefault
    BY RoTrackIsGated DEF RoInv
  <2>4. /\ roLast'.track = track /\ roLast'.digest = IF native THEN 1 ELSE 0
        /\ roHistory' = IF native THEN roHistory \cup {track} ELSE roHistory
    BY <2>1
  <2> HIDE DEF track
  <2>5. RolloutFailsClosed'
    BY <2>2, <2>3, <2>4 DEF RoInv, RolloutFailsClosed, RoPreShadow
  <2> QED
    BY <2>2, <2>3, <2>4, <2>5 DEF RoInv
<1>4. CASE RoRunNative
  <2>1. UNCHANGED <<roGates, roPoints, roDefault, roPinned, roDisk, roSwaps, roLast, roHistory>>
    BY <1>4 DEF RoRunNative, roEvidence
  <2>2. CASE RoHashed
    <3>1. roDisk = 1 /\ roHistory # {}
      BY <1>4, <2>2 DEF RoRunNative, RoHashed, RoInv
    <3>2. roRan' = [roRan EXCEPT ![1] = @ + 1] /\ roRan[1] < RoMaxRuns
      BY <1>4, <2>2, <3>1 DEF RoRunNative
    <3>3. roRan' \in [0..RoMaxSwaps + 1 -> 0..RoMaxRuns]
      BY <3>2, RoConstants DEF RoInv
    <3>4. \A d \in DOMAIN roRan' : d # 1 => roRan'[d] = roRan[d]
      BY <3>2 DEF RoInv
    <3>5. RolloutFailsClosed'
      BY <2>1, <3>1, <3>2, <3>4 DEF RoInv, RolloutFailsClosed
    <3> QED
      BY <2>1, <3>3, <3>5 DEF RoInv
  <2>3. CASE ~RoHashed
    BY <1>4, <2>1, <2>3 DEF RoRunNative, RoInv, RolloutFailsClosed
  <2> QED
    BY <2>2, <2>3
<1>5. CASE UNCHANGED roVars
  BY <1>5 DEF roVars, roEvidence, RoInv, RolloutFailsClosed
<1> QED
  BY <1>1, <1>2, <1>3, <1>4, <1>5 DEF RoNext

(* The invariant holds in every reachable state of the rollout.            *)
THEOREM RoInvariance == RoSpec => []RoInv
  BY RoInitInv, RoNextInv, PTL DEF RoSpec

(* select_rollout_engines and run_native fail closed: only the artifact    *)
(* the evidence pins is ever executed, and native tracks come only after   *)
(* their gates, however often the artifact is replaced.                    *)
THEOREM RolloutIsFailClosed == RoSpec => []RolloutFailsClosed
<1>1. RoInv => RolloutFailsClosed
  BY DEF RoInv
<1> QED
  BY <1>1, RoInvariance, PTL

(* The variables of the rollout keep their types.                          *)
THEOREM RoTyping == RoSpec => []RoTypeOK
<1>1. RoInv => RoTypeOK
  BY DEF RoInv, RoTypeOK
<1> QED
  BY <1>1, RoInvariance, PTL

-----------------------------------------------------------------------------
(* Bundles.                                                                *)

\* What the build tree can have held.
BdWritten == 1..BdMaxEdits + 1

\* Digests that make a bundle whole.
BdWhole(pins) ==
    /\ DOMAIN pins = BdPinned
    /\ \A i \in BdPinned : pins[i] \in BdWritten
    /\ \A i \in BdNatives : pins[i] = pins[2] /\ pins[BdDocument(i)] = pins[i]
    /\ BdTotal(pins) <= BdMaxTotal

\* Nothing torn is opened or staged.
BdUntorn ==
    /\ \A i \in BdInputs : bdSource[i] \in 1..bdEdits + 1
    /\ \A b \in BdBuilders :
           /\ bdPc[b] = "copy" => bdOpened[b] \in BdWritten
           /\ \A j \in DOMAIN bdStage[b] \cap BdPinned : bdStage[b][j] \in BdWritten

\* Where a builder is and what its stage holds.
BdStaged ==
    /\ DOMAIN bdStage = BdBuilders
    /\ \A b \in BdBuilders :
           /\ bdPc[b] \in {"called", "open", "copy", "probe", "manifest"} =>
                  DOMAIN bdStage[b] \subseteq BdPinned
           /\ bdPc[b] = "probe" => bdAt[b] \in DOMAIN bdStage[b]
           /\ bdPc[b] = "publish" => BdWhole(Restrict(bdStage[b], BdPinned))
           /\ bdPc[b] = "returned" => bdDest = b

\* What was published stays as it was pinned.
BdPublished ==
    /\ bdDest = "none" => bdPins = BdNothing
    /\ bdDest # "none" => BdWhole(bdPins)

\* The rehearsal and the descriptor it holds.
BdPlayed ==
    /\ bdPlay # "called" => bdDest # "none"
    /\ bdPlay = "execute" => bdHeld = bdPins[2]
    /\ bdPlay \notin {"rollback", "passed", "raised"} => bdRuns >= 1
    /\ bdDest = "none" => bdRan = {}
    /\ bdDest # "none" => bdRan \subseteq {bdPins[2]}

BdInv == BdTypeOK /\ BdUntorn /\ BdStaged /\ BdPublished /\ BdPlayed

-----------------------------------------------------------------------------
BdLabels == {"called", "open", "copy", "probe", "manifest", "publish", "returned",
             "raised", "killed"}

(* The places of the members of a bundle.                                  *)
LEMMA BdPlaces ==
    /\ BdHosts \in Nat /\ BdHosts > 0
    /\ 1 \in BdInputs /\ 2 \in BdNatives /\ BdNatives \subseteq BdInputs /\ BdInputs \subseteq BdPinned
    /\ BdPinned \subseteq BdMembers /\ BdManifestFile \notin BdPinned
    /\ \A i \in BdNatives : i + 1 \in BdInputs /\ BdDocument(i) \in BdPinned
    /\ \A j \in BdInputs : j = 1 \/ j \in BdNatives \/ j - 1 \in BdNatives
<1>1. BdHosts \in Nat /\ BdHosts > 0
  BY BdConstants
<1>2. 1 \in BdInputs /\ 2 \in BdNatives /\ BdNatives \subseteq BdInputs
  BY <1>1 DEF BdInputs, BdNatives
<1>3. BdInputs \subseteq BdPinned /\ BdPinned \subseteq BdMembers
      /\ \A i \in BdNatives : BdDocument(i) \in BdPinned
  BY DEF BdPinned, BdMembers
<1>4. ASSUME NEW i \in BdNatives PROVE i + 1 \in BdInputs /\ BdDocument(i) > 0
  <2>1. i \in Nat /\ i % 2 = 0 /\ 1 <= i /\ i <= 2 * BdHosts + 1
    BY <1>1, <1>4 DEF BdNatives, BdInputs
  <2>2. i # 2 * BdHosts + 1
    BY <1>1, <2>1
  <2>3. i \div 2 \in Nat
    BY <2>1
  <2> QED
    BY <1>1, <2>1, <2>2, <2>3 DEF BdInputs, BdDocument
<1>5. BdManifestFile \notin BdPinned
  BY <1>1, <1>4 DEF BdManifestFile, BdPinned, BdInputs
<1>6. ASSUME NEW j \in BdInputs PROVE j = 1 \/ j \in BdNatives \/ j - 1 \in BdNatives
  <2>1. j \in Nat /\ 1 <= j /\ j <= 2 * BdHosts + 1
    BY <1>1 DEF BdInputs
  <2>2. j % 2 = 0 \/ (j - 1) % 2 = 0
    BY <2>1
  <2> QED
    BY <1>1, <2>1, <2>2 DEF BdNatives, BdInputs
<1> QED
  BY <1>1, <1>2, <1>3, <1>4, <1>5, <1>6

LEMMA BdInitInv == BdInit => BdInv
<1> SUFFICES ASSUME BdInit PROVE BdInv
  OBVIOUS
<1>1. DOMAIN BdNothing = {}
  BY DEF BdNothing
<1>2. \A b \in BdBuilders : bdStage[b] = BdNothing /\ bdPc[b] = "called"
  BY DEF BdInit
<1>3. {0, 1} \subseteq BdContents /\ 1 \in BdInputs
  BY BdConstants, BdPlaces DEF BdContents
<1>4. BdTypeOK
  BY <1>1, <1>2, <1>3, BdConstants DEF BdInit, BdTypeOK
<1>5. BdUntorn
  BY <1>1, <1>2 DEF BdInit, BdUntorn
<1>6. BdStaged
  BY <1>1, <1>2 DEF BdInit, BdStaged
<1>7. BdPublished /\ BdPlayed
  BY BdConstants DEF BdInit, BdPublished, BdPlayed
<1> QED
  BY <1>4, <1>5, <1>6, <1>7 DEF BdInv

(* A step of one builder before it publishes keeps the invariant when what *)
(* it leaves in its own stage fits where it goes.                          *)
LEMMA BdBuilderStep ==
    ASSUME BdInv, NEW b \in BdBuilders, NEW label \in BdLabels \ {"returned"}, BdGoto(b, label),
           UNCHANGED <<bdSource, bdEdits, bdDrifts, bdBundle, bdRehearsal>>,
           bdAt' \in [BdBuilders -> BdInputs], bdOpened' \in [BdBuilders -> BdContents],
           \A r \in BdBuilders : r # b => bdAt'[r] = bdAt[r] /\ bdOpened'[r] = bdOpened[r],
           DOMAIN bdStage' = BdBuilders,
           \A r \in BdBuilders : r # b => bdStage'[r] = bdStage[r],
           DOMAIN bdStage'[b] \subseteq BdMembers,
           \A j \in DOMAIN bdStage'[b] \cap BdPinned : bdStage'[b][j] \in BdWritten,
           label = "copy" => bdOpened'[b] \in BdWritten,
           label \in {"called", "open", "copy", "probe", "manifest"} =>
               DOMAIN bdStage'[b] \subseteq BdPinned,
           label = "probe" => bdAt'[b] \in DOMAIN bdStage'[b],
           label = "publish" => BdWhole(Restrict(bdStage'[b], BdPinned))
    PROVE  BdInv'
<1>1. /\ bdPc' \in [BdBuilders -> BdLabels] /\ bdPc'[b] = label
      /\ \A r \in BdBuilders : r # b => bdPc'[r] = bdPc[r]
  BY DEF BdGoto, BdInv, BdTypeOK, BdLabels
<1>2. BdTypeOK'
  <2>1. \A r \in BdBuilders : DOMAIN bdStage'[r] \subseteq BdMembers
    BY DEF BdInv, BdTypeOK
  <2> QED
    BY <1>1, <2>1 DEF BdInv, BdTypeOK, BdLabels, bdBundle, bdRehearsal
<1>3. BdUntorn'
  <2>1. ASSUME NEW r \in BdBuilders
        PROVE  /\ bdPc'[r] = "copy" => bdOpened'[r] \in BdWritten
               /\ \A j \in DOMAIN bdStage'[r] \cap BdPinned : bdStage'[r][j] \in BdWritten
    <3>1. CASE r = b
      BY <1>1, <3>1
    <3>2. CASE r # b
      BY <1>1, <3>2 DEF BdInv, BdUntorn
    <3> QED
      BY <3>1, <3>2
  <2> QED
    BY <2>1 DEF BdInv, BdUntorn
<1>4. BdStaged'
  <2>1. ASSUME NEW r \in BdBuilders
        PROVE  /\ bdPc'[r] \in {"called", "open", "copy", "probe", "manifest"} =>
                      DOMAIN bdStage'[r] \subseteq BdPinned
               /\ bdPc'[r] = "probe" => bdAt'[r] \in DOMAIN bdStage'[r]
               /\ bdPc'[r] = "publish" => BdWhole(Restrict(bdStage'[r], BdPinned))
               /\ bdPc'[r] = "returned" => bdDest' = r
    <3>1. CASE r = b
      BY <1>1, <3>1
    <3>2. CASE r # b
      BY <1>1, <3>2 DEF BdInv, BdStaged, bdBundle
    <3> QED
      BY <3>1, <3>2
  <2> QED
    BY <2>1 DEF BdStaged
<1>5. BdPublished' /\ BdPlayed'
  BY DEF BdInv, BdPublished, BdPlayed, bdBundle, bdRehearsal
<1> QED
  BY <1>2, <1>3, <1>4, <1>5 DEF BdInv

(* Whatever a builder was doing, it may be told to stop: raised or killed. *)
LEMMA BdStopStep ==
    ASSUME BdInv, NEW b \in BdBuilders, NEW label \in {"raised", "killed", "open"},
           BdGoto(b, label),
           UNCHANGED <<bdSource, bdEdits, bdDrifts, bdAt, bdOpened, bdBundle, bdRehearsal>>,
           UNCHANGED bdStage \/ bdStage' = [bdStage EXCEPT ![b] = BdNothing],
           label = "open" => bdPc[b] = "called"
    PROVE  BdInv'
<1>1. DOMAIN bdStage = BdBuilders /\ DOMAIN BdNothing = {}
  BY DEF BdInv, BdStaged, BdNothing
<1>2. /\ DOMAIN bdStage' = BdBuilders
      /\ \A r \in BdBuilders : r # b => bdStage'[r] = bdStage[r]
      /\ bdStage'[b] \in {bdStage[b], BdNothing}
  BY <1>1
<1>3. /\ bdAt \in [BdBuilders -> BdInputs] /\ bdOpened \in [BdBuilders -> BdContents]
      /\ DOMAIN bdStage[b] \subseteq BdMembers
      /\ \A j \in DOMAIN bdStage[b] \cap BdPinned : bdStage[b][j] \in BdWritten
      /\ label = "open" => DOMAIN bdStage[b] \subseteq BdPinned
  BY DEF BdInv, BdTypeOK, BdUntorn, BdStaged
<1>4. label \in BdLabels \ {"returned"}
  BY DEF BdLabels
<1>5. /\ DOMAIN bdStage'[b] \subseteq BdMembers
      /\ \A j \in DOMAIN bdStage'[b] \cap BdPinned : bdStage'[b][j] \in BdWritten
      /\ label = "open" => DOMAIN bdStage'[b] \subseteq BdPinned
  <2>1. CASE bdStage'[b] = bdStage[b]
    BY <1>3, <2>1
  <2>2. CASE bdStage'[b] = BdNothing
    BY <1>1, <2>2
  <2> QED
    BY <1>2, <2>1, <2>2
<1> QED
  BY <1>2, <1>3, <1>4, <1>5, BdBuilderStep

LEMMA BdPrepareInv == ASSUME BdInv, NEW b \in BdBuilders, BdPrepare(b) PROVE BdInv'
<1>1. PICK label \in {"open", "raised"} : BdGoto(b, label)
  BY DEF BdPrepare, BdMakeStage
<1> QED
  BY <1>1, BdStopStep DEF BdPrepare

LEMMA BdKilledInv == ASSUME BdInv, NEW b \in BdBuilders, BdKilled(b) PROVE BdInv'
  BY BdStopStep DEF BdKilled

(* _copy_input: what is written is what was there at both ends.            *)
LEMMA BdCopyInv ==
    ASSUME BdInv, NEW b \in BdBuilders, BdOpen(b) \/ BdCopy(b) PROVE BdInv'
<1>1. /\ bdAt \in [BdBuilders -> BdInputs] /\ bdOpened \in [BdBuilders -> BdContents]
      /\ bdEdits \in 0..BdMaxEdits /\ DOMAIN bdStage = BdBuilders
      /\ DOMAIN bdStage[b] \subseteq BdMembers
      /\ \A j \in DOMAIN bdStage[b] \cap BdPinned : bdStage[b][j] \in BdWritten
      /\ bdPc[b] \in {"open", "copy"} => DOMAIN bdStage[b] \subseteq BdPinned
  BY DEF BdInv, BdTypeOK, BdUntorn, BdStaged
<1>2. bdSource[bdAt[b]] \in BdWritten
  <2>1. bdSource[bdAt[b]] \in 1..bdEdits + 1
    BY <1>1 DEF BdInv, BdUntorn
  <2> QED
    BY <1>1, <2>1, BdConstants DEF BdWritten
<1>3. BdWritten \subseteq BdContents
  BY BdConstants DEF BdWritten, BdContents
<1>4. bdAt[b] \in BdInputs /\ bdAt[b] \in BdPinned /\ BdPinned \subseteq BdMembers
  BY <1>1, BdPlaces
<1>5. CASE BdRaise(b) /\ UNCHANGED bdOpened
  <2>1. UNCHANGED <<bdSource, bdEdits, bdDrifts, bdAt, bdBundle, bdRehearsal>>
    BY DEF BdOpen, BdCopy
  <2> QED
    BY <1>5, <2>1, BdStopStep DEF BdRaise
<1>6. CASE /\ bdPc[b] = "open" /\ BdGoto(b, "copy") /\ UNCHANGED bdStage
           /\ bdOpened' = [bdOpened EXCEPT ![b] = bdSource[bdAt[b]]]
           /\ UNCHANGED <<bdSource, bdEdits, bdDrifts, bdAt, bdBundle, bdRehearsal>>
  <2>1. /\ bdOpened' \in [BdBuilders -> BdContents] /\ bdOpened'[b] \in BdWritten
        /\ \A r \in BdBuilders : r # b => bdOpened'[r] = bdOpened[r]
    BY <1>1, <1>2, <1>3, <1>6
  <2>2. "copy" \in BdLabels \ {"returned"}
    BY DEF BdLabels
  <2> QED
    BY <1>1, <1>6, <2>1, <2>2, BdBuilderStep
<1>7. CASE /\ bdPc[b] = "copy" /\ BdWrite(b, bdAt[b], bdOpened[b]) /\ BdGoto(b, "probe")
           /\ UNCHANGED <<bdSource, bdEdits, bdDrifts, bdAt, bdOpened, bdBundle, bdRehearsal>>
  <2>1. /\ DOMAIN bdStage' = BdBuilders
        /\ \A r \in BdBuilders : r # b => bdStage'[r] = bdStage[r]
        /\ DOMAIN bdStage'[b] = DOMAIN bdStage[b] \cup {bdAt[b]}
        /\ bdStage'[b][bdAt[b]] = bdOpened[b]
        /\ \A j \in DOMAIN bdStage[b] : j # bdAt[b] => bdStage'[b][j] = bdStage[b][j]
    <3>1. /\ DOMAIN bdStage' = BdBuilders
          /\ bdStage'[b] = BdWith(bdStage[b], bdAt[b], bdOpened[b])
          /\ \A r \in BdBuilders : r # b => bdStage'[r] = bdStage[r]
      BY <1>1, <1>7 DEF BdWrite
    <3> QED
      BY <3>1 DEF BdWith
  <2>2. bdOpened[b] \in BdWritten
    BY <1>7 DEF BdInv, BdUntorn
  <2>3. \A j \in DOMAIN bdStage'[b] \cap BdPinned : bdStage'[b][j] \in BdWritten
    BY <1>1, <2>1, <2>2
  <2>4. "probe" \in BdLabels \ {"returned"}
    BY DEF BdLabels
  <2>5. DOMAIN bdStage'[b] \subseteq BdPinned /\ DOMAIN bdStage'[b] \subseteq BdMembers
        /\ bdAt[b] \in DOMAIN bdStage'[b]
    BY <1>1, <1>4, <1>7, <2>1
  <2> QED
    BY <1>1, <1>7, <2>1, <2>3, <2>4, <2>5, BdBuilderStep
<1>8. CASE BdOpen(b)
  BY <1>5, <1>6, <1>8 DEF BdOpen
<1>9. CASE BdCopy(b)
  BY <1>5, <1>7, <1>9 DEF BdCopy
<1> QED
  BY <1>8, <1>9

(* The reading of a wheel and the probe of a native artifact.              *)
LEMMA BdProbeInv ==
    ASSUME BdInv, NEW b \in BdBuilders, BdReadWheel(b) \/ BdProbe(b) PROVE BdInv'
<1>1. /\ bdAt \in [BdBuilders -> BdInputs] /\ bdOpened \in [BdBuilders -> BdContents]
      /\ DOMAIN bdStage = BdBuilders /\ bdPc[b] = "probe"
      /\ DOMAIN bdStage[b] \subseteq BdPinned /\ bdAt[b] \in DOMAIN bdStage[b]
      /\ \A j \in DOMAIN bdStage[b] \cap BdPinned : bdStage[b][j] \in BdWritten
      /\ BdPinned \subseteq BdMembers
  BY BdPlaces DEF BdReadWheel, BdProbe, BdInv, BdTypeOK, BdUntorn, BdStaged
<1>2. UNCHANGED <<bdSource, bdEdits, bdDrifts, bdOpened, bdBundle, bdRehearsal>>
  BY DEF BdReadWheel, BdProbe
<1>3. CASE BdRaise(b) /\ UNCHANGED bdAt
  BY <1>2, <1>3, BdStopStep DEF BdRaise
<1>4. ASSUME BdAdvance(b),
             DOMAIN bdStage' = BdBuilders,
             \A r \in BdBuilders : r # b => bdStage'[r] = bdStage[r],
             DOMAIN bdStage'[b] \subseteq BdPinned,
             \A j \in DOMAIN bdStage'[b] \cap BdPinned : bdStage'[b][j] \in BdWritten
      PROVE  BdInv'
  <2>1. PICK label \in {"manifest", "open"} :
           /\ BdGoto(b, label)
           /\ \/ UNCHANGED bdAt
              \/ bdAt[b] # 2 * BdHosts + 1 /\ bdAt' = [bdAt EXCEPT ![b] = @ + 1]
    BY <1>4 DEF BdAdvance
  <2>2. bdAt' \in [BdBuilders -> BdInputs] /\ \A r \in BdBuilders : r # b => bdAt'[r] = bdAt[r]
    <3>1. CASE UNCHANGED bdAt
      BY <1>1, <3>1
    <3>2. CASE bdAt[b] # 2 * BdHosts + 1 /\ bdAt' = [bdAt EXCEPT ![b] = @ + 1]
      <4>1. bdAt[b] + 1 \in BdInputs
        BY <1>1, <3>2, BdPlaces DEF BdInputs
      <4> QED
        BY <1>1, <3>2, <4>1
    <3> QED
      BY <2>1, <3>1, <3>2
  <2>3. label \in BdLabels \ {"returned"} /\ label \notin {"copy", "probe", "publish"}
    BY DEF BdLabels
  <2>4. DOMAIN bdStage'[b] \subseteq BdMembers
    BY <1>1, <1>4
  <2> QED
    BY <1>1, <1>2, <1>4, <2>1, <2>2, <2>3, <2>4, BdBuilderStep
<1>5. CASE BdAdvance(b) /\ UNCHANGED bdStage
  BY <1>1, <1>4, <1>5
<1>6. CASE /\ bdAt[b] \in BdNatives /\ BdAdvance(b)
           /\ BdWrite(b, BdDocument(bdAt[b]), bdStage[b][bdAt[b]])
  <2> DEFINE d == BdDocument(bdAt[b])
  <2>1. /\ DOMAIN bdStage' = BdBuilders
        /\ \A r \in BdBuilders : r # b => bdStage'[r] = bdStage[r]
        /\ DOMAIN bdStage'[b] = DOMAIN bdStage[b] \cup {d}
        /\ bdStage'[b][d] = bdStage[b][bdAt[b]]
        /\ \A j \in DOMAIN bdStage[b] : j # d => bdStage'[b][j] = bdStage[b][j]
    <3>1. /\ DOMAIN bdStage' = BdBuilders
          /\ bdStage'[b] = BdWith(bdStage[b], d, bdStage[b][bdAt[b]])
          /\ \A r \in BdBuilders : r # b => bdStage'[r] = bdStage[r]
      BY <1>1, <1>6 DEF BdWrite
    <3> QED
      BY <3>1 DEF BdWith
  <2>2. d \in BdPinned
    BY <1>6, BdPlaces
  <2> HIDE DEF d
  <2>3. \A j \in DOMAIN bdStage'[b] \cap BdPinned : bdStage'[b][j] \in BdWritten
    BY <1>1, <2>1
  <2> QED
    BY <1>1, <1>4, <1>6, <2>1, <2>2, <2>3
<1>7. CASE BdReadWheel(b)
  BY <1>3, <1>5, <1>7 DEF BdReadWheel
<1>8. CASE BdProbe(b)
  BY <1>3, <1>6, <1>8 DEF BdProbe
<1> QED
  BY <1>7, <1>8

(* check_bundle on the stage: the digests it goes by are the stage's own,  *)
(* so that what it establishes is that every member is there, that one     *)
(* engine covers all host classes, and the bound.                          *)
LEMMA BdManifestInv ==
    ASSUME BdInv, NEW b \in BdBuilders, BdManifest(b) PROVE BdInv'
<1> DEFINE stage == bdStage[b]
           files == BdWith(stage, BdManifestFile, BdCanonical)
<1>1. /\ bdAt \in [BdBuilders -> BdInputs] /\ bdOpened \in [BdBuilders -> BdContents]
      /\ DOMAIN bdStage = BdBuilders /\ bdPc[b] = "manifest"
      /\ DOMAIN stage \subseteq BdPinned
      /\ \A j \in DOMAIN stage \cap BdPinned : stage[j] \in BdWritten
  BY DEF BdManifest, BdInv, BdTypeOK, BdUntorn, BdStaged
<1>2. UNCHANGED <<bdSource, bdEdits, bdDrifts, bdAt, bdOpened, bdBundle, bdRehearsal>>
  BY DEF BdManifest
<1>3. CASE BdRaise(b)
  BY <1>2, <1>3, BdStopStep DEF BdRaise
<1>4. CASE /\ BdChecked(files, stage) /\ BdGoto(b, "publish")
           /\ BdWrite(b, BdManifestFile, BdCanonical)
  <2>1. /\ BdPinHolds(files, stage, 1)
        /\ \A i \in BdNatives : BdHostChecks(files, stage, i)
        /\ BdTotal(stage) <= BdMaxTotal
    BY <1>4 DEF BdChecked
  <2>2. /\ 1 \in DOMAIN stage
        /\ \A i \in BdNatives : /\ {i, i + 1, BdDocument(i)} \subseteq DOMAIN stage
                                /\ stage[BdDocument(i)] = stage[i] /\ stage[i] = stage[2]
    BY <2>1 DEF BdPinHolds, BdHostChecks
  <2>3. DOMAIN stage = BdPinned
    <3>1. ASSUME NEW j \in BdInputs PROVE j \in DOMAIN stage
      <4>1. CASE j - 1 \in BdNatives
        <5>1. j - 1 + 1 = j
          BY BdPlaces DEF BdInputs
        <5> QED
          BY <2>2, <4>1, <5>1
      <4> QED
        BY <2>2, <4>1, BdPlaces
    <3> QED
      BY <1>1, <2>2, <3>1 DEF BdPinned
  <2> HIDE DEF stage
  <2>4. /\ DOMAIN bdStage' = BdBuilders
        /\ \A r \in BdBuilders : r # b => bdStage'[r] = bdStage[r]
        /\ DOMAIN bdStage'[b] = DOMAIN stage \cup {BdManifestFile}
        /\ \A j \in DOMAIN stage : j # BdManifestFile => bdStage'[b][j] = stage[j]
    <3>1. /\ DOMAIN bdStage' = BdBuilders
          /\ bdStage'[b] = BdWith(bdStage[b], BdManifestFile, BdCanonical)
          /\ \A r \in BdBuilders : r # b => bdStage'[r] = bdStage[r]
      BY <1>1, <1>4 DEF BdWrite
    <3> QED
      BY <3>1 DEF BdWith, stage
  <2>5. \A j \in BdPinned : bdStage'[b][j] = stage[j]
    BY <2>3, <2>4, BdPlaces
  <2> DEFINE pins == Restrict(bdStage'[b], BdPinned)
  <2>6. DOMAIN pins = BdPinned /\ \A j \in BdPinned : pins[j] = stage[j]
    BY <2>5 DEF Restrict
  <2>7. BdTotal(pins) = BdTotal(stage)
    <3>1. DOMAIN pins \cap BdInputs = BdInputs /\ DOMAIN stage \cap BdInputs = BdInputs
      BY <2>3, <2>6, BdPlaces
    <3>2. \A j \in BdInputs : pins[j] = stage[j]
      BY <2>6, BdPlaces
    <3> HIDE DEF pins
    <3>3. Restrict(pins, DOMAIN pins \cap BdInputs) = Restrict(stage, DOMAIN stage \cap BdInputs)
      BY <3>1, <3>2 DEF Restrict
    <3> QED
      BY <3>3 DEF BdTotal
  <2> HIDE DEF pins
  <2>8. BdWhole(pins)
    <3>1. \A i \in BdPinned : pins[i] \in BdWritten
      BY <1>1, <2>3, <2>6
    <3>2. ASSUME NEW i \in BdNatives
          PROVE  pins[i] = pins[2] /\ pins[BdDocument(i)] = pins[i]
      <4>1. i \in BdPinned /\ 2 \in BdPinned /\ BdDocument(i) \in BdPinned
        BY BdPlaces
      <4> QED
        BY <2>2, <2>6, <4>1
    <3> QED
      BY <2>1, <2>6, <2>7, <3>1, <3>2 DEF BdWhole
  <2>9. "publish" \in BdLabels \ {"returned"}
    BY DEF BdLabels
  <2>10. /\ DOMAIN bdStage'[b] \subseteq BdMembers
         /\ \A j \in DOMAIN bdStage'[b] \cap BdPinned : bdStage'[b][j] \in BdWritten
    BY <1>1, <2>3, <2>4, <2>5, BdPlaces DEF BdMembers
  <2> QED
    BY <1>1, <1>2, <1>4, <2>4, <2>8, <2>9, <2>10, BdBuilderStep DEF pins
<1> QED
  BY <1>3, <1>4 DEF BdManifest

(* The rename that replaces nothing: the first builder there publishes.    *)
LEMMA BdPublishInv ==
    ASSUME BdInv, NEW b \in BdBuilders, BdPublish(b) PROVE BdInv'
<1>1. UNCHANGED <<bdSource, bdEdits, bdDrifts, bdAt, bdOpened, bdRehearsal>>
  BY DEF BdPublish
<1>2. CASE BdRaise(b) /\ UNCHANGED bdBundle
  BY <1>1, <1>2, BdStopStep DEF BdRaise
<1>3. CASE /\ bdDest = "none" /\ bdDest' = b /\ bdFiles' = bdStage[b]
           /\ bdPins' = Restrict(bdStage[b], BdPinned)
           /\ BdGoto(b, "returned") /\ UNCHANGED bdStage
  <2>1. /\ bdPc' \in [BdBuilders -> BdLabels] /\ bdPc'[b] = "returned"
        /\ \A r \in BdBuilders : r # b => bdPc'[r] = bdPc[r]
    BY <1>3 DEF BdGoto, BdInv, BdTypeOK, BdLabels
  <2>2. bdPc[b] = "publish" /\ \A r \in BdBuilders : bdPc[r] # "returned"
    BY <1>3, BdConstants DEF BdPublish, BdInv, BdStaged
  <2>3. BdWhole(bdPins')
    BY <1>3, <2>2 DEF BdInv, BdStaged
  <2>4. DOMAIN bdPins' = BdPinned /\ DOMAIN bdFiles' \subseteq BdMembers
    BY <1>3, <2>3 DEF BdWhole, BdInv, BdTypeOK
  <2>5. BdTypeOK'
    BY <1>1, <1>3, <2>1, <2>4 DEF BdInv, BdTypeOK, BdLabels, bdRehearsal
  <2>6. BdUntorn'
    BY <1>1, <1>3, <2>1 DEF BdInv, BdUntorn
  <2>7. BdStaged'
    <3>1. ASSUME NEW r \in BdBuilders
          PROVE  /\ bdPc'[r] \in {"called", "open", "copy", "probe", "manifest"} =>
                        DOMAIN bdStage'[r] \subseteq BdPinned
                 /\ bdPc'[r] = "probe" => bdAt'[r] \in DOMAIN bdStage'[r]
                 /\ bdPc'[r] = "publish" => BdWhole(Restrict(bdStage'[r], BdPinned))
                 /\ bdPc'[r] = "returned" => bdDest' = r
      <4>1. CASE r = b
        BY <1>3, <2>1, <4>1
      <4>2. CASE r # b
        BY <1>1, <1>3, <2>1, <2>2, <4>2 DEF BdInv, BdStaged
      <4> QED
        BY <4>1, <4>2
    <3> QED
      BY <1>3, <3>1 DEF BdInv, BdStaged
  <2>8. BdPublished'
    BY <1>3, <2>3, BdConstants DEF BdPublished
  <2>9. BdPlayed'
    BY <1>1, <1>3, BdConstants DEF BdInv, BdPlayed, bdRehearsal
  <2> QED
    BY <2>5, <2>6, <2>7, <2>8, <2>9 DEF BdInv
<1> QED
  BY <1>2, <1>3 DEF BdPublish, BdFree

(* The build tree is rewritten, whatever the builders are doing.           *)
LEMMA BdRewriteInv ==
    ASSUME BdInv, NEW i \in BdInputs, BdRewrite(i) PROVE BdInv'
<1>1. UNCHANGED <<bdDrifts, bdPc, bdAt, bdOpened, bdStage, bdDest, bdFiles, bdPins, bdPlay,
                  bdHeld, bdRuns, bdRan>>
  BY DEF BdRewrite, bdBuild, bdBundle, bdRehearsal
<1>2. bdEdits \in Nat /\ bdEdits < BdMaxEdits /\ bdEdits' = bdEdits + 1
      /\ BdMaxEdits \in Nat /\ BdMaxDrifts \in Nat
  BY BdConstants DEF BdRewrite, BdInv, BdTypeOK
<1>3. ASSUME NEW j \in BdInputs PROVE bdSource'[j] \in 1..bdEdits' + 1
  <2>1. bdSource[j] \in 1..bdEdits + 1 /\ bdSource[i] \in 1..bdEdits + 1
    BY DEF BdInv, BdUntorn
  <2>2. bdSource'[j] = IF j = i THEN bdSource[i] + 1 ELSE bdSource[j]
    BY DEF BdRewrite, BdInv, BdTypeOK
  <2> QED
    BY <1>2, <2>1, <2>2
<1>4. bdSource' \in [BdInputs -> BdContents]
  <2>1. \A j \in BdInputs : bdSource'[j] \in BdContents
    BY <1>2, <1>3 DEF BdContents
  <2> QED
    BY <2>1 DEF BdRewrite, BdInv, BdTypeOK
<1>5. BdTypeOK'
  <2>1. bdEdits' \in 0..BdMaxEdits
    BY <1>2
  <2>2. BdTypeOK
    BY DEF BdInv
  <2> QED
    BY <1>1, <1>4, <2>1, <2>2, Zenon DEF BdTypeOK
<1>6. BdUntorn'
  BY <1>1, <1>3 DEF BdInv, BdUntorn
<1>7. BdStaged' /\ BdPublished' /\ BdPlayed'
  BY <1>1 DEF BdInv, BdStaged, BdPublished, BdPlayed
<1> QED
  BY <1>5, <1>6, <1>7 DEF BdInv

(* Files of the destination are swapped: the pins stay.                    *)
LEMMA BdDriftInv == ASSUME BdInv, BdDrift PROVE BdInv'
<1>1. UNCHANGED <<bdSource, bdEdits, bdPc, bdAt, bdOpened, bdStage, bdDest, bdPins, bdPlay,
                  bdHeld, bdRuns, bdRan>>
  BY DEF BdDrift, bdBuild, bdRehearsal
<1>2. bdDrifts' \in 0..BdMaxDrifts
  BY BdConstants DEF BdDrift, BdInv, BdTypeOK
<1>3. DOMAIN bdFiles' \subseteq DOMAIN bdFiles \cup {BdStray}
  <2>1. ASSUME NEW i \in DOMAIN bdFiles, bdFiles' = [bdFiles EXCEPT ![i] = @ + 1]
        PROVE  DOMAIN bdFiles' = DOMAIN bdFiles
    BY <2>1
  <2>2. ASSUME NEW i \in DOMAIN bdFiles, bdFiles' = Restrict(bdFiles, DOMAIN bdFiles \ {i})
        PROVE  DOMAIN bdFiles' \subseteq DOMAIN bdFiles
    BY <2>2 DEF Restrict
  <2>3. ASSUME bdFiles' = BdWith(bdFiles, BdStray, 1)
        PROVE  DOMAIN bdFiles' = DOMAIN bdFiles \cup {BdStray}
    BY <2>3 DEF BdWith
  <2> QED
    BY <2>1, <2>2, <2>3 DEF BdDrift
<1>4. BdTypeOK'
  BY <1>1, <1>2, <1>3 DEF BdInv, BdTypeOK
<1>5. BdUntorn' /\ BdStaged' /\ BdPublished' /\ BdPlayed'
  BY <1>1 DEF BdInv, BdUntorn, BdStaged, BdPublished, BdPlayed
<1> QED
  BY <1>4, <1>5 DEF BdInv

(* A step of the rehearsal other than an execution of the native artifact. *)
LEMMA BdActInv ==
    ASSUME BdInv, bdDest # "none",
           NEW label \in {"read", "venv", "install", "import", "hash", "execute",
                          "rollback", "passed", "raised"},
           BdAct(label), bdHeld' \in BdContents,
           label = "execute" => bdHeld' = bdPins[2],
           bdRuns' \in 0..3, label \notin {"rollback", "passed", "raised"} => bdRuns' >= 1,
           bdRan' \subseteq BdContents, bdRan' \subseteq {bdPins[2]}
    PROVE  BdInv'
<1>1. UNCHANGED <<bdSource, bdEdits, bdDrifts, bdPc, bdAt, bdOpened, bdStage, bdDest, bdFiles,
                  bdPins>> /\ bdPlay' = label
  BY DEF BdAct, bdBuild, bdBundle
<1>2. BdTypeOK'
  BY <1>1 DEF BdInv, BdTypeOK
<1>3. BdUntorn' /\ BdStaged' /\ BdPublished'
  BY <1>1 DEF BdInv, BdUntorn, BdStaged, BdPublished
<1>4. BdPlayed'
  BY <1>1 DEF BdPlayed
<1> QED
  BY <1>2, <1>3, <1>4 DEF BdInv

(* rehearse: what the descriptor holds when it is executed was hashed      *)
(* against the pin.                                                        *)
LEMMA BdRehearsalInv ==
    ASSUME BdInv,
           BdRehearse \/ BdReread \/ BdInstall \/ BdHash \/ BdExecute \/ BdRollback
    PROVE  BdInv'
<1>1. bdDest # "none"
  BY DEF BdRehearse, BdReread, BdInstall, BdHash, BdExecute, BdRollback, BdInv, BdPlayed
<1>2. /\ bdHeld \in BdContents /\ bdRuns \in 0..3 /\ bdRan \subseteq BdContents
      /\ bdRan \subseteq {bdPins[2]}
      /\ bdPlay \notin {"rollback", "passed", "raised"} => bdRuns >= 1
  BY <1>1 DEF BdInv, BdTypeOK, BdPlayed
<1>3. bdPins[2] \in BdContents
  <2>1. bdPins[2] \in BdWritten
    BY <1>1, BdPlaces DEF BdInv, BdPublished, BdWhole
  <2> QED
    BY <2>1, BdConstants DEF BdWritten, BdContents
<1>4. CASE BdRehearse \/ BdReread \/ BdInstall \/ BdRollback
  <2>1. UNCHANGED <<bdHeld, bdRuns, bdRan>>
    BY <1>4 DEF BdRehearse, BdReread, BdInstall, BdRollback
  <2>2. PICK label \in {"read", "venv", "install", "import", "hash", "passed", "raised"} :
            /\ BdAct(label)
            /\ label \in {"passed", "raised"} \/ bdPlay \notin {"rollback", "passed", "raised"}
    BY <1>4 DEF BdRehearse, BdReread, BdInstall, BdRollback, BdRunBounded
  <2> QED
    BY <1>1, <1>2, <2>1, <2>2, BdActInv
<1>5. CASE BdHash
  <2>1. CASE BdPinHolds(bdFiles, bdPins, 2) /\ bdHeld' = bdFiles[2] /\ BdAct("execute")
    <3>1. bdHeld' = bdPins[2] /\ UNCHANGED <<bdRuns, bdRan>> /\ bdRuns >= 1
      BY <1>2, <1>5, <2>1 DEF BdPinHolds, BdHash
    <3> QED
      BY <1>1, <1>2, <1>3, <2>1, <3>1, BdActInv
  <2>2. CASE bdHeld' = bdHeld /\ BdAct("raised")
    <3>1. UNCHANGED <<bdRuns, bdRan>>
      BY <1>5 DEF BdHash
    <3> QED
      BY <1>1, <1>2, <2>2, <3>1, BdActInv
  <2> QED
    BY <1>5, <2>1, <2>2 DEF BdHash
<1>6. CASE BdExecute
  <2>1. bdRan' = bdRan \cup {bdPins[2]} /\ bdRuns' = bdRuns - 1 /\ bdHeld' = bdHeld
        /\ bdRuns >= 1
    BY <1>2, <1>6 DEF BdExecute, BdExecuted, BdInv, BdPlayed
  <2>2. PICK label \in {"rollback", "hash", "raised"} :
            BdAct(label) /\ (label = "hash" => bdRuns # 1)
    BY <1>6 DEF BdExecute, BdRunBounded
  <2>3. bdRuns' \in 0..3 /\ (label = "hash" => bdRuns' >= 1)
    BY <1>2, <2>1, <2>2
  <2> QED
    BY <1>1, <1>2, <1>3, <2>1, <2>2, <2>3, BdActInv
<1> QED
  BY <1>4, <1>5, <1>6

LEMMA BdNextInv == BdInv /\ [BdNext]_bdVars => BdInv'
<1> SUFFICES ASSUME BdInv, [BdNext]_bdVars PROVE BdInv'
  OBVIOUS
<1>1. CASE UNCHANGED bdVars
  BY <1>1 DEF bdVars, bdBuild, bdBundle, bdRehearsal, BdInv, BdTypeOK, BdUntorn, BdStaged,
              BdPublished, BdPlayed
<1>2. CASE \E i \in BdInputs : BdRewrite(i)
  BY <1>2, BdRewriteInv
<1>3. ASSUME NEW b \in BdBuilders,
             \/ BdPrepare(b) \/ BdOpen(b) \/ BdCopy(b) \/ BdReadWheel(b)
             \/ BdProbe(b) \/ BdManifest(b) \/ BdPublish(b) \/ BdKilled(b)
      PROVE  BdInv'
  BY <1>3, BdPrepareInv, BdCopyInv, BdProbeInv, BdManifestInv, BdPublishInv, BdKilledInv
<1> QED
  BY <1>1, <1>2, <1>3, BdDriftInv, BdRehearsalInv DEF BdNext, BdReturned

(* The inductive invariant of the release bundle.                          *)
THEOREM BdInvariance == BdSpec => []BdInv
  BY BdInitInv, BdNextInv, PTL DEF BdSpec

(* Whatever the build tree does during a copy and however many builders    *)
(* race for the destination, a published bundle is whole.                  *)
THEOREM PublishedIsWhole == BdSpec => []PublishedBundleIsWhole
<1>1. BdInv => PublishedBundleIsWhole
  <2> SUFFICES ASSUME BdInv PROVE PublishedBundleIsWhole
    OBVIOUS
  <2>1. \A b \in BdBuilders : bdPc[b] = "returned" => bdDest = b
    BY DEF BdInv, BdStaged
  <2>2. ASSUME bdDest # "none" PROVE BdWhole(bdPins) /\ BdTorn \notin Range(bdPins)
    <3>1. BdWhole(bdPins)
      BY <2>2 DEF BdInv, BdPublished
    <3>2. \A i \in DOMAIN bdPins : bdPins[i] # 0
      BY <3>1, BdConstants DEF BdWhole, BdWritten
    <3> QED
      BY <3>1, <3>2 DEF Range, BdTorn
  <2> QED
    BY <2>1, <2>2 DEF PublishedBundleIsWhole, BdWhole
<1> QED
  BY <1>1, BdInvariance, PTL

(* The rehearsal executes nothing but the pinned native artifact.          *)
THEOREM RehearsalIsPinned == BdSpec => []RehearsalRunsThePinned
<1>1. BdInv => RehearsalRunsThePinned
  <2> SUFFICES ASSUME BdInv PROVE RehearsalRunsThePinned
    OBVIOUS
  <2>1. CASE bdDest = "none"
    BY <2>1 DEF BdInv, BdPlayed, RehearsalRunsThePinned
  <2>2. CASE bdDest # "none"
    <3>1. 2 \in DOMAIN bdPins
      BY <2>2, BdPlaces DEF BdInv, BdPublished, BdWhole
    <3> QED
      BY <2>2, <3>1 DEF BdInv, BdPlayed, RehearsalRunsThePinned
  <2> QED
    BY <2>1, <2>2
<1> QED
  BY <1>1, BdInvariance, PTL

(* Type correctness of the release bundle.                                 *)
THEOREM BdTyping == BdSpec => []BdTypeOK
<1>1. BdInv => BdTypeOK
  BY DEF BdInv
<1> QED
  BY <1>1, BdInvariance, PTL

(* A published bundle belongs to the builder that renamed it in: no other  *)
(* builder, however late, and no rehearsal changes the destination or its  *)
(* pins, and its files change only by what happens to them from outside    *)
(* (_publish_noreplace).                                                   *)
BundleIsNotReplaced ==
    [][bdDest # "none" => /\ UNCHANGED <<bdDest, bdPins>>
                          /\ bdDrifts' = bdDrifts => bdFiles' = bdFiles]_bdVars

(* The rename replaces nothing, for any number of builders.                *)
THEOREM PublishedStays == BdSpec => BundleIsNotReplaced
<1>1. BdInv /\ [BdNext]_bdVars =>
        [bdDest # "none" => /\ UNCHANGED <<bdDest, bdPins>>
                            /\ bdDrifts' = bdDrifts => bdFiles' = bdFiles]_bdVars
  <2> SUFFICES ASSUME BdInv, BdNext, bdDest # "none"
               PROVE  /\ UNCHANGED <<bdDest, bdPins>>
                      /\ bdDrifts' = bdDrifts => bdFiles' = bdFiles
    OBVIOUS
  <2>1. CASE BdDrift
    <3>1. bdDrifts' # bdDrifts
      BY <2>1 DEF BdDrift, BdInv, BdTypeOK
    <3> QED
      BY <2>1, <3>1 DEF BdDrift
  <2>2. ASSUME NEW b \in BdBuilders, BdPublish(b) PROVE UNCHANGED bdBundle
    BY <2>2 DEF BdPublish, BdFree
  <2>3. ASSUME ~BdDrift, \A b \in BdBuilders : ~BdPublish(b) PROVE UNCHANGED bdBundle
    BY <2>3 DEF BdNext, BdRewrite, BdPrepare, BdOpen, BdCopy, BdReadWheel, BdProbe,
       BdManifest, BdKilled, BdRehearse, BdReread, BdInstall, BdRunBounded, BdHash,
       BdExecute, BdRollback, BdAct, BdReturned, bdVars
  <2> QED
    BY <2>1, <2>2, <2>3 DEF bdBundle
<1> QED
  BY <1>1, BdInvariance, PTL DEF BdSpec, BundleIsNotReplaced

=============================================================================
