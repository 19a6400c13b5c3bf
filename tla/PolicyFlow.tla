----------------------------- MODULE PolicyFlow -----------------------------
(***************************************************************************)
(* A policy on its way from source to decision.  The Python control plane  *)
(* compiles a source file under a commissioning context into a snapshot    *)
(* (control/policy.py, control/contracts.py); the native engine checks the *)
(* snapshot again from its own rules and evaluates a request against it    *)
(* (crates/outctl-engine/src/policy.rs).  A digest is the material it is   *)
(* taken of.                                                               *)
(***************************************************************************)
EXTENDS Naturals

CONSTANTS
    PfMaxAge,     \* MAX_CACHE_AGE_MS, which is also the engine's limit
    PfMaxValid,   \* MAX_VALIDITY_MS
    PfIssued,     \* issued_at of every context
    PfHorizon     \* bound: the latest time of an evaluation

ASSUME PfConstants ==
    PfMaxAge \in Nat /\ PfMaxValid \in Nat /\ PfIssued \in Nat /\ PfHorizon \in Nat

PfDomains == {"trusted-local", "restricted", "export", "metadata-only"}
PfDisclosures == {"safe-unredacted", "sanitized", "metadata-only", "deny"}
PfCommitments == {"memory-only", "process-local", "host-persistent", "replicated"}
PfDurabilities == {"none", "host", "replica", "authoritative"}
PfEphemeral == {"memory-only", "process-local"}
PfPersistent == {"host-persistent", "replicated"}

PfSinks == [trust : PfDomains, disclosure : PfDisclosures, redact : BOOLEAN]
PfCaptures == [commitment : PfCommitments, durability : PfDurabilities, required : BOOLEAN]
PfScopes == [shell : BOOLEAN, argv : BOOLEAN]
PfBodies == [trust : PfDomains, commissioned : BOOLEAN, sink : PfSinks,
             capture : PfCaptures, scope : PfScopes, age : 1..PfMaxAge,
             expires : PfIssued + 1..PfIssued + PfMaxValid]
PfNone == [body |-> "none"]

VARIABLES
    pfCompiled,  \* bodies of the snapshots compiled so far
    pfStored,    \* the snapshot document the runner holds: [body, digest], or PfNone
    pfRequest,   \* the request at hand: the digest it is bound to and what it asks
    pfAnswer     \* the decision and its time: [outcome, at]

pfVars == <<pfCompiled, pfStored, pfRequest, pfAnswer>>

PfNoAnswer == [outcome |-> "none", at |-> 0]

PfTypeOK ==
    /\ pfCompiled \subseteq PfBodies
    /\ pfStored = PfNone \/ (pfStored.body \in PfBodies /\ pfStored.digest \in PfBodies)
    /\ pfAnswer \in [outcome : {"none", "expired", "invalid", "binding", "context",
                                "unsupported", "denied", "secret", "accepted"},
                     at : 0..PfHorizon]

PfInit ==
    /\ pfCompiled = {} /\ pfStored = PfNone
    /\ pfRequest = PfNone /\ pfAnswer = PfNoAnswer

-----------------------------------------------------------------------------
\* Sink domains a session's trust domain admits (the same table is in
\* _validate_contextual_policy and in PolicySnapshot).
PfAdmits(domain) ==
    CASE domain = "trusted-local" -> PfDomains
      [] domain = "restricted" -> {"restricted", "export", "metadata-only"}
      [] domain = "export" -> {"export", "metadata-only"}
      [] domain = "metadata-only" -> {"metadata-only"}

\* CommissioningContext and the claims that back it.
PfContext(trust, commissioned, valid) ==
    /\ trust = "trusted-local" => commissioned
    /\ valid \in 1..PfMaxValid

\* SinkPolicy.
PfSinkContract(sink) ==
    /\ sink.disclosure = "safe-unredacted" => sink.trust = "trusted-local" /\ ~sink.redact
    /\ sink.disclosure = "sanitized" => sink.redact
    /\ sink.trust = "metadata-only" => sink.disclosure = "metadata-only"

\* CommandScope: a reviewed interpreter exactly when a shell is admitted.
PfScopeContract(scope) == scope.shell = scope.argv

\* A slip: max_age_ms is not bounded.
PfSourceAgeless(source) ==
    PfSinkContract(source.sink) /\ PfScopeContract(source.scope)

\* _validated_source: the enumerations, the bound of the age, the sinks, the
\* command scope.
PfSource(source) ==
    /\ source.age \in 1..PfMaxAge
    /\ PfSinkContract(source.sink) /\ PfScopeContract(source.scope)

\* _validate_contextual_policy.
PfContextual(trust, valid, source) ==
    /\ source.sink.trust \in PfAdmits(trust)
    /\ trust = "trusted-local" =>
           source.capture.required /\ source.capture.commitment \in PfPersistent
    /\ source.age <= valid

\* A slip: the contract lets a required capture be an ephemeral one.
PfSnapshotUnrequired(capture) ==
    \/ capture.commitment \in PfEphemeral /\ capture.durability = "none"
    \/ capture.commitment = "host-persistent" /\ capture.durability = "host"
    \/ capture.commitment = "replicated" /\ capture.durability \in {"replica", "authoritative"}

\* PolicySnapshot: what a commitment and its durability may be.  The domains
\* and the persistence of a trusted-local session are PfContextual's again.
PfSnapshot(capture) ==
    \/ /\ capture.commitment \in PfEphemeral
       /\ capture.durability = "none" /\ ~capture.required
    \/ capture.commitment = "host-persistent" /\ capture.durability = "host"
    \/ capture.commitment = "replicated" /\ capture.durability \in {"replica", "authoritative"}

\* compile_policy_source: the document with its digest, which binds all of
\* it; a source that any check refuses leaves the stored snapshot alone.
PfCompile(trust, commissioned, valid, source) ==
    LET body == [trust |-> trust, commissioned |-> commissioned, sink |-> source.sink,
                 capture |-> source.capture, scope |-> source.scope, age |-> source.age,
                 expires |-> PfIssued + valid] IN
    /\ PfContext(trust, commissioned, valid) /\ PfSource(source)
    /\ PfContextual(trust, valid, source) /\ PfSnapshot(source.capture)
    /\ pfCompiled' = pfCompiled \cup {body}
    /\ pfStored' = [body |-> body, digest |-> body]

\* The first policy of a session.
PfCommission ==
    /\ pfCompiled = {}
    /\ \E trust \in PfDomains, commissioned \in BOOLEAN, valid \in 1..PfMaxValid + 1,
          sink \in PfSinks, capture \in PfCaptures, scope \in PfScopes,
          age \in 0..PfMaxAge + 1 :
           PfCompile(trust, commissioned, valid,
                     [sink |-> sink, capture |-> capture, scope |-> scope, age |-> age])
    /\ UNCHANGED <<pfRequest, pfAnswer>>

\* The source is revised and compiled again: its sink is denied.
PfRevise ==
    /\ pfAnswer = PfNoAnswer
    /\ \E body \in pfCompiled :
           /\ pfCompiled = {body}
           /\ PfCompile(body.trust, body.commissioned, body.expires - PfIssued,
                        [sink |-> [body.sink EXCEPT !.disclosure = "deny"],
                         capture |-> body.capture, scope |-> body.scope, age |-> body.age])
    /\ UNCHANGED <<pfRequest, pfAnswer>>

\* The stored document comes to differ from what was compiled, under the
\* digest of before: its capture is no longer required.
PfAltered ==
    /\ pfStored # PfNone /\ pfAnswer = PfNoAnswer
    /\ pfStored' = [pfStored EXCEPT !.body.capture.required = FALSE]
    /\ UNCHANGED <<pfCompiled, pfRequest, pfAnswer>>

\* A request is bound to a snapshot that was compiled at some time, and asks
\* for its sink, or for the sink as another snapshot has it.
PfAsk ==
    /\ pfRequest = PfNone /\ pfAnswer = PfNoAnswer
    /\ \E body \in pfCompiled, disclosure \in PfDisclosures, mode \in {"direct-argv", "explicit-shell"} :
           /\ disclosure \in {body.sink.disclosure, "metadata-only"}
           /\ pfRequest' = [body |-> body, trust |-> body.sink.trust,
                            disclosure |-> disclosure, mode |-> mode]
    /\ UNCHANGED <<pfCompiled, pfStored, pfAnswer>>

-----------------------------------------------------------------------------
\* validate_snapshot, the times: issued, expiry and the age of the cache.
PfFresh(body, now) ==
    now >= PfIssued /\ now < body.expires /\ now < PfIssued + body.age

\* validate_session, validate_capture, validate_command_scope,
\* validate_sinks and validate_contextual_policy.
PfSessionValid(body) == body.trust = "trusted-local" => body.commissioned

PfCaptureValid(capture) ==
    CASE capture.commitment \in PfEphemeral -> capture.durability = "none" /\ ~capture.required
      [] capture.commitment = "host-persistent" -> capture.durability = "host"
      [] capture.commitment = "replicated" -> capture.durability \in {"replica", "authoritative"}

PfScopeValid(scope) == scope.shell # ~scope.argv

PfSinkValid(sink) ==
    /\ ~(sink.disclosure = "safe-unredacted" /\ (sink.trust # "trusted-local" \/ sink.redact))
    /\ ~(sink.trust = "metadata-only" /\ sink.disclosure # "metadata-only")
    /\ ~(sink.trust \in {"restricted", "export"} /\ sink.disclosure = "safe-unredacted")
    /\ ~(sink.disclosure = "sanitized" /\ ~sink.redact)

PfContextValid(body) ==
    /\ CASE body.trust = "trusted-local" -> TRUE
         [] body.trust = "restricted" -> body.sink.trust \in {"restricted", "export", "metadata-only"}
         [] body.trust = "export" -> body.sink.trust \in {"export", "metadata-only"}
         [] OTHER -> body.sink.trust = "metadata-only"
    /\ body.trust = "trusted-local" =>
           body.capture.required /\ body.capture.commitment \in PfPersistent

PfValid(body) ==
    /\ PfSessionValid(body) /\ PfCaptureValid(body.capture) /\ PfScopeValid(body.scope)
    /\ PfSinkValid(body.sink) /\ PfContextValid(body)

\* validate_command_against_scope.
PfInScope(body, request) == request.mode = "explicit-shell" => body.scope.shell

\* evaluate_policy: the checks in their order.  "context" tells whether the
\* workspace, session and cwd are the runner's, "registered" whether the
\* secrets the request names are.
PfOutcome(stored, request, now, context, registered) ==
    LET body == stored.body IN
    IF ~PfFresh(body, now) THEN "expired"
    ELSE IF ~PfValid(body) THEN "invalid"
    ELSE IF stored.digest # body THEN "binding"
    ELSE IF ~PfInScope(body, request) THEN "unsupported"
    ELSE IF request.body # stored.digest THEN "binding"
    ELSE IF ~context THEN "context"
    ELSE IF request.trust # body.sink.trust \/ request.disclosure # body.sink.disclosure
         THEN "context"
    ELSE IF body.sink.disclosure = "deny" THEN "denied"
    ELSE IF ~registered THEN "secret"
    ELSE IF body.capture.commitment = "replicated" THEN "unsupported"
    ELSE "accepted"

PfEvaluate ==
    /\ pfStored # PfNone /\ pfRequest # PfNone /\ pfAnswer = PfNoAnswer
    /\ \E now \in 0..PfHorizon, context \in BOOLEAN, registered \in BOOLEAN :
           pfAnswer' = [outcome |-> PfOutcome(pfStored, pfRequest, now, context, registered),
                        at |-> now]
    /\ UNCHANGED <<pfCompiled, pfStored, pfRequest>>

PfAnswered == pfAnswer # PfNoAnswer /\ UNCHANGED pfVars

PfNext == PfCommission \/ PfRevise \/ PfAltered \/ PfAsk \/ PfEvaluate \/ PfAnswered

PfSpec == PfInit /\ [][PfNext]_pfVars

-----------------------------------------------------------------------------
(* What was compiled is what is enforced (compile_policy_source against     *)
(* evaluate_policy).  The engine never calls a snapshot that the compiler   *)
(* produced invalid, so the two sets of rules agree.  A request it accepts  *)
(* is decided under a document that was compiled as it stands and that the  *)
(* request itself is bound to, after its issue and before both its expiry   *)
(* and the end of its cache age, for the disclosure the policy gives that   *)
(* sink; the sink is no wider than the session, and unredacted output is    *)
(* only ever accepted with a capture that is required and persists.         *)
CompiledIsEnforced ==
    pfAnswer.outcome # "none" =>
        LET body == pfStored.body IN
        /\ pfAnswer.outcome = "invalid" => body \notin pfCompiled
        /\ pfAnswer.outcome = "accepted" =>
               /\ body \in pfCompiled /\ pfRequest.body = body
               /\ pfAnswer.at \in PfIssued..body.expires - 1
               /\ pfAnswer.at - PfIssued < body.age
               /\ pfRequest.disclosure = body.sink.disclosure
               /\ body.sink.disclosure # "deny"
               /\ body.sink.trust \in PfAdmits(body.trust)
               /\ body.sink.disclosure = "safe-unredacted" =>
                      body.commissioned /\ body.capture.required
                      /\ body.capture.commitment \in PfPersistent

=============================================================================
