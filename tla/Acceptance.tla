----------------------------- MODULE Acceptance -----------------------------
(***************************************************************************)
(* The paired acceptance run (acceptance/codex_appservice_ab/run.py).  The *)
(* bindings and the cluster authority are checked, a worktree is made and  *)
(* dressed for each arm; arm B stays free of outctl guidance.  For         *)
(* every pair the main thread prepares two credential-bearing agent homes, *)
(* two workers leave a three-party barrier together and each supervises    *)
(* one agent; arm A sends its commands through the router, which takes the *)
(* spool lock for one command at a time (outctl_kubectl_router.py).  A     *)
(* controlled study may resume an agent once.  What the arms left behind   *)
(* decides whether the pair is valid, and the pairs decide the exit code.  *)
(***************************************************************************)
EXTENDS Naturals, Sequences, FiniteSets

CONSTANTS
    AcPairs,      \* args.pairs
    AcExpected,   \* kubectl commands the workflow expects
    AcSlots       \* bound: commands arm A's agents issue in one pair

ASSUME AcConstants == AcPairs \in Nat \ {0} /\ AcExpected \in Nat /\ AcSlots \in Nat

AcArms == {"A", "B"}
AcParties == AcArms \cup {"main"}
AcCommands == 1..AcSlots

VARIABLES
    acMain,     \* main: pc, what was asked for, the pair under way, exit code
    acHomes,    \* agent homes with credentials on disk
    acBarrier,  \* [in: parties waiting, state: "open", "tripped" or "broken"]
    acWorker,   \* [arm -> where its thread is]
    acAgent,    \* [arm -> "none", "running" or "ended"]
    acResult,   \* [arm -> its ProcessResult and what its event log says]
    acCommand,  \* [command of arm A -> where it is]
    acOrphans,  \* commands in flight that outlived the agent that issued them
    acSpool,    \* arm A's spool: published captures, partial directories
    acLock,     \* the command that holds .router.lock, or 0
    acKilled,   \* history: arms whose agent was terminated in this pair
    acTree,     \* [arm -> what its worktree holds; {} when there is none]
    acReport,   \* files written, and the verdict of acceptance.json
    acPairs     \* pairs compared so far

acVars == <<acMain, acHomes, acBarrier, acWorker, acAgent, acResult, acCommand,
            acOrphans, acSpool, acLock, acKilled, acTree, acReport, acPairs>>
acKept == <<acTree, acReport, acPairs>>
acArmVars == <<acBarrier, acWorker, acAgent, acResult, acCommand, acOrphans,
               acSpool, acLock, acKilled>>

AcNoResult == [timed |-> FALSE, direct |-> 0, tails |-> 0]
AcNoReport == [files |-> 0, commissioning |-> FALSE, result |-> "none"]
AcContents == {"checkout", "outctl", "identity", "treatment", "routing guard", "read-only guard"}

AcTypeOK ==
    /\ acMain \in [pc : {"launch", "bindings", "preflight", "output", "checker",
                         "worktrees", "overlay", "prepare", "homes", "hooks",
                         "identity", "start",
                         "barrier", "broken", "join",
                         "complete A", "waiting A", "complete B", "waiting B",
                         "parse", "compare", "next", "report", "finally", "returned"},
                   mode : {"dry", "live", "controlled"},
                   treatment : {"deterministic", "opt-in"},
                   fault : {"none", "arm", "spool"},
                   pair : 1..AcPairs, exit : 0..2]
    /\ acHomes \subseteq AcArms
    /\ acBarrier \in [in : SUBSET AcParties, state : {"open", "tripped", "broken"}]
    /\ acWorker \in [AcArms -> {"none", "ready", "waiting", "launched", "done", "error"}]
    /\ acAgent \in [AcArms -> {"none", "running", "ended"}]
    /\ acResult \in [AcArms -> [timed : BOOLEAN,
                                direct : 0..AcExpected, tails : 0..1]]
    /\ acCommand \in [AcCommands -> {"idle", "waiting", "running", "captured",
                                     "completed", "failed", "lost"}]
    /\ acOrphans \subseteq AcCommands /\ acLock \in 0..AcSlots
    /\ acSpool \in [captures : SUBSET AcCommands, partial : SUBSET AcCommands]
    /\ acKilled \subseteq AcArms /\ acTree \in [AcArms -> SUBSET AcContents]
    /\ acReport \in [files : 0..2, commissioning : BOOLEAN,
                     result : {"none", "informational", "pass", "fail"}]
    /\ acPairs \in Seq([valid : BOOLEAN, killed : BOOLEAN, matched : BOOLEAN])

AcFresh ==
    /\ acBarrier' = [in |-> {}, state |-> "open"]
    /\ acWorker' = [a \in AcArms |-> "none"] /\ acAgent' = [a \in AcArms |-> "none"]
    /\ acResult' = [a \in AcArms |-> AcNoResult]
    /\ acCommand' = [k \in AcCommands |-> "idle"] /\ acOrphans' = {}
    /\ acSpool' = [captures |-> {}, partial |-> {}]
    /\ acLock' = 0 /\ acKilled' = {}

AcInit ==
    /\ acMain = [pc |-> "launch", mode |-> "dry", treatment |-> "opt-in",
                 fault |-> "none", pair |-> 1, exit |-> 0]
    /\ acHomes = {} /\ acBarrier = [in |-> {}, state |-> "open"]
    /\ acWorker = [a \in AcArms |-> "none"] /\ acAgent = [a \in AcArms |-> "none"]
    /\ acResult = [a \in AcArms |-> AcNoResult]
    /\ acCommand = [k \in AcCommands |-> "idle"] /\ acOrphans = {}
    /\ acSpool = [captures |-> {}, partial |-> {}] /\ acLock = 0
    /\ acKilled = {} /\ acPairs = <<>>
    /\ acTree = [a \in AcArms |-> {}] /\ acReport = AcNoReport

AcGo(pc) == acMain' = [acMain EXCEPT !.pc = pc]

\* An ExperimentError, or any other exception, on its way to the finally.
AcRaise == acMain' = [acMain EXCEPT !.pc = "finally", !.exit = 2]

\* An ExperimentError before the try, whose finally has nothing to remove.
AcRefuse == acMain' = [acMain EXCEPT !.pc = "returned", !.exit = 2]

-----------------------------------------------------------------------------
\* _parse_args: a run is dry, live, or a controlled study.  The other options
\* keep their defaults: a contaminated baseline is not allowed, worktrees are
\* not kept.
AcOptions == [mode : {"dry", "live", "controlled"},
              treatment : {"deterministic", "opt-in"}]

AcArguments ==
    /\ acMain.pc = "launch"
    /\ \E o \in AcOptions :
           acMain' = [acMain EXCEPT !.pc = "bindings", !.mode = o.mode,
                                    !.treatment = o.treatment]
    /\ UNCHANGED <<acHomes, acArmVars, acKept>>

\* _load_expected_facts: facts are there and none is repeated.
AcFactsLoad(facts) ==
    /\ facts # <<>>
    /\ \A i, j \in DOMAIN facts : facts[i] = facts[j] => i = j

\* _load_workflow_manifest: the large output is one of the commands, enough
\* commands follow it, and its size is bounded (in units of 10,000 bytes).
AcWorkflowLoads(w) ==
    /\ w.commands > 0 /\ w.large \in 1..w.commands /\ w.commands - w.large >= w.after
    /\ w.min >= 3 /\ w.max <= 10 /\ w.min <= w.max

\* _policy_binding: the digest asked for is the digest of the policy resolved.
AcPolicyBound(requested, resolved) == requested = resolved

\* Workflow manifests to choose from
AcManifests == [commands : {0, AcExpected}, large : 0..2, after : 0..1,
                min : {2, 3, 10}, max : {9, 11}]

\* The numbers and files of a run: all positive, the token limit pinned unless
\* the run is dry, every file there.
AcInputs == [pairs : 0..1, timeout : 0..1, trace : 0..1,
             limit : {"none", "zero", "positive"}, files : BOOLEAN]

AcInputsFit(mode, inputs) ==
    /\ inputs.pairs > 0 /\ inputs.timeout > 0 /\ inputs.trace > 0
    /\ inputs.limit = "positive" \/ (inputs.limit = "none" /\ mode = "dry")
    /\ inputs.files

\* The inputs of a mode, by whether they are accepted.
AcInputsChecked == [mode \in {"dry", "live", "controlled"} |->
                       {AcInputsFit(mode, inputs) : inputs \in AcInputs}]

\* What the run is bound to; facts and workflow are optional.
AcBind ==
    /\ acMain.pc = "bindings"
    /\ \E facts \in {{}, {<<>>}, {<<"f">>}, {<<"f", "f">>}}, resolved \in {"requested", "other"},
          manifest \in {{}} \cup {{w} : w \in AcManifests}, fit \in AcInputsChecked[acMain.mode] :
           IF /\ \A f \in facts : AcFactsLoad(f)
              /\ \A w \in manifest : AcWorkflowLoads(w)
              /\ AcPolicyBound("requested", resolved) /\ fit
           THEN AcGo("preflight") ELSE AcRefuse
    /\ UNCHANGED <<acHomes, acArmVars, acKept>>

\* _kubectl_can_i: anything but a plain yes or no is no answer.
AcCanI(reply) == IF reply \in {"yes", "no"} THEN reply ELSE "unknown"

\* _preflight_readonly_kubeconfig: every read is granted, no mutation is.
AcReadOnly(read, mutation) == AcCanI(read) = "yes" /\ AcCanI(mutation) = "no"

\* Only a live run has a cluster to ask, through the context it names.
AcPreflight ==
    /\ acMain.pc = "preflight"
    /\ \E context \in {"named", "other"}, read, mutation \in {"yes", "no", "error"} :
           IF acMain.mode = "live" => context = "named" /\ AcReadOnly(read, mutation)
           THEN AcGo("output") ELSE AcRefuse
    /\ UNCHANGED <<acHomes, acArmVars, acKept>>

\* The output directory, the router and the prompt.
AcOutput ==
    /\ acMain.pc = "output" /\ (AcGo("checker") \/ AcRefuse)
    /\ UNCHANGED <<acHomes, acArmVars, acKept>>

\* _run_shared_health_checker, once and for both arms; planned in a dry run,
\* forbidden to a controlled one.
AcChecker ==
    /\ acMain.pc = "checker"
    /\ \/ AcGo("worktrees")
       \/ acMain.mode = "live" /\ AcRefuse
    /\ UNCHANGED <<acHomes, acArmVars, acKept>>

\* _prepare_worktree: the commit, its patch and its untracked files.
AcCheckout(native) == {"checkout"} \cup native

\* _find_outctl_guidance
AcContaminated(tree) == tree \cap {"outctl", "treatment", "routing guard"} # {}

\* The try: a worktree for each arm, the second perhaps never made; the
\* baseline may not know of outctl.
AcWorktrees ==
    /\ acMain.pc = "worktrees"
    /\ \E native \in SUBSET {"outctl"}, made \in {{}, {"A"}, AcArms} :
           /\ acTree' = [a \in AcArms |-> IF a \in made THEN AcCheckout(native) ELSE {}]
           /\ IF made # AcArms \/ AcContaminated(acTree'["B"]) THEN AcRaise ELSE AcGo("overlay")
    /\ UNCHANGED <<acHomes, acArmVars, acReport, acPairs>>

\* _append_pinned_identity_guidance, the same for both arms
AcIdentityGuidance(tree) == tree \cup {"identity"}

\* _append_arm_a_guidance: the routing rules and the skill
AcTreatmentGuidance(arm, tree) == IF arm = "A" THEN tree \cup {"treatment"} ELSE tree

\* _install_guard: the arms have different guards, and arm B's has no
\* outctl vocabulary.
AcGuard(arm) == IF arm = "A" THEN "routing guard" ELSE "read-only guard"
AcGuarded(arm, tree) == tree \cup {AcGuard(arm)}

AcOverlay(arm) ==
    AcGuarded(arm, AcTreatmentGuidance(arm, AcIdentityGuidance(acTree[arm])))

\* The guidance and the guards; what they add is searched for outctl again.
AcDress ==
    /\ acMain.pc = "overlay"
    /\ \/ AcRaise /\ UNCHANGED acTree
       \/ /\ acTree' = [a \in AcArms |-> AcOverlay(a)]
          /\ IF AcContaminated(acTree'["B"]) THEN AcRaise ELSE AcGo("prepare")
    /\ UNCHANGED <<acHomes, acArmVars, acReport, acPairs>>

\* The directories of a new pair and the shell homes.
AcPrepare ==
    /\ acMain.pc = "prepare" /\ AcFresh
    /\ AcGo("homes") \/ AcRaise
    /\ UNCHANGED <<acHomes, acKept>>

\* _write_codex_home for one arm after the other, with the account's
\* credentials; either may fail.
AcWriteHomes ==
    /\ acMain.pc = "homes"
    /\ \/ \E homes \in {{"A"}, AcArms} : acHomes' = homes /\ AcRaise
       \/ acHomes' = AcArms /\ AcGo("hooks")
    /\ UNCHANGED <<acArmVars, acKept>>

\* _install_home_hook copies the guard of the arm's worktree.
AcHookInstalls(arm) == AcGuard(arm) \in acTree[arm]

\* The hooks and the command lines.  A dry run removes the homes again.
AcPlan ==
    /\ acMain.pc = "hooks"
    /\ \/ AcRaise /\ UNCHANGED acHomes
       \/ /\ \A a \in AcArms : AcHookInstalls(a)
          /\ IF acMain.mode = "dry" THEN acHomes' = {} /\ AcGo("next")
                                    ELSE UNCHANGED acHomes /\ AcGo("identity")
    /\ UNCHANGED <<acArmVars, acKept>>

\* _install_replay_shell_home or _install_isolated_shell_home: what kubectl
\* means in an arm's login shell.
AcShell(mode) == IF mode = "controlled" THEN "replay" ELSE "pinned"

\* _probe_arm_cluster_identity through the arm's login shell, whose kubectl
\* must be the pinned function.
AcProbed(seen) == seen = AcShell("live")

\* The environments, and in a live run the identity each of them reaches.
AcIdentity ==
    /\ acMain.pc = "identity"
    /\ \E seen \in [AcArms -> {AcShell(acMain.mode), "other", "unanswered"}] :
           IF acMain.mode = "live" => \A a \in AcArms : AcProbed(seen[a])
           THEN AcGo("start") ELSE AcRaise
    /\ UNCHANGED <<acHomes, acArmVars, acKept>>

\* Both threads are started; neither start order waits for the other.
AcStartThreads ==
    /\ acMain.pc = "start" /\ AcGo("barrier")
    /\ acWorker' = [a \in AcArms |-> "ready"]
    /\ UNCHANGED <<acHomes, acBarrier, acAgent, acResult, acCommand, acOrphans,
                   acSpool, acLock, acKilled, acKept>>

\* threading.Barrier(3).wait: the last party trips it for all.
AcArrive(party) ==
    LET in == acBarrier.in \cup {party} IN
    /\ acBarrier.state = "open" /\ party \notin acBarrier.in
    /\ acBarrier' = [in |-> in,
                     state |-> IF in = AcParties THEN "tripped" ELSE "open"]

\* The wait of some party times out, which breaks the barrier for all.
AcBarrierTimeout ==
    /\ acBarrier.state = "open" /\ acBarrier.in # {}
    /\ acBarrier' = [acBarrier EXCEPT !.state = "broken"]
    /\ UNCHANGED <<acMain, acHomes, acWorker, acAgent, acResult, acCommand,
                   acOrphans, acSpool, acLock, acKilled, acKept>>

AcMainArrives ==
    /\ acMain.pc = "barrier"
    /\ \/ AcArrive("main") /\ UNCHANGED acMain
       \/ acBarrier.state = "tripped" /\ AcGo("join") /\ UNCHANGED acBarrier
       \/ acBarrier.state = "broken" /\ AcGo("broken") /\ UNCHANGED acBarrier
    /\ UNCHANGED <<acHomes, acWorker, acAgent, acResult, acCommand, acOrphans,
                   acSpool, acLock, acKilled, acKept>>

\* _run_arm up to its barrier, which a failing mkdir keeps it from reaching.
AcWorkerArrives(arm) ==
    /\ \/ /\ acWorker[arm] = "ready"
          /\ \/ AcArrive(arm) /\ acWorker' = [acWorker EXCEPT ![arm] = "waiting"]
             \/ /\ acWorker' = [acWorker EXCEPT ![arm] = "error"]
                /\ UNCHANGED acBarrier
       \/ /\ acWorker[arm] = "waiting" /\ acBarrier.state = "broken"
          /\ acWorker' = [acWorker EXCEPT ![arm] = "error"] /\ UNCHANGED acBarrier
    /\ UNCHANGED <<acMain, acHomes, acAgent, acResult, acCommand, acOrphans,
                   acSpool, acLock, acKilled, acKept>>

\* The logs are opened with "xb" and the agent is started, or it is not.
AcWorkerLaunches(arm) ==
    /\ acWorker[arm] = "waiting" /\ acBarrier.state = "tripped"
    /\ \/ /\ acWorker' = [acWorker EXCEPT ![arm] = "launched"]
          /\ acAgent' = [acAgent EXCEPT ![arm] = "running"]
       \/ acWorker' = [acWorker EXCEPT ![arm] = "error"] /\ UNCHANGED acAgent
    /\ UNCHANGED <<acMain, acHomes, acBarrier, acResult, acCommand, acOrphans,
                   acSpool, acLock, acKilled, acKept>>

-----------------------------------------------------------------------------
AcInFlight == {k \in AcCommands : acCommand[k] \in {"waiting", "running", "captured"}}
AcCounted(states) == Cardinality({k \in AcCommands : acCommand[k] \in states})

AcMove(k, to) == acCommand' = [acCommand EXCEPT ![k] = to]
AcDrop(k) == acLock' = IF acLock = k THEN 0 ELSE acLock

AcCommandUnchanged == UNCHANGED <<acMain, acHomes, acBarrier, acWorker, acAgent,
                                  acResult, acKilled, acKept>>

\* Arm A's agent calls the router, perhaps before an earlier call answered.
AcIssue(k) ==
    /\ acAgent["A"] = "running" /\ acCommand[k] = "idle"
    /\ \A j \in 1..k - 1 : acCommand[j] # "idle"
    /\ AcMove(k, "waiting") /\ UNCHANGED <<acOrphans, acSpool, acLock>> /\ AcCommandUnchanged

\* How a router that ends shows in the agent's log: an orphan's end does not.
AcEndCommand(k, outcome) ==
    /\ AcMove(k, IF k \in acOrphans THEN "lost" ELSE outcome)
    /\ acOrphans' = acOrphans \ {k} /\ AcDrop(k)

\* main's argument checks and _acquire_spool_lock: flock, exclusive; then
\* outctl run creates its capture directory.
AcAcquire(k) ==
    /\ acCommand[k] = "waiting"
    /\ \/ /\ acLock = 0 /\ acLock' = k /\ AcMove(k, "running")
          /\ acSpool' = [acSpool EXCEPT !.partial = @ \cup {k}]
          /\ UNCHANGED acOrphans
       \/ AcEndCommand(k, "failed") /\ UNCHANGED acSpool
    /\ AcCommandUnchanged

\* outctl run publishes the capture and its command event, or fails and
\* leaves the directory uncommitted.
AcCapture(k) ==
    /\ acCommand[k] = "running"
    /\ \/ /\ AcMove(k, "captured") /\ UNCHANGED <<acOrphans, acLock>>
          /\ acSpool' = [captures |-> acSpool.captures \cup {k},
                         partial |-> acSpool.partial \ {k}]
       \/ AcEndCommand(k, "failed") /\ UNCHANGED acSpool
    /\ AcCommandUnchanged

\* _safe_envelope, _emit, _record_router_event and the finally that closes
\* the lock.  The router fails on an answer it cannot read, or with kubectl.
AcAnswer(k) ==
    /\ acCommand[k] = "captured"
    /\ \E outcome \in {"completed", "failed"} : AcEndCommand(k, outcome)
    /\ UNCHANGED acSpool /\ AcCommandUnchanged

-----------------------------------------------------------------------------
\* A slip: the resumed process alone says whether the arm ran out of time.
AcMergedForgetful(old, new) == new

\* The result of a resumed agent: the exit code is the second one's, a
\* timeout of either stays.  The log was appended to.
AcMerged(old, new) == [new EXCEPT !.timed = old.timed \/ new.timed]

\* What an agent's log holds at its end.  Direct commands are arm B's, or an
\* opt-in arm A's; the one tail retrieval needs a capture to read.
AcLogged(arm, old, new) ==
    /\ new.direct >= old.direct /\ new.tails >= old.tails
    /\ arm = "A" => new.direct = 0 \/ acMain.treatment = "opt-in"
    /\ new.tails > 0 => arm = "A" /\ acSpool.captures # {}

AcConclude(arm, new) ==
    /\ acAgent[arm] = "running" /\ acAgent' = [acAgent EXCEPT ![arm] = "ended"]
    /\ AcLogged(arm, acResult[arm], new)
    /\ acResult' = [acResult EXCEPT ![arm] =
           IF acWorker[arm] = "done" THEN AcMerged(@, new) ELSE new]
    /\ acWorker' = [acWorker EXCEPT ![arm] = "done"]

\* The agent exits by itself, with every call it made answered.
AcExit(arm) ==
    /\ arm = "A" => AcInFlight \subseteq acOrphans
    /\ \E direct \in {0, AcExpected}, tails \in 0..1 :
           AcConclude(arm, [timed |-> FALSE, direct |-> direct, tails |-> tails])
    /\ UNCHANGED <<acMain, acHomes, acBarrier, acCommand, acOrphans, acSpool,
                   acLock, acKilled, acKept>>

\* wait timed out: _terminate_process_group.  An agent that handles SIGTERM
\* may still exit 0 with its answer written, so its exit code says nothing.
\* Calls in flight die with the group, or outlive it in one of their own.
AcTimeout(arm) ==
    /\ \E tails \in 0..1 :
           AcConclude(arm, [timed |-> TRUE, direct |-> acResult[arm].direct, tails |-> tails])
    /\ acKilled' = acKilled \cup {arm}
    /\ \E kept \in SUBSET AcInFlight :
           /\ arm = "B" => kept = AcInFlight
           /\ acOrphans' = IF arm = "A" THEN kept ELSE acOrphans
           /\ acCommand' = [k \in AcCommands |->
                  IF k \in AcInFlight \ kept THEN "lost" ELSE acCommand[k]]
           /\ acLock' = IF acLock \in kept THEN acLock ELSE 0
    /\ UNCHANGED <<acMain, acHomes, acBarrier, acSpool, acKept>>

-----------------------------------------------------------------------------
\* The broken barrier: join with a timeout, then raise.
AcBroken ==
    /\ acMain.pc = "broken" /\ AcRaise
    /\ UNCHANGED <<acHomes, acArmVars, acKept>>

\* Both threads joined; an error of either removes the homes and raises.
AcJoin ==
    /\ acMain.pc = "join" /\ \A a \in AcArms : acWorker[a] \in {"done", "error"}
    /\ \/ /\ \E a \in AcArms : acWorker[a] = "error"
          /\ acHomes' = {} /\ AcRaise
       \/ /\ \A a \in AcArms : acWorker[a] = "done"
          /\ AcGo(IF acMain.mode = "controlled" THEN "complete A" ELSE "parse")
          /\ acHomes' = IF acMain.mode = "controlled" THEN acHomes ELSE {}
    /\ UNCHANGED <<acArmVars, acKept>>

\* _controlled_completion_needed, of the arm's event log.
AcIncomplete(arm) ==
    IF arm = "A"
    THEN AcCounted({"completed"}) + acResult["A"].direct # AcExpected \/ acResult["A"].tails # 1
    ELSE acResult["B"].direct # AcExpected

AcCompleting(arm) == IF arm = "A" THEN "complete A" ELSE "complete B"
AcWaiting(arm) == IF arm = "A" THEN "waiting A" ELSE "waiting B"
AcAfterCompletion(arm) == IF arm = "A" THEN "complete B" ELSE "parse"

\* The completion of one arm: not needed, refused for want of one thread id
\* (or Popen fails), or a second agent.  The finally removes the homes.
AcComplete(arm) ==
    /\ acMain.pc = AcCompleting(arm)
    /\ \/ /\ ~AcIncomplete(arm) /\ AcGo(AcAfterCompletion(arm)) /\ UNCHANGED acAgent
          /\ acHomes' = IF arm = "B" THEN {} ELSE acHomes
       \/ AcIncomplete(arm) /\ AcRaise /\ acHomes' = {} /\ UNCHANGED acAgent
       \/ /\ AcIncomplete(arm) /\ AcGo(AcWaiting(arm))
          /\ acAgent' = [acAgent EXCEPT ![arm] = "running"] /\ UNCHANGED acHomes
    /\ UNCHANGED <<acBarrier, acWorker, acResult, acCommand, acOrphans, acSpool,
                   acLock, acKilled, acKept>>

AcCompleted(arm) ==
    /\ acMain.pc = AcWaiting(arm) /\ acAgent[arm] = "ended"
    /\ AcGo(AcAfterCompletion(arm))
    /\ acHomes' = IF arm = "B" THEN {} ELSE acHomes
    /\ UNCHANGED <<acArmVars, acKept>>

-----------------------------------------------------------------------------
AcAttempts == AcCounted({"completed", "failed"})

\* strict_treatment_compliant, or that of an opt-in arm.
AcCompliant ==
    IF acMain.treatment = "deterministic"
    THEN /\ AcAttempts = AcExpected /\ AcCounted({"completed"}) = AcExpected
         /\ acResult["A"].direct = 0
    ELSE AcAttempts = 0 \/ AcAttempts = AcCounted({"completed"})

\* _spool_metrics: capture_count and partial_capture_count.
AcSpoolCounts(spool) == [captures |-> Cardinality(spool.captures),
                         partial |-> Cardinality(spool.partial)]

\* strict_treatment_capture_accounted and opt_in_capture_accounted: what
\* _spool_metrics counts against what _command_metrics counts.
AcAccounted ==
    LET spool == AcSpoolCounts(acSpool) IN
    \/ acMain.treatment = "opt-in" /\ AcAttempts = 0
    \/ /\ spool.captures = AcAttempts /\ spool.partial = 0 /\ acMain.fault # "spool"
       /\ acMain.treatment = "deterministic" => AcAttempts = AcExpected

\* instrumentation_valid and the identity match of _compare_pair.
AcPairValid ==
    /\ acMain.fault # "arm" /\ \A a \in AcArms : ~acResult[a].timed
    /\ AcCompliant /\ AcAccounted

\* _commissioning_failed: the treatment never worked.
AcCommissioningFailed ==
    /\ acMain.treatment = "deterministic" /\ AcAttempts > 0
    /\ AcCounted({"completed"}) = 0 /\ AcSpoolCounts(acSpool).captures = 0

\* History: each completed command has its capture, and they are all there.
AcMatched ==
    /\ acSpool.captures = {k \in AcCommands : acCommand[k] = "completed"}
    /\ Cardinality(acSpool.captures) = AcExpected

\* _hook_metrics: the guard was not active, or it denied something
AcHookFaults == {"no hook events", "read-only denial", "identity denial"}

\* _final_metrics: what the agent answered
AcAnswerFaults == {"no answer", "not JSON", "schema"}

\* The models the hooks saw, _models_equivalent, and the reroute signals
AcModelFaults == {"no model seen", "another model", "reroute"}

\* The event log against the frozen workflow, and the size of the capture
\* that is to be large
AcWorkflowFaults == {"another sequence", "large output too small"}

\* What either arm may not do, and how far apart they may start
AcConductFaults == {"mutation attempt", "baseline used outctl", "launch skew"}

\* manifest_errors, capture statuses, retrievals without an event
AcSpoolFaults == {"manifest unreadable", "capture not COMPLETE", "retrieval unrecorded"}

\* _parse_arm of both arms, whose required trace may fail.  One fault of
\* either arm is as good as several.
AcParse ==
    /\ acMain.pc = "parse"
    /\ \/ AcRaise
       \/ AcGo("compare")
       \/ \E fault \in AcHookFaults \cup AcAnswerFaults \cup AcModelFaults
                       \cup AcWorkflowFaults \cup AcConductFaults \cup {"exit code"} :
              acMain' = [acMain EXCEPT !.pc = "compare", !.fault = "arm"]
       \/ \E fault \in AcSpoolFaults :
              acMain' = [acMain EXCEPT !.pc = "compare", !.fault = "spool"]
    /\ UNCHANGED <<acHomes, acArmVars, acKept>>

\* _compare_pair, and the break on a treatment that never worked.
AcCompare ==
    /\ acMain.pc = "compare"
    /\ acPairs' = Append(acPairs,
           [valid |-> AcPairValid, killed |-> acKilled # {}, matched |-> AcMatched])
    /\ acMain' = [acMain EXCEPT !.fault = "none",
                                !.pc = IF AcCommissioningFailed THEN "report" ELSE "next"]
    /\ UNCHANGED <<acHomes, acArmVars, acTree, acReport>>

AcNextPair ==
    /\ acMain.pc = "next"
    /\ acMain' = IF acMain.pair < AcPairs
                 THEN [acMain EXCEPT !.pc = "prepare", !.pair = @ + 1]
                 ELSE [acMain EXCEPT !.pc = "report"]
    /\ UNCHANGED <<acHomes, acArmVars, acKept>>

\* all_pairs_valid of _aggregate_pairs, over the pairs that were run.
AcAllValid == \A i \in DOMAIN acPairs : acPairs[i].valid

\* _build_acceptance_json; the policy digest matched or nothing was run.
AcVerdict ==
    LET valid == acPairs # <<>> /\ AcAllValid IN
    [files |-> 2, commissioning |-> valid,
     result |-> IF Len(acPairs) = 1 THEN "informational" ELSE IF valid THEN "pass" ELSE "fail"]

\* report.json and acceptance.json are written; the exit code.
AcReport ==
    /\ acMain.pc = "report"
    /\ \/ AcRaise /\ acReport' \in {AcNoReport, [AcNoReport EXCEPT !.files = 1]}
       \/ /\ acReport' = AcVerdict
          /\ acMain' = [acMain EXCEPT !.pc = "finally", !.exit =
                 IF acMain.mode # "dry" /\ ~AcAllValid THEN 1 ELSE 0]
    /\ UNCHANGED <<acHomes, acArmVars, acTree, acPairs>>

\* The outer finally: every home below the output directory, the worktrees.
AcFinally ==
    /\ acMain.pc = "finally" /\ acHomes' = {} /\ AcGo("returned")
    /\ acTree' = [a \in AcArms |-> {}]
    /\ UNCHANGED <<acArmVars, acReport, acPairs>>

AcReturned == acMain.pc = "returned" /\ UNCHANGED acVars

AcNext ==
    \/ AcArguments \/ AcBind \/ AcPreflight \/ AcOutput \/ AcChecker
    \/ AcWorktrees \/ AcDress \/ AcPrepare \/ AcWriteHomes \/ AcPlan
    \/ AcIdentity \/ AcStartThreads \/ AcMainArrives \/ AcBarrierTimeout
    \/ AcBroken \/ AcJoin \/ AcParse \/ AcCompare \/ AcNextPair
    \/ AcReport \/ AcFinally \/ AcReturned
    \/ \E arm \in AcArms : \/ AcWorkerArrives(arm) \/ AcWorkerLaunches(arm)
                           \/ AcExit(arm) \/ AcTimeout(arm)
                           \/ AcComplete(arm) \/ AcCompleted(arm)
    \/ \E k \in AcCommands : AcIssue(k) \/ AcAcquire(k) \/ AcCapture(k) \/ AcAnswer(k)

AcSpec == AcInit /\ [][AcNext]_acVars

-----------------------------------------------------------------------------
(* An accepted experiment was earned (_compare_pair, _aggregate_pairs,      *)
(* _build_acceptance_json, main).  Exit code 0 of a run that was not dry    *)
(* means that every pair that was asked for was compared, that no agent of  *)
(* any of them had been terminated, even one that was resumed afterwards,   *)
(* and that in a deterministic pair the commands arm A completed are        *)
(* exactly the captures in its spool, as many as the workflow expects.  A   *)
(* verdict that was written calls the commissioning valid exactly when the  *)
(* exit code does.                                                          *)
(* An agent runs only while main waits for it with its credentials in       *)
(* place, in a worktree with its guard and the pinned identity, and the     *)
(* baseline's says nothing of outctl.  Once main has returned no home with  *)
(* credentials and no worktree is left.                                     *)
AcceptanceIsEarned ==
    /\ acMain.pc = "returned" /\ acMain.exit = 0 /\ acMain.mode # "dry" =>
           /\ Len(acPairs) = AcPairs
           /\ \A i \in DOMAIN acPairs :
                  /\ ~acPairs[i].killed
                  /\ acMain.treatment = "deterministic" => acPairs[i].matched
    /\ acMain.pc = "returned" /\ acReport.files = 2 /\ acMain.mode # "dry" =>
           (acReport.commissioning <=> acMain.exit = 0)
    /\ \A a \in AcArms : acAgent[a] = "running" =>
           /\ a \in acHomes /\ acMain.pc \in {"barrier", "join", AcWaiting(a)}
           /\ {"identity", AcGuard(a)} \subseteq acTree[a]
           /\ ~AcContaminated(acTree["B"])
    /\ acMain.pc = "returned" => acHomes = {} /\ acTree = [a \in AcArms |-> {}]

=============================================================================
