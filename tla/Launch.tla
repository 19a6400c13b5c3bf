------------------------------- MODULE Launch -------------------------------
(***************************************************************************)
(* The N-arm study launcher (src/outctl/harness.py) over a scenario        *)
(* handler (src/outctl/scenarios.py): plan every session, resolve every    *)
(* scenario package, then run one start group after the other.  The        *)
(* sessions of a group are threads that leave one barrier together; each   *)
(* materializes its scenario, calls the runner and tears down.             *)
(***************************************************************************)
EXTENDS Naturals, Sequences, FiniteSets, Functions

CONSTANTS
    LhScenarios,  \* number of scenarios of the suite
    LhArms,       \* number of arms of the matrix
    LhReplicates, \* replicates of the protocol
    LhSeeds       \* randomization seeds tried

ASSUME LhConstants ==
    {LhScenarios, LhArms, LhReplicates} \subseteq Nat \ {0} /\ LhSeeds \subseteq Nat

LhTotal == LhScenarios * LhArms * LhReplicates
LhSessions == (1..LhScenarios) \X (1..LhReplicates) \X (0..LhArms - 1)
LhCoordinator == LhArms

VARIABLES
    lhPhase,    \* where the coordinator is
    lhPlan,     \* plan.groups: a sequence of sequences of sessions
    lhAt,       \* the start group under way
    lhStarted,  \* threads of this group started
    lhThread,   \* [arm -> where its thread is]
    lhArrived,  \* parties at the barrier: arms, and LhCoordinator
    lhBegun,    \* sessions that left their barrier
    lhLive,     \* sessions with a materialized scenario
    lhResults,  \* keys of results
    lhErrors    \* keys of errors

lhVars == <<lhPhase, lhPlan, lhAt, lhStarted, lhThread, lhArrived, lhBegun,
            lhLive, lhResults, lhErrors>>

LhNoThreads == [a \in 0..LhArms - 1 |-> "none"]

LhTypeOK ==
    /\ lhPhase \in {"plan", "resolve", "start", "wait", "join", "returned", "raised"}
    /\ lhPlan \in Seq(Seq(LhSessions)) /\ lhAt \in 0..Len(lhPlan)
    /\ lhStarted \in 0..LhArms
    /\ lhThread \in [0..LhArms - 1 -> {"none", "started", "waiting", "open",
                                       "running", "ended"}]
    /\ lhArrived \subseteq 0..LhCoordinator
    /\ lhBegun \subseteq LhSessions /\ lhLive \subseteq LhSessions
    /\ lhResults \subseteq LhSessions /\ lhErrors \subseteq LhSessions

LhInit ==
    /\ lhPhase = "plan" /\ lhPlan = <<>> /\ lhAt = 0 /\ lhStarted = 0
    /\ lhThread = LhNoThreads /\ lhArrived = {}
    /\ lhBegun = {} /\ lhLive = {} /\ lhResults = {} /\ lhErrors = {}

-----------------------------------------------------------------------------
\* The arms of one start group: arms[rotation:] + arms[:rotation].
LhOrder(scenario, replicate, seed) ==
    LET rotation == (seed + (scenario - 1) + (replicate - 1)) % LhArms IN
    [i \in 1..LhArms |-> <<scenario, replicate, (rotation + i - 1) % LhArms>>]

\* plan_sessions after its checks: scenarios in order, replicates within.
LhPlanned(seed) ==
    [g \in 1..LhScenarios * LhReplicates |->
        LhOrder(((g - 1) \div LhReplicates) + 1, ((g - 1) % LhReplicates) + 1, seed)]

\* _validate_inputs with _arms: three contracts, the suite, matrix, arm and
\* protocol digests they bind, and the size of the canonical protocol.
LhInputs == {"contracts", "arms", "suite_digest", "matrix_digest", "arm_ids",
             "protocol_digest", "canonical_size"}

\* _limits and the comparisons of plan_sessions.  A null limit is as good as
\* one that is just large enough; credits count one per session.
LhAdmitted(bad, maxSessions, maxConcurrent, maxCredits) ==
    /\ bad = {}
    /\ maxConcurrent >= LhArms
    /\ LhTotal <= maxSessions
    /\ LhTotal <= maxCredits

LhMakePlan ==
    /\ lhPhase = "plan"
    /\ \E bad \in {{}} \cup {{c} : c \in LhInputs}, seed \in LhSeeds,
          maxSessions, maxCredits \in {LhTotal - 1, LhTotal},
          maxConcurrent \in {LhArms - 1, LhArms} :
           IF LhAdmitted(bad, maxSessions, maxConcurrent, maxCredits)
           THEN lhPhase' = "resolve" /\ lhPlan' = LhPlanned(seed)
           ELSE lhPhase' = "raised" /\ UNCHANGED lhPlan
    /\ UNCHANGED <<lhAt, lhStarted, lhThread, lhArrived, lhBegun, lhLive,
                   lhResults, lhErrors>>

\* ScenarioHandler.resolve: what must hold of a binding, and of the fixture
\* its provider reads.
LhBindings == {"paths", "digests", "contracts", "scenario_id", "fixture_digest",
               "facts_digest", "provider"}
LhFixtures == {"marker", "operation", "counts", "bytes", "exit_code"}

\* launch_with_handler resolves every scenario before the first group.
LhResolve ==
    /\ lhPhase = "resolve"
    /\ \E bad \in {{}} \cup {{c} : c \in LhBindings \cup LhFixtures} :
           IF bad = {} THEN lhPhase' = "start" /\ lhAt' = 1
                       ELSE lhPhase' = "raised" /\ UNCHANGED lhAt
    /\ UNCHANGED <<lhPlan, lhStarted, lhThread, lhArrived, lhBegun, lhLive,
                   lhResults, lhErrors>>

-----------------------------------------------------------------------------
LhGroup == lhPlan[lhAt]
LhMembers == {LhGroup[i][3] : i \in DOMAIN LhGroup}
LhSession(arm) == CHOOSE s \in LhSessions : s[3] = arm /\ s \in Range(LhGroup)

\* threading.Barrier(len(group.sessions) + 1).
LhParties == Len(LhGroup) + 1

\* thread.start() of the next session in start order, or "can't start new
\* thread", which leaves execute_plan while the threads already started wait.
LhStartThread ==
    /\ lhPhase = "start" /\ lhStarted < Len(LhGroup)
    /\ \/ /\ lhStarted' = lhStarted + 1
          /\ lhThread' = [lhThread EXCEPT ![LhGroup[lhStarted + 1][3]] = "started"]
          /\ UNCHANGED lhPhase
       \/ lhPhase' = "raised" /\ UNCHANGED <<lhStarted, lhThread>>
    /\ UNCHANGED <<lhPlan, lhAt, lhArrived, lhBegun, lhLive, lhResults, lhErrors>>

\* barrier.wait(): the arrival that fills the barrier opens it for all of them.
LhArrive(party) ==
    LET arrived == lhArrived \cup {party} IN
    IF Cardinality(arrived) = LhParties
    THEN /\ lhArrived' = {}
         /\ lhThread' = [a \in DOMAIN lhThread |->
                             IF a \in arrived THEN "open" ELSE lhThread[a]]
         /\ lhPhase' = IF LhCoordinator \in arrived THEN "join" ELSE lhPhase
    ELSE /\ lhArrived' = arrived
         /\ lhThread' = [a \in DOMAIN lhThread |->
                             IF a = party THEN "waiting" ELSE lhThread[a]]
         /\ lhPhase' = IF party = LhCoordinator THEN "wait" ELSE lhPhase

LhThreadArrives(arm) ==
    /\ lhThread[arm] = "started"
    /\ LhArrive(arm)
    /\ UNCHANGED <<lhPlan, lhAt, lhStarted, lhBegun, lhLive, lhResults, lhErrors>>

LhCoordinatorArrives ==
    /\ lhPhase = "start" /\ lhStarted = Len(LhGroup)
    /\ LhArrive(LhCoordinator)
    /\ UNCHANGED <<lhPlan, lhAt, lhStarted, lhBegun, lhLive, lhResults, lhErrors>>

\* handler.materialize: the provider resolves the fixture again, makes the
\* directory and its executable.  A failure is the session's error.
LhMaterialize(arm) ==
    LET session == LhSession(arm) IN
    /\ lhThread[arm] = "open"
    /\ lhBegun' = lhBegun \cup {session}
    /\ \/ /\ lhThread' = [lhThread EXCEPT ![arm] = "running"]
          /\ lhLive' = lhLive \cup {session} /\ UNCHANGED lhErrors
       \/ /\ lhThread' = [lhThread EXCEPT ![arm] = "ended"]
          /\ lhErrors' = lhErrors \cup {session} /\ UNCHANGED lhLive
    /\ UNCHANGED <<lhPhase, lhPlan, lhAt, lhStarted, lhArrived, lhResults>>

\* A slip: a runner that raises skips the teardown.
LhRunWithoutFinally(arm) ==
    LET session == LhSession(arm) IN
    /\ lhThread[arm] = "running"
    /\ lhThread' = [lhThread EXCEPT ![arm] = "ended"]
    /\ \/ lhLive' = lhLive \ {session} /\ lhResults' = lhResults \cup {session}
          /\ UNCHANGED lhErrors
       \/ lhErrors' = lhErrors \cup {session} /\ UNCHANGED <<lhLive, lhResults>>
    /\ UNCHANGED <<lhPhase, lhPlan, lhAt, lhStarted, lhArrived, lhBegun>>

\* runner(session), the finally clause, and the entry under the lock.
LhRun(arm) ==
    LET session == LhSession(arm) IN
    /\ lhThread[arm] = "running"
    /\ lhThread' = [lhThread EXCEPT ![arm] = "ended"]
    /\ lhLive' = lhLive \ {session}
    /\ \/ lhResults' = lhResults \cup {session} /\ UNCHANGED lhErrors
       \/ lhErrors' = lhErrors \cup {session} /\ UNCHANGED lhResults
    /\ UNCHANGED <<lhPhase, lhPlan, lhAt, lhStarted, lhArrived, lhBegun>>

\* Every thread joined: an error of the group ends the launch.
LhJoin ==
    /\ lhPhase = "join" /\ \A a \in LhMembers : lhThread[a] = "ended"
    /\ \/ /\ lhErrors # {} /\ lhPhase' = "raised" /\ UNCHANGED <<lhAt, lhStarted, lhThread>>
       \/ /\ lhErrors = {} /\ lhAt < Len(lhPlan)
          /\ lhPhase' = "start" /\ lhAt' = lhAt + 1
          /\ lhStarted' = 0 /\ lhThread' = LhNoThreads
       \/ /\ lhErrors = {} /\ lhAt = Len(lhPlan)
          /\ lhPhase' = "returned" /\ UNCHANGED <<lhAt, lhStarted, lhThread>>
    /\ UNCHANGED <<lhPlan, lhArrived, lhBegun, lhLive, lhResults, lhErrors>>

LhReturned == lhPhase \in {"returned", "raised"} /\ UNCHANGED lhVars

LhNext ==
    \/ LhMakePlan \/ LhResolve \/ LhStartThread \/ LhCoordinatorArrives
    \/ LhJoin \/ LhReturned
    \/ \E arm \in 0..LhArms - 1 :
           LhThreadArrives(arm) \/ LhMaterialize(arm) \/ LhRun(arm)

LhSpec == LhInit /\ [][LhNext]_lhVars

-----------------------------------------------------------------------------
(* A matched launch (execute_plan, launch_with_handler).  A session leaves  *)
(* the barrier only when every thread of its group is there and every       *)
(* earlier group ended without an error; the launch returns only with a     *)
(* result for every scenario, replicate and arm; and whichever way it ends, *)
(* no scenario is left materialized.                                        *)
MatchedLaunch ==
    /\ \A a \in DOMAIN lhThread : lhThread[a] \in {"open", "running", "ended"} =>
           \A b \in DOMAIN lhThread : lhThread[b] \notin {"none", "started", "waiting"}
    /\ \A s \in lhBegun : \A g \in DOMAIN lhPlan :
           s \in Range(lhPlan[g]) =>
               g <= lhAt /\ \A h \in 1..g - 1 : Range(lhPlan[h]) \subseteq lhResults
    /\ lhPhase = "returned" => lhResults = LhSessions
    /\ lhPhase \in {"returned", "raised"} => lhLive = {}

=============================================================================
