-------------------------- MODULE AcceptanceProofs --------------------------
(***************************************************************************)
(* The paired acceptance run: success is earned and nothing is left        *)
(* behind, for any number of pairs, commands, expected captures and slots. *)
(***************************************************************************)
EXTENDS Acceptance, FiniteSetTheorems, TLAPS

\* Where main is: before the worktrees, with both dressed, with the homes in
\* place, in a pair.
AcSetUp == {"launch", "bindings", "preflight", "output", "checker", "worktrees"}
AcHoused == {"hooks", "identity", "start", "barrier", "broken", "join",
             "complete A", "waiting A", "complete B", "waiting B"}
AcInPair == AcHoused \cup {"prepare", "homes", "parse", "compare"}
AcDressed == AcInPair \cup {"next", "report"}

\* Homes and worktrees, by where main is.
AcTidy ==
    /\ acMain.pc \in AcSetUp \cup {"returned"} => acHomes = {} /\ acTree = [a \in AcArms |-> {}]
    /\ acMain.pc \in AcHoused => acHomes = AcArms
    /\ acMain.pc \in AcDressed =>
           /\ \A a \in AcArms : {"identity", AcGuard(a)} \subseteq acTree[a]
           /\ ~AcContaminated(acTree["B"])

\* Agents and the threads that supervise them.
AcSupervised ==
    /\ \A a \in AcArms : acAgent[a] = "running" => acMain.pc \in {"barrier", "join", AcWaiting(a)}
    /\ acMain.pc \in {"barrier", "join"} =>
           \A a \in AcArms : /\ acAgent[a] = "running" => acWorker[a] = "launched"
                             /\ acWorker[a] = "launched" => acBarrier.state = "tripped"
    /\ acMain.pc \notin {"barrier", "join"} =>
           \A a \in AcArms : acWorker[a] \in {"none", "done", "error"} \/ acBarrier.state = "broken"

\* What the arms left behind of a pair.
AcLeft ==
    /\ \A k \in AcCommands : acCommand[k] \in {"captured", "completed"} => k \in acSpool.captures
    /\ \A a \in acKilled : acResult[a].timed /\ acWorker[a] = "done"
    /\ acMain.pc \in {"homes", "hooks", "identity", "start"} => acKilled = {}

\* The pairs compared so far, and what is reported of them.
AcJudged ==
    /\ acMain.pc \in AcSetUp \cup {"overlay"} => acPairs = <<>> /\ acMain.pair = 1
    /\ acMain.pc \in AcInPair /\ acMain.mode # "dry" => Len(acPairs) = acMain.pair - 1
    /\ acMain.pc = "next" /\ acMain.mode # "dry" => Len(acPairs) = acMain.pair
    /\ acMain.pc = "report" /\ acMain.mode # "dry" => Len(acPairs) = AcPairs \/ ~AcAllValid
    /\ \A i \in DOMAIN acPairs : acPairs[i].valid =>
           ~acPairs[i].killed /\ (acMain.treatment = "deterministic" => acPairs[i].matched)
    /\ acMain.pc \notin {"finally", "returned"} => acReport.files # 2
    /\ acMain.pc \in {"finally", "returned"} /\ acMain.mode # "dry" =>
           /\ acMain.exit = 0 => Len(acPairs) = AcPairs /\ AcAllValid
           /\ acReport.files = 2 => (acReport.commissioning <=> acMain.exit = 0)

AcInv == AcTypeOK /\ AcTidy /\ AcSupervised /\ AcLeft /\ AcJudged

-----------------------------------------------------------------------------
AcPcs == AcSetUp \cup {"overlay"} \cup AcDressed \cup {"finally", "returned"}

AcMains == [pc : AcPcs, mode : {"dry", "live", "controlled"},
            treatment : {"deterministic", "opt-in"}, fault : {"none", "arm", "spool"},
            pair : 1..AcPairs, exit : 0..2]

AcVerdicts == [valid : BOOLEAN, killed : BOOLEAN, matched : BOOLEAN]

\* The arm variables have their types.
AcArmTypes ==
    /\ acBarrier \in [in : SUBSET AcParties, state : {"open", "tripped", "broken"}]
    /\ acWorker \in [AcArms -> {"none", "ready", "waiting", "launched", "done", "error"}]
    /\ acAgent \in [AcArms -> {"none", "running", "ended"}]
    /\ acResult \in [AcArms -> [timed : BOOLEAN, direct : 0..AcExpected, tails : 0..1]]
    /\ acCommand \in [AcCommands -> {"idle", "waiting", "running", "captured",
                                     "completed", "failed", "lost"}]
    /\ acOrphans \subseteq AcCommands /\ acLock \in 0..AcSlots
    /\ acSpool \in [captures : SUBSET AcCommands, partial : SUBSET AcCommands]
    /\ acKilled \subseteq AcArms

LEMMA AcTypeParts ==
    AcTypeOK <=> /\ acMain \in AcMains /\ acHomes \subseteq AcArms /\ AcArmTypes
                 /\ acTree \in [AcArms -> SUBSET AcContents]
                 /\ acReport \in [files : 0..2, commissioning : BOOLEAN,
                                  result : {"none", "informational", "pass", "fail"}]
                 /\ acPairs \in Seq(AcVerdicts)
<1>1. AcPcs = {"launch", "bindings", "preflight", "output", "checker",
               "worktrees", "overlay", "prepare", "homes", "hooks", "identity", "start",
               "barrier", "broken", "join", "complete A", "waiting A", "complete B",
               "waiting B", "parse", "compare", "next", "report", "finally", "returned"}
  BY DEF AcPcs, AcSetUp, AcDressed, AcInPair, AcHoused
<1> QED
  BY <1>1 DEF AcTypeOK, AcMains, AcArmTypes, AcVerdicts

LEMMA AcTypeNext ==
    ASSUME acMain' \in AcMains, acHomes' \subseteq AcArms, AcArmTypes',
           acTree' \in [AcArms -> SUBSET AcContents],
           acReport' \in [files : 0..2, commissioning : BOOLEAN,
                          result : {"none", "informational", "pass", "fail"}],
           acPairs' \in Seq(AcVerdicts)
    PROVE  AcTypeOK'
  BY DEF AcTypeOK, AcArmTypes, AcVerdicts, AcMains, AcPcs, AcSetUp, AcDressed, AcInPair, AcHoused

LEMMA AcMoves ==
    ASSUME acMain \in AcMains
    PROVE  /\ \A pc \in AcPcs : AcGo(pc) =>
                  /\ acMain' \in AcMains /\ acMain'.pc = pc /\ acMain'.mode = acMain.mode
                  /\ acMain'.treatment = acMain.treatment /\ acMain'.pair = acMain.pair
           /\ AcRaise => /\ acMain' \in AcMains /\ acMain'.pc = "finally" /\ acMain'.exit = 2
                         /\ acMain'.mode = acMain.mode /\ acMain'.pair = acMain.pair
                         /\ acMain'.treatment = acMain.treatment
           /\ AcRefuse => /\ acMain' \in AcMains /\ acMain'.pc = "returned" /\ acMain'.exit = 2
                          /\ acMain'.mode = acMain.mode /\ acMain'.pair = acMain.pair
                          /\ acMain'.treatment = acMain.treatment
<1>1. "finally" \in AcPcs /\ "returned" \in AcPcs
  BY DEF AcPcs
<1> HIDE DEF AcPcs
<1>2. ASSUME NEW pc \in AcPcs, NEW code \in 0..2,
             acMain' = [acMain EXCEPT !.pc = pc, !.exit = code]
      PROVE  /\ acMain' \in AcMains /\ acMain'.pc = pc /\ acMain'.exit = code
             /\ acMain'.mode = acMain.mode /\ acMain'.pair = acMain.pair
             /\ acMain'.treatment = acMain.treatment
  BY <1>2 DEF AcMains
<1>3. ASSUME NEW pc \in AcPcs, AcGo(pc)
      PROVE  /\ acMain' \in AcMains /\ acMain'.pc = pc /\ acMain'.mode = acMain.mode
             /\ acMain'.treatment = acMain.treatment /\ acMain'.pair = acMain.pair
  BY <1>3 DEF AcGo, AcMains
<1>4. ASSUME AcRaise
      PROVE  /\ acMain' \in AcMains /\ acMain'.pc = "finally" /\ acMain'.exit = 2
             /\ acMain'.mode = acMain.mode /\ acMain'.pair = acMain.pair
             /\ acMain'.treatment = acMain.treatment
  <2>1. 2 \in 0..2
    OBVIOUS
  <2> QED
    BY <1>1, <1>2, <1>4, <2>1, Zenon DEF AcRaise
<1>5. ASSUME AcRefuse
      PROVE  /\ acMain' \in AcMains /\ acMain'.pc = "returned" /\ acMain'.exit = 2
             /\ acMain'.mode = acMain.mode /\ acMain'.pair = acMain.pair
             /\ acMain'.treatment = acMain.treatment
  <2>1. 2 \in 0..2
    OBVIOUS
  <2> QED
    BY <1>1, <1>2, <1>5, <2>1, Zenon DEF AcRefuse
<1> QED
  BY <1>3, <1>4, <1>5

LEMMA AcInitInv == AcInit => AcInv
<1> SUFFICES ASSUME AcInit PROVE AcInv
  OBVIOUS
<1>1. acMain \in AcMains /\ acMain.pc = "launch" /\ acMain.pair = 1
  BY AcConstants DEF AcInit, AcMains, AcPcs, AcSetUp
<1>2. AcArmTypes
  BY AcConstants DEF AcInit, AcArmTypes, AcNoResult, AcParties, AcCommands
<1>3. acPairs \in Seq(AcVerdicts) /\ acReport.files = 0
  BY DEF AcInit, AcNoReport
<1>4. AcTypeOK
  BY <1>1, <1>2, <1>3, AcTypeParts DEF AcInit, AcNoReport, AcContents
<1>5. AcTidy
  BY <1>1 DEF AcInit, AcTidy, AcSetUp, AcHoused, AcDressed, AcInPair
<1>6. AcSupervised
  BY <1>1 DEF AcInit, AcSupervised
<1>7. AcLeft
  BY <1>1 DEF AcInit, AcLeft
<1>8. AcJudged
  BY <1>1, <1>3 DEF AcInit, AcJudged, AcSetUp, AcHoused, AcInPair
<1> QED
  BY <1>4, <1>5, <1>6, <1>7, <1>8 DEF AcInv

-----------------------------------------------------------------------------
\* No agent is running and no thread can start one.
AcQuiet ==
    \A a \in AcArms : /\ acAgent[a] # "running"
                      /\ acWorker[a] \in {"none", "done", "error"} \/ acBarrier.state = "broken"

LEMMA AcQuietAt ==
    ASSUME AcSupervised, acMain.pc \notin {"barrier", "join", "waiting A", "waiting B"}
    PROVE  AcQuiet
  BY DEF AcSupervised, AcQuiet, AcWaiting

(* The steps before the worktrees: an error leaves nothing behind.         *)
LEMMA AcSetUpStep ==
    ASSUME AcInv, acMain.pc \in AcSetUp, acMain' \in AcMains, acMain'.pair = acMain.pair,
           acMain'.pc \in AcSetUp \cup {"returned"}, acMain'.pc = "returned" => acMain'.exit = 2,
           UNCHANGED <<acHomes, acArmVars, acKept>>
    PROVE  AcInv'
<1>1. UNCHANGED <<acHomes, acBarrier, acWorker, acAgent, acResult, acCommand, acOrphans, acSpool,
                  acLock, acKilled, acTree, acReport, acPairs>>
  BY DEF acArmVars, acKept
<1>2. acHomes = {} /\ acTree = [a \in AcArms |-> {}] /\ acPairs = <<>> /\ acMain.pair = 1
      /\ acReport.files # 2
  BY DEF AcInv, AcTidy, AcJudged, AcSetUp
<1>3. acMain'.pc \notin AcDressed \cup {"overlay", "barrier", "join", "finally"}
      /\ acMain.pc \notin {"barrier", "join", "waiting A", "waiting B"}
  BY DEF AcSetUp, AcDressed, AcInPair, AcHoused
<1>4. AcTypeOK'
  BY <1>1, AcTypeParts, AcTypeNext DEF AcInv, AcArmTypes
<1>5. AcTidy'
  BY <1>1, <1>2, <1>3 DEF AcTidy, AcDressed, AcInPair
<1>6. AcSupervised'
  BY <1>1, <1>3, AcQuietAt DEF AcInv, AcQuiet, AcSupervised
<1>7. AcLeft'
  BY <1>1, <1>3 DEF AcInv, AcLeft, AcDressed, AcInPair, AcHoused
<1>8. AcJudged'
  <2>1. DOMAIN acPairs = {} /\ acMain'.pc \notin AcInPair \cup {"next", "report", "finally"}
    <3>1. DOMAIN acPairs = {}
      BY <1>2
    <3> QED
      BY <1>3, <3>1 DEF AcDressed
  <2> QED
    BY <1>1, <1>2, <2>1 DEF AcJudged
<1> QED
  BY <1>4, <1>5, <1>6, <1>7, <1>8 DEF AcInv

LEMMA AcSetUpInv ==
    ASSUME AcInv, AcArguments \/ AcBind \/ AcPreflight \/ AcOutput \/ AcChecker
    PROVE  AcInv'
<1>1. acMain \in AcMains
  BY AcTypeParts DEF AcInv
<1>2. acMain.pc \in AcSetUp /\ UNCHANGED <<acHomes, acArmVars, acKept>>
  BY DEF AcArguments, AcBind, AcPreflight, AcOutput, AcChecker, AcSetUp
<1>3. CASE AcArguments
  <2>1. acMain' \in AcMains /\ acMain'.pc = "bindings" /\ acMain'.pair = acMain.pair
    BY <1>1, <1>3 DEF AcArguments, AcOptions, AcMains, AcPcs, AcSetUp
  <2> QED
    BY <1>2, <2>1, AcSetUpStep DEF AcSetUp
<1>4. CASE AcBind \/ AcPreflight \/ AcOutput \/ AcChecker
  <2>1. \/ \E pc \in {"preflight", "output", "checker", "worktrees"} : AcGo(pc)
        \/ AcRefuse
    BY <1>4 DEF AcBind, AcPreflight, AcOutput, AcChecker
  <2>2. CASE AcRefuse
    BY <1>1, <1>2, <2>2, AcMoves, AcSetUpStep
  <2>3. ASSUME NEW pc \in {"preflight", "output", "checker", "worktrees"}, AcGo(pc) PROVE AcInv'
    <3>1. pc \in AcSetUp /\ pc \in AcPcs /\ pc # "returned"
      BY DEF AcSetUp, AcPcs
    <3> QED
      BY <1>1, <1>2, <2>3, <3>1, AcMoves, AcSetUpStep
  <2> QED
    BY <2>1, <2>2, <2>3
<1> QED
  BY <1>3, <1>4

(* A step to the finally, or to the dressing of the worktrees.             *)
LEMMA AcRaisedStep ==
    ASSUME AcInv, acMain.pc \notin {"finally", "returned"}, AcQuiet', AcLeft', AcArmTypes',
           AcRaise, acHomes' \subseteq AcArms, acTree' \in [AcArms -> SUBSET AcContents],
           acReport' \in {acReport, AcNoReport, [AcNoReport EXCEPT !.files = 1]},
           UNCHANGED acPairs
    PROVE  AcInv'
<1>1. /\ acMain' \in AcMains /\ acMain'.pc = "finally" /\ acMain'.exit = 2
      /\ acMain'.treatment = acMain.treatment
  BY AcMoves, AcTypeParts DEF AcInv
<1>2. acReport' \in [files : 0..2, commissioning : BOOLEAN,
                     result : {"none", "informational", "pass", "fail"}] /\ acReport'.files # 2
  <2>1. AcNoReport \in [files : 0..2, commissioning : BOOLEAN,
                        result : {"none", "informational", "pass", "fail"}]
        /\ AcNoReport.files = 0
    BY DEF AcNoReport
  <2>2. acReport \in [files : 0..2, commissioning : BOOLEAN,
                      result : {"none", "informational", "pass", "fail"}] /\ acReport.files # 2
    BY AcTypeParts DEF AcInv, AcJudged
  <2> QED
    BY <2>1, <2>2
<1>3. acPairs \in Seq(AcVerdicts)
  BY AcTypeParts DEF AcInv
<1>4. AcTypeOK'
  BY <1>1, <1>2, <1>3, AcTypeNext
<1>5. AcTidy'
  BY <1>1 DEF AcTidy, AcSetUp, AcHoused, AcDressed, AcInPair
<1>6. AcSupervised'
  BY <1>1 DEF AcSupervised, AcQuiet
<1>7. AcJudged'
  <2>1. acMain'.pc \notin AcSetUp \cup AcInPair \cup {"overlay", "next", "report"}
    BY <1>1 DEF AcSetUp, AcHoused, AcInPair
  <2>2. \A i \in DOMAIN acPairs' : acPairs'[i].valid =>
           ~acPairs'[i].killed /\ (acMain'.treatment = "deterministic" => acPairs'[i].matched)
    BY <1>1 DEF AcInv, AcJudged
  <2> QED
    BY <1>1, <1>2, <2>1, <2>2 DEF AcJudged
<1> QED
  BY <1>4, <1>5, <1>6, <1>7 DEF AcInv

(* An exception with nothing running: the finally is next.                 *)
LEMMA AcRaiseInv ==
    ASSUME AcInv, acMain.pc \notin {"finally", "returned"}, AcQuiet, AcRaise,
           UNCHANGED <<acArmVars, acReport, acPairs>>, acHomes' \subseteq AcArms,
           acTree' \in [AcArms -> SUBSET AcContents]
    PROVE  AcInv'
<1>1. UNCHANGED <<acBarrier, acWorker, acAgent, acResult, acCommand, acOrphans, acSpool,
                  acLock, acKilled, acReport, acPairs>>
  BY DEF acArmVars
<1>2. acMain'.pc = "finally"
  BY AcMoves, AcTypeParts DEF AcInv
<1>3. AcArmTypes'
  BY <1>1, AcTypeParts DEF AcInv, AcArmTypes
<1>4. AcQuiet' /\ AcLeft'
  BY <1>1, <1>2 DEF AcInv, AcQuiet, AcLeft
<1> QED
  BY <1>1, <1>3, <1>4, AcRaisedStep

(* A step of main inside a pair while nothing runs.                        *)
LEMMA AcMainStep ==
    ASSUME AcInv, acMain.pc \in AcDressed, AcQuiet, acMain' \in AcMains,
           acMain'.pc \in AcDressed \ {"barrier", "join"},
           acMain'.mode = acMain.mode, acMain'.treatment = acMain.treatment,
           UNCHANGED <<acArmVars, acKept>>, acHomes' \subseteq AcArms,
           acMain'.pc \in AcHoused => acHomes' = AcArms,
           acMain'.pc \in {"homes", "hooks", "identity", "start"} => acKilled = {},
           acMain.mode # "dry" =>
               /\ acMain'.pc \in AcInPair => Len(acPairs) = acMain'.pair - 1
               /\ acMain'.pc = "next" => Len(acPairs) = acMain'.pair
               /\ acMain'.pc = "report" => Len(acPairs) = AcPairs \/ ~AcAllValid
    PROVE  AcInv'
<1>1. UNCHANGED <<acBarrier, acWorker, acAgent, acResult, acCommand, acOrphans, acSpool,
                  acLock, acKilled, acTree, acReport, acPairs>>
  BY DEF acArmVars, acKept
<1>2. acMain'.pc \notin AcSetUp \cup {"overlay", "finally", "returned", "barrier", "join"}
      /\ acMain.pc \notin {"finally", "returned"}
  BY DEF AcSetUp, AcDressed, AcInPair, AcHoused
<1>3. AcTypeOK'
  BY <1>1, AcTypeParts, AcTypeNext DEF AcInv, AcArmTypes
<1>4. AcTidy'
  BY <1>1, <1>2 DEF AcInv, AcTidy
<1>5. AcSupervised'
  BY <1>1, <1>2 DEF AcQuiet, AcSupervised
<1>6. AcLeft'
  BY <1>1 DEF AcInv, AcLeft
<1>7. AcJudged'
  <2>1. \A i \in DOMAIN acPairs' : acPairs'[i].valid =>
           ~acPairs'[i].killed /\ (acMain'.treatment = "deterministic" => acPairs'[i].matched)
    BY <1>1 DEF AcInv, AcJudged
  <2>2. AcAllValid' <=> AcAllValid
    BY <1>1 DEF AcAllValid
  <2>3. acReport'.files # 2
    BY <1>1, <1>2 DEF AcInv, AcJudged
  <2> QED
    BY <1>1, <1>2, <2>1, <2>2, <2>3 DEF AcJudged
<1> QED
  BY <1>3, <1>4, <1>5, <1>6, <1>7 DEF AcInv

(* The same, to a place of the same pair with the homes where they were.   *)
LEMMA AcGoStep ==
    ASSUME AcInv, acMain.pc \in AcInPair, AcQuiet, NEW pc \in AcInPair \ {"barrier", "join"},
           AcGo(pc), UNCHANGED <<acArmVars, acKept>>, acHomes' \subseteq AcArms,
           pc \in AcHoused => acHomes' = AcArms,
           pc \in {"homes", "hooks", "identity", "start"} => acKilled = {}
    PROVE  AcInv'
<1>1. pc \in AcPcs /\ acMain.pc \in AcDressed /\ pc \in AcDressed /\ pc \notin {"next", "report"}
  BY DEF AcPcs, AcDressed, AcInPair, AcHoused
<1>2. /\ acMain' \in AcMains /\ acMain'.pc = pc /\ acMain'.mode = acMain.mode
      /\ acMain'.treatment = acMain.treatment /\ acMain'.pair = acMain.pair
  BY <1>1, AcMoves, AcTypeParts DEF AcInv
<1>3. acMain.mode # "dry" => Len(acPairs) = acMain.pair - 1
  BY DEF AcInv, AcJudged
<1> QED
  BY <1>1, <1>2, <1>3, AcMainStep

(* The homes, the hooks, the identity of the arms, the broken barrier.     *)
LEMMA AcHomesInv ==
    ASSUME AcInv, AcWriteHomes \/ AcPlan \/ AcIdentity \/ AcBroken PROVE AcInv'
<1>1. /\ acMain.pc \in {"homes", "hooks", "identity", "broken"}
      /\ UNCHANGED <<acArmVars, acKept>> /\ UNCHANGED acTree
  BY DEF AcWriteHomes, AcPlan, AcIdentity, AcBroken, acKept
<1>2. /\ AcQuiet /\ acMain.pc \in AcInPair /\ acMain.pc \notin {"finally", "returned"}
      /\ acMain.pc # "broken" => acKilled = {}
  BY <1>1, AcQuietAt DEF AcInv, AcLeft, AcInPair, AcHoused
<1>3. acHomes' \subseteq AcArms /\ acTree' \in [AcArms -> SUBSET AcContents]
      /\ (acMain.pc # "homes" => acHomes = AcArms) /\ acMain \in AcMains
  <2>1. acHomes \subseteq AcArms /\ acTree \in [AcArms -> SUBSET AcContents] /\ acMain \in AcMains
    BY AcTypeParts DEF AcInv
  <2>2. acMain.pc # "homes" => acHomes = AcArms
    BY <1>1 DEF AcInv, AcTidy, AcHoused
  <2>3. acHomes' \in {acHomes, {}, {"A"}, AcArms}
    BY DEF AcWriteHomes, AcPlan, AcIdentity, AcBroken
  <2> QED
    BY <1>1, <2>1, <2>2, <2>3 DEF AcArms
<1>4. CASE AcRaise
  BY <1>1, <1>2, <1>3, <1>4, AcRaiseInv DEF acKept
<1>5. CASE acMain.pc # "broken" /\ acHomes' = AcArms /\ \E pc \in {"hooks", "identity", "start"} : AcGo(pc)
  <2>1. PICK pc \in {"hooks", "identity", "start"} : AcGo(pc)
    BY <1>5
  <2>2. pc \in AcInPair \ {"barrier", "join"}
    BY DEF AcInPair, AcHoused
  <2> QED
    BY <1>1, <1>2, <1>3, <1>5, <2>1, <2>2, AcGoStep
<1>6. CASE acMain.pc = "hooks" /\ acMain.mode = "dry" /\ acHomes' = {} /\ AcGo("next")
  <2>1. "next" \in AcPcs /\ acMain.pc \in AcDressed /\ "next" \in AcDressed \ {"barrier", "join"}
        /\ "next" \notin AcHoused
    BY <1>2 DEF AcPcs, AcDressed, AcHoused
  <2>2. /\ acMain' \in AcMains /\ acMain'.pc = "next" /\ acMain'.mode = acMain.mode
        /\ acMain'.treatment = acMain.treatment /\ acMain'.pair = acMain.pair
    BY <1>3, <1>6, <2>1, AcMoves
  <2> QED
    BY <1>1, <1>2, <1>3, <1>6, <2>1, <2>2, AcMainStep
<1>7. CASE AcWriteHomes
  BY <1>4, <1>5, <1>7 DEF AcWriteHomes
<1>8. CASE AcPlan
  BY <1>3, <1>4, <1>5, <1>6, <1>8 DEF AcPlan
<1>9. CASE AcIdentity
  BY <1>3, <1>4, <1>5, <1>9 DEF AcIdentity
<1> QED
  BY <1>4, <1>7, <1>8, <1>9 DEF AcBroken

(* main after the barrier: the join, a completion that is over, the parse. *)
LEMMA AcJoinInv == ASSUME AcInv, AcJoin PROVE AcInv'
<1>1. acMain.pc = "join" /\ UNCHANGED <<acArmVars, acKept>> /\ UNCHANGED acTree
  BY DEF AcJoin, acKept
<1>2. AcQuiet /\ acHomes = AcArms /\ acMain.pc \in AcInPair
  <2>1. \A a \in AcArms : acWorker[a] \in {"done", "error"}
    BY DEF AcJoin
  <2>2. \A a \in AcArms : acAgent[a] # "running"
    BY <1>1, <2>1 DEF AcInv, AcSupervised
  <2> QED
    BY <1>1, <2>1, <2>2 DEF AcQuiet, AcInv, AcTidy, AcInPair, AcHoused
<1>3. acTree' \in [AcArms -> SUBSET AcContents] /\ acHomes' \in {{}, AcArms}
  BY <1>1, <1>2, AcTypeParts DEF AcInv, AcJoin
<1>4. CASE AcRaise
  BY <1>1, <1>2, <1>3, <1>4, AcRaiseInv DEF acKept
<1>5. CASE AcGo("complete A") /\ acHomes' = acHomes
  <2>1. "complete A" \in AcInPair \ {"barrier", "join"}
    BY DEF AcInPair, AcHoused
  <2> QED
    BY <1>1, <1>2, <1>3, <1>5, <2>1, AcGoStep
<1>6. CASE AcGo("parse")
  <2>1. "parse" \in AcInPair \ {"barrier", "join"} /\ "parse" \notin AcHoused
    BY DEF AcInPair, AcHoused
  <2> QED
    BY <1>1, <1>2, <1>3, <1>6, <2>1, AcGoStep
<1> QED
  BY <1>4, <1>5, <1>6 DEF AcJoin

LEMMA AcAfterInv ==
    ASSUME AcInv, NEW arm \in AcArms, AcQuiet, acMain.pc \in AcHoused,
           AcGo(AcAfterCompletion(arm)), UNCHANGED <<acArmVars, acKept>>,
           acHomes' = IF arm = "B" THEN {} ELSE acHomes
    PROVE  AcInv'
<1>1. acHomes = AcArms /\ acMain.pc \in AcInPair
  BY DEF AcInv, AcTidy, AcInPair
<1>2. CASE arm = "A"
  <2>1. "complete B" \in AcInPair \ {"barrier", "join"} /\ AcGo("complete B") /\ acHomes' = AcArms
    BY <1>1, <1>2 DEF AcInPair, AcHoused, AcAfterCompletion
  <2> QED
    BY <1>1, <2>1, AcGoStep
<1>3. CASE arm = "B"
  <2>1. "parse" \in AcInPair \ {"barrier", "join"} /\ "parse" \notin AcHoused /\ AcGo("parse")
    BY <1>3 DEF AcInPair, AcHoused, AcAfterCompletion
  <2> QED
    BY <1>1, <1>3, <2>1, AcGoStep
<1> QED
  BY <1>2, <1>3 DEF AcArms

(* The completion of an arm: a second agent runs while main waits for it.  *)
LEMMA AcCompleteInv ==
    ASSUME AcInv, NEW arm \in AcArms, AcComplete(arm) \/ AcCompleted(arm) PROVE AcInv'
<1>1. acMain \in AcMains /\ acTree \in [AcArms -> SUBSET AcContents] /\ AcArmTypes
  BY AcTypeParts DEF AcInv
<1>2. CASE AcCompleted(arm)
  <2>1. acMain.pc = AcWaiting(arm) /\ acAgent[arm] = "ended"
    BY <1>2 DEF AcCompleted
  <2>2. acMain.pc \in AcHoused /\ acMain.pc \notin {"barrier", "join"}
        /\ \A a \in AcArms : a # arm => acMain.pc # AcWaiting(a)
    BY <2>1 DEF AcWaiting, AcHoused, AcArms
  <2>3. AcQuiet
    BY <2>1, <2>2 DEF AcInv, AcSupervised, AcQuiet
  <2> QED
    BY <1>2, <2>2, <2>3, AcAfterInv DEF AcCompleted
<1>3. CASE AcComplete(arm)
  <2>1. acMain.pc \in {"complete A", "complete B"}
    BY <1>3 DEF AcComplete, AcCompleting
  <2>2. AcQuiet /\ acMain.pc \in AcHoused /\ acHomes = AcArms
    BY <2>1, AcQuietAt DEF AcInv, AcTidy, AcHoused
  <2>3. UNCHANGED <<acBarrier, acWorker, acResult, acCommand, acOrphans, acSpool,
                    acLock, acKilled, acTree, acReport, acPairs>>
    BY <1>3 DEF AcComplete, acKept
  <2>4. CASE /\ AcGo(AcAfterCompletion(arm)) /\ UNCHANGED acAgent
             /\ acHomes' = IF arm = "B" THEN {} ELSE acHomes
    BY <2>2, <2>3, <2>4, AcAfterInv DEF acArmVars, acKept
  <2>5. CASE AcRaise /\ acHomes' = {} /\ UNCHANGED acAgent
    BY <1>1, <2>1, <2>2, <2>3, <2>5, AcRaiseInv DEF acArmVars
  <2>6. CASE /\ AcGo(AcWaiting(arm)) /\ UNCHANGED acHomes
             /\ acAgent' = [acAgent EXCEPT ![arm] = "running"]
    <3>1. AcWaiting(arm) \in {"waiting A", "waiting B"}
      BY DEF AcWaiting
    <3>2. AcWaiting(arm) \in AcHoused /\ AcWaiting(arm) \in AcPcs
      BY <3>1 DEF AcHoused, AcPcs, AcDressed, AcInPair
    <3>3. /\ acMain' \in AcMains /\ acMain'.pc = AcWaiting(arm) /\ acMain'.mode = acMain.mode
          /\ acMain'.treatment = acMain.treatment /\ acMain'.pair = acMain.pair
      BY <1>1, <2>6, <3>2, AcMoves
    <3>4. AcTypeOK'
      <4>1. AcArmTypes'
        BY <1>1, <2>3, <2>6 DEF AcArmTypes
      <4> QED
        BY <2>3, <2>6, <3>3, <4>1, AcTypeParts, AcTypeNext DEF AcInv
    <3>5. AcTidy'
      <4>1. /\ acMain'.pc \notin AcSetUp \cup {"returned"}
            /\ acMain.pc \in AcDressed /\ acMain'.pc \in AcDressed
        BY <2>2, <3>1, <3>2, <3>3 DEF AcSetUp, AcDressed, AcInPair
      <4> QED
        BY <2>2, <2>3, <2>6, <4>1 DEF AcInv, AcTidy
    <3>6. AcSupervised'
      <4>1. \A a \in AcArms : acAgent'[a] = "running" => a = arm
        BY <1>1, <2>2, <2>6 DEF AcQuiet, AcArmTypes
      <4>2. \A a \in AcArms : acWorker'[a] \in {"none", "done", "error"} \/ acBarrier'.state = "broken"
        BY <2>2, <2>3 DEF AcQuiet
      <4> QED
        BY <3>1, <3>3, <4>1, <4>2 DEF AcSupervised
    <3>7. AcLeft'
      BY <2>3, <3>1, <3>3 DEF AcInv, AcLeft
    <3>8. AcJudged'
      <4>1. /\ acMain'.pc \notin AcSetUp \cup {"overlay", "next", "report", "finally", "returned"}
            /\ acMain.pc \in AcInPair /\ acMain.pc \notin {"finally", "returned"}
        BY <2>1, <2>2, <3>1, <3>3 DEF AcSetUp, AcInPair
      <4>2. \A i \in DOMAIN acPairs' : acPairs'[i].valid =>
               ~acPairs'[i].killed /\ (acMain'.treatment = "deterministic" => acPairs'[i].matched)
        BY <2>3, <3>3 DEF AcInv, AcJudged
      <4>3. acReport'.files # 2 /\ (acMain'.mode # "dry" => Len(acPairs') = acMain'.pair - 1)
        BY <2>3, <3>3, <4>1 DEF AcInv, AcJudged
      <4> QED
        BY <4>1, <4>2, <4>3 DEF AcJudged
    <3> QED
      BY <3>4, <3>5, <3>6, <3>7, <3>8 DEF AcInv
  <2> QED
    BY <1>3, <2>4, <2>5, <2>6 DEF AcComplete
<1> QED
  BY <1>2, <1>3

LEMMA AcParseInv == ASSUME AcInv, AcParse PROVE AcInv'
<1>1. acMain.pc = "parse" /\ UNCHANGED <<acHomes, acArmVars, acKept>>
  BY DEF AcParse
<1>2. acMain \in AcMains /\ acTree \in [AcArms -> SUBSET AcContents] /\ acHomes \subseteq AcArms
  BY AcTypeParts DEF AcInv
<1>3. AcQuiet /\ acMain.pc \in AcInPair /\ acMain.pc \in AcDressed
  BY <1>1, AcQuietAt DEF AcInv, AcInPair, AcDressed
<1>4. CASE AcRaise
  BY <1>1, <1>2, <1>3, <1>4, AcRaiseInv DEF acKept
<1>5. ASSUME NEW fault \in {"none", "arm", "spool"},
             \/ acMain' = [acMain EXCEPT !.pc = "compare"]
             \/ acMain' = [acMain EXCEPT !.pc = "compare", !.fault = fault]
      PROVE  AcInv'
  <2>1. "compare" \in AcPcs /\ "compare" \in AcInPair /\ "compare" \notin AcHoused
        /\ "compare" \in AcDressed \ {"barrier", "join"}
    BY DEF AcPcs, AcDressed, AcInPair, AcHoused
  <2>2. /\ acMain' \in AcMains /\ acMain'.pc = "compare" /\ acMain'.mode = acMain.mode
        /\ acMain'.treatment = acMain.treatment /\ acMain'.pair = acMain.pair
    <3> HIDE DEF AcPcs
    <3> QED
      BY <1>2, <1>5, <2>1 DEF AcMains
  <2>3. acMain.mode # "dry" => Len(acPairs) = acMain.pair - 1
    BY <1>3 DEF AcInv, AcJudged
  <2> QED
    BY <1>1, <1>2, <1>3, <2>1, <2>2, <2>3, AcMainStep
<1> QED
  BY <1>4, <1>5 DEF AcParse, AcGo

LEMMA AcNextPairInv == ASSUME AcInv, AcNextPair PROVE AcInv'
<1>1. acMain.pc = "next" /\ UNCHANGED <<acHomes, acArmVars, acKept>>
  BY DEF AcNextPair
<1>2. acMain \in AcMains /\ acHomes \subseteq AcArms /\ acMain.pair \in 1..AcPairs
  BY AcTypeParts DEF AcInv, AcMains
<1>3. AcQuiet /\ acMain.pc \in AcDressed
  BY <1>1, AcQuietAt DEF AcInv, AcDressed
<1>4. /\ {"prepare", "report"} \subseteq AcPcs /\ {"prepare", "report"} \subseteq AcDressed
      /\ "prepare" \notin AcHoused /\ "report" \notin AcInPair /\ "report" \notin AcHoused
  BY DEF AcPcs, AcDressed, AcInPair, AcHoused
<1>5. acMain.mode # "dry" => Len(acPairs) = acMain.pair
  BY <1>1 DEF AcInv, AcJudged
<1>6. CASE acMain.pair < AcPairs /\ acMain' = [acMain EXCEPT !.pc = "prepare", !.pair = @ + 1]
  <2>1. /\ acMain' \in AcMains /\ acMain'.pc = "prepare" /\ acMain'.mode = acMain.mode
        /\ acMain'.treatment = acMain.treatment /\ acMain'.pair = acMain.pair + 1
    <3>1. acMain.pair + 1 \in 1..AcPairs
      BY <1>2, <1>6, AcConstants
    <3> HIDE DEF AcPcs
    <3> QED
      BY <1>2, <1>4, <1>6, <3>1 DEF AcMains
  <2>2. acMain.pair + 1 - 1 = acMain.pair
    BY <1>2
  <2> QED
    BY <1>1, <1>2, <1>3, <1>4, <1>5, <2>1, <2>2, AcMainStep
<1>7. CASE ~(acMain.pair < AcPairs) /\ acMain' = [acMain EXCEPT !.pc = "report"]
  <2>1. /\ acMain' \in AcMains /\ acMain'.pc = "report" /\ acMain'.mode = acMain.mode
        /\ acMain'.treatment = acMain.treatment
    BY <1>2, <1>4, <1>7, AcMoves DEF AcGo
  <2>2. acMain.pair = AcPairs
    BY <1>2, <1>7, AcConstants
  <2> QED
    BY <1>1, <1>2, <1>3, <1>4, <1>5, <2>1, <2>2, AcMainStep
<1> QED
  BY <1>6, <1>7 DEF AcNextPair

-----------------------------------------------------------------------------
(* What makes a pair valid: nothing was killed, and in a deterministic     *)
(* pair the completed commands are the captures.                           *)
LEMMA AcValidIsEarned ==
    ASSUME AcInv, AcPairValid
    PROVE  acKilled = {} /\ (acMain.treatment = "deterministic" => AcMatched)
<1>1. acKilled = {}
  <2>1. acKilled \subseteq AcArms
    BY DEF AcInv, AcTypeOK
  <2> QED
    BY <2>1 DEF AcPairValid, AcInv, AcLeft
<1>2. ASSUME acMain.treatment = "deterministic" PROVE AcMatched
  <2> DEFINE done == {k \in AcCommands : acCommand[k] = "completed"}
  <2>1. Cardinality(done) = AcExpected /\ Cardinality(acSpool.captures) = AcExpected
    <3>1. done = {k \in AcCommands : acCommand[k] \in {"completed"}}
      OBVIOUS
    <3>2. AcAttempts = AcExpected /\ AcCounted({"completed"}) = AcExpected
      BY <1>2 DEF AcPairValid, AcCompliant
    <3>3. Cardinality(acSpool.captures) = AcAttempts
      BY <1>2, "deterministic" # "opt-in" DEF AcPairValid, AcAccounted, AcSpoolCounts
    <3> QED
      BY <3>1, <3>2, <3>3 DEF AcCounted
  <2>2. done \subseteq acSpool.captures /\ acSpool.captures \subseteq AcCommands
    BY DEF AcInv, AcLeft, AcTypeOK
  <2>3. IsFiniteSet(acSpool.captures)
    <3>1. IsFiniteSet(AcCommands)
      BY AcConstants, FS_Interval DEF AcCommands
    <3> QED
      BY <2>2, <3>1, FS_Subset
  <2> HIDE DEF done
  <2>4. acSpool.captures = done
    BY <2>1, <2>2, <2>3, FS_Subset
  <2> QED
    BY <2>1, <2>4 DEF AcMatched, done
<1> QED
  BY <1>1, <1>2

LEMMA AcFailedIsInvalid == ASSUME AcCommissioningFailed PROVE ~AcPairValid
  BY DEF AcCommissioningFailed, AcPairValid, AcCompliant

LEMMA AcCompareInv == ASSUME AcInv, AcCompare PROVE AcInv'
<1> DEFINE valid == AcPairValid
           killed == acKilled # {}
           matched == AcMatched
           pair == [valid |-> valid, killed |-> killed, matched |-> matched]
           to == IF AcCommissioningFailed THEN "report" ELSE "next"
<1>1. /\ acMain.pc = "compare" /\ acPairs' = Append(acPairs, pair)
      /\ acMain' = [acMain EXCEPT !.fault = "none", !.pc = to]
  BY DEF AcCompare
<1>2. UNCHANGED <<acHomes, acBarrier, acWorker, acAgent, acResult, acCommand, acOrphans, acSpool,
                  acLock, acKilled, acTree, acReport>>
  BY DEF AcCompare, acArmVars
<1>3. acMain \in AcMains /\ acPairs \in Seq(AcVerdicts) /\ acMain.pair \in 1..AcPairs
  BY AcTypeParts DEF AcInv, AcMains
<1>4. valid \in BOOLEAN /\ killed \in BOOLEAN /\ matched \in BOOLEAN
  BY DEF AcPairValid, AcMatched
<1>5. (valid => ~killed /\ (acMain.treatment = "deterministic" => matched))
      /\ (AcCommissioningFailed => ~valid)
  BY AcValidIsEarned, AcFailedIsInvalid
<1>6. to \in {"report", "next"} /\ (to = "report" => AcCommissioningFailed)
  OBVIOUS
<1> HIDE DEF valid, killed, matched, to
<1>7. pair \in AcVerdicts /\ pair.valid = valid /\ pair.killed = killed /\ pair.matched = matched
  BY <1>4 DEF AcVerdicts
<1> HIDE DEF pair
<1>8. {"report", "next"} \subseteq AcPcs /\ {"report", "next"} \subseteq AcDressed
      /\ {"report", "next"} \cap (AcHoused \cup AcSetUp \cup AcInPair) = {}
      /\ acMain.pc \in AcDressed /\ acMain.pc \in AcInPair
  BY <1>1 DEF AcPcs, AcDressed, AcInPair, AcHoused, AcSetUp
<1>9. /\ acMain' \in AcMains /\ acMain'.pc = to /\ acMain'.mode = acMain.mode
      /\ acMain'.treatment = acMain.treatment /\ acMain'.pair = acMain.pair
  <2> HIDE DEF AcPcs
  <2> QED
    BY <1>1, <1>3, <1>6, <1>8 DEF AcMains
<1>10. AcTypeOK'
  <2>1. acPairs' \in Seq(AcVerdicts)
    BY <1>1, <1>3, <1>7
  <2>2. AcArmTypes'
    BY <1>2, AcTypeParts DEF AcInv, AcArmTypes
  <2> QED
    BY <1>2, <1>9, <2>1, <2>2, AcTypeParts, AcTypeNext DEF AcInv
<1>11. AcTidy'
  BY <1>2, <1>6, <1>8, <1>9 DEF AcInv, AcTidy
<1>12. AcSupervised'
  <2>1. AcQuiet
    BY <1>1, AcQuietAt DEF AcInv
  <2> QED
    BY <1>2, <1>6, <1>9, <2>1 DEF AcQuiet, AcSupervised
<1>13. AcLeft'
  BY <1>2, <1>6, <1>9 DEF AcInv, AcLeft
<1>14. AcJudged'
  <2>1. /\ Len(acPairs) \in Nat /\ Len(acPairs') = Len(acPairs) + 1
        /\ DOMAIN acPairs' = 1..Len(acPairs) + 1 /\ DOMAIN acPairs = 1..Len(acPairs)
        /\ \A i \in DOMAIN acPairs : acPairs'[i] = acPairs[i]
        /\ acPairs'[Len(acPairs) + 1] = pair
    BY <1>1, <1>3, <1>7
  <2>2. acMain.mode # "dry" => Len(acPairs) = acMain.pair - 1
    BY <1>8 DEF AcInv, AcJudged
  <2>3. acMain.mode # "dry" => Len(acPairs') = acMain'.pair
    BY <1>3, <1>9, <2>1, <2>2, AcConstants
  <2>4. to = "report" => ~AcAllValid'
    <3>1. Len(acPairs) + 1 \in DOMAIN acPairs'
      BY <2>1
    <3> QED
      BY <1>5, <1>6, <1>7, <2>1, <3>1 DEF AcAllValid
  <2>5. ASSUME NEW i \in DOMAIN acPairs', acPairs'[i].valid
        PROVE  ~acPairs'[i].killed /\ (acMain'.treatment = "deterministic" => acPairs'[i].matched)
    <3>1. CASE i \in DOMAIN acPairs
      BY <1>9, <2>1, <2>5, <3>1 DEF AcInv, AcJudged
    <3>2. CASE i \notin DOMAIN acPairs
      <4>1. i = Len(acPairs) + 1
        BY <2>1, <3>2
      <4> QED
        BY <1>5, <1>7, <1>9, <2>1, <2>5, <4>1
    <3> QED
      BY <3>1, <3>2
  <2>6. acReport'.files # 2
    BY <1>1, <1>2 DEF AcInv, AcJudged
  <2>7. acMain'.pc \notin AcSetUp \cup AcInPair \cup {"overlay", "finally", "returned"}
    BY <1>6, <1>8, <1>9
  <2> QED
    BY <1>6, <1>9, <2>3, <2>4, <2>5, <2>6, <2>7 DEF AcJudged
<1> QED
  BY <1>10, <1>11, <1>12, <1>13, <1>14 DEF AcInv

(* The verdict and the exit code agree.                                    *)
LEMMA AcReportInv == ASSUME AcInv, AcReport PROVE AcInv'
<1>1. acMain.pc = "report"
  BY DEF AcReport
<1>2. UNCHANGED <<acHomes, acBarrier, acWorker, acAgent, acResult, acCommand, acOrphans, acSpool,
                  acLock, acKilled, acTree, acPairs>>
  BY DEF AcReport, acArmVars
<1>3. acMain \in AcMains /\ acPairs \in Seq(AcVerdicts) /\ AcArmTypes /\ acHomes \subseteq AcArms
      /\ acTree \in [AcArms -> SUBSET AcContents]
  BY AcTypeParts DEF AcInv
<1>4. AcArmTypes'
  BY <1>2, <1>3 DEF AcArmTypes
<1>5. AcQuiet'
  <2>1. AcQuiet
    BY <1>1, AcQuietAt DEF AcInv
  <2> QED
    BY <1>2, <2>1 DEF AcQuiet
<1>6. ASSUME acMain'.pc = "finally" PROVE AcLeft'
  BY <1>2, <1>6 DEF AcInv, AcLeft
<1>7. CASE AcRaise /\ acReport' \in {AcNoReport, [AcNoReport EXCEPT !.files = 1]}
  BY <1>1, <1>2, <1>3, <1>4, <1>5, <1>6, <1>7, AcMoves, AcRaisedStep
<1>8. CASE /\ acReport' = AcVerdict
           /\ acMain' = [acMain EXCEPT !.pc = "finally", !.exit =
                             IF acMain.mode # "dry" /\ ~AcAllValid THEN 1 ELSE 0]
  <2> DEFINE valid == acPairs # <<>> /\ AcAllValid
             said == IF Len(acPairs) = 1 THEN "informational" ELSE IF valid THEN "pass" ELSE "fail"
             code == IF acMain.mode # "dry" /\ ~AcAllValid THEN 1 ELSE 0
  <2>1. valid \in BOOLEAN /\ said \in {"none", "informational", "pass", "fail"} /\ code \in 0..2
        /\ (acMain.mode # "dry" => (code = 0 <=> AcAllValid))
    BY DEF AcAllValid
  <2>2. acReport' = [files |-> 2, commissioning |-> valid, result |-> said]
        /\ acMain' = [acMain EXCEPT !.pc = "finally", !.exit = code]
    BY <1>8 DEF AcVerdict
  <2>3. acMain.mode # "dry" => (valid <=> AcAllValid) /\ (AcAllValid => Len(acPairs) = AcPairs)
    <3>1. acMain.mode # "dry" => Len(acPairs) = AcPairs \/ ~AcAllValid
      BY <1>1 DEF AcInv, AcJudged
    <3>2. Len(acPairs) = AcPairs => acPairs # <<>>
      BY <1>3, AcConstants
    <3> QED
      BY <3>1, <3>2
  <2> HIDE DEF valid, said, code
  <2>4. /\ acReport' \in [files : 0..2, commissioning : BOOLEAN,
                          result : {"none", "informational", "pass", "fail"}]
        /\ acReport'.commissioning = valid
    BY <2>1, <2>2
  <2>5. /\ acMain' \in AcMains /\ acMain'.pc = "finally" /\ acMain'.exit = code
        /\ acMain'.mode = acMain.mode /\ acMain'.treatment = acMain.treatment
    <3>1. "finally" \in AcPcs
      BY DEF AcPcs
    <3> HIDE DEF AcPcs
    <3> QED
      BY <1>3, <2>1, <2>2, <3>1 DEF AcMains
  <2>6. AcTypeOK'
    BY <1>2, <1>3, <1>4, <2>4, <2>5, AcTypeNext
  <2>7. AcTidy'
    BY <2>5 DEF AcTidy, AcSetUp, AcHoused, AcDressed, AcInPair
  <2>8. AcSupervised'
    BY <1>5, <2>5 DEF AcSupervised, AcQuiet
  <2>9. AcJudged'
    <3>1. acMain'.pc \notin AcSetUp \cup AcInPair \cup {"overlay", "next", "report"}
      BY <2>5 DEF AcSetUp, AcHoused, AcInPair
    <3>2. \A i \in DOMAIN acPairs' : acPairs'[i].valid =>
             ~acPairs'[i].killed /\ (acMain'.treatment = "deterministic" => acPairs'[i].matched)
      BY <1>2, <2>5 DEF AcInv, AcJudged
    <3>3. AcAllValid' <=> AcAllValid
      BY <1>2 DEF AcAllValid
    <3> QED
      BY <1>2, <2>1, <2>3, <2>4, <2>5, <3>1, <3>2, <3>3 DEF AcJudged
  <2> QED
    BY <1>6, <2>5, <2>6, <2>7, <2>8, <2>9 DEF AcInv
<1> QED
  BY <1>7, <1>8 DEF AcReport

LEMMA AcFinallyInv == ASSUME AcInv, AcFinally PROVE AcInv'
<1>1. acMain.pc = "finally" /\ acHomes' = {} /\ acTree' = [a \in AcArms |-> {}]
      /\ AcGo("returned")
  BY DEF AcFinally
<1>2. UNCHANGED <<acBarrier, acWorker, acAgent, acResult, acCommand, acOrphans, acSpool,
                  acLock, acKilled, acReport, acPairs>>
  BY DEF AcFinally, acArmVars
<1>3. /\ acMain' \in AcMains /\ acMain'.pc = "returned" /\ acMain'.mode = acMain.mode
      /\ acMain'.treatment = acMain.treatment
  BY <1>1, AcMoves, AcTypeParts DEF AcInv, AcPcs
<1>4. acMain'.exit = acMain.exit
  BY <1>1, AcTypeParts DEF AcInv, AcGo, AcMains
<1>5. AcTypeOK'
  <2>1. AcArmTypes'
    BY <1>2, AcTypeParts DEF AcInv, AcArmTypes
  <2>2. acTree' \in [AcArms -> SUBSET AcContents]
    BY <1>1
  <2> QED
    BY <1>1, <1>2, <1>3, <2>1, <2>2, AcTypeParts, AcTypeNext DEF AcInv
<1>6. AcTidy'
  BY <1>1, <1>3 DEF AcTidy, AcHoused, AcDressed, AcInPair
<1>7. AcSupervised'
  <2>1. AcQuiet
    BY <1>1, AcQuietAt DEF AcInv
  <2> QED
    BY <1>2, <1>3, <2>1 DEF AcQuiet, AcSupervised
<1>8. AcLeft'
  BY <1>2, <1>3 DEF AcInv, AcLeft
<1>9. AcJudged'
  <2>1. acMain'.pc \notin AcSetUp \cup AcInPair \cup {"overlay", "next", "report"}
    BY <1>3 DEF AcSetUp, AcHoused, AcInPair
  <2>2. \A i \in DOMAIN acPairs' : acPairs'[i].valid =>
           ~acPairs'[i].killed /\ (acMain'.treatment = "deterministic" => acPairs'[i].matched)
    BY <1>2, <1>3 DEF AcInv, AcJudged
  <2>3. AcAllValid' <=> AcAllValid
    BY <1>2 DEF AcAllValid
  <2>4. acMain.mode # "dry" =>
           /\ acMain.exit = 0 => Len(acPairs) = AcPairs /\ AcAllValid
           /\ acReport.files = 2 => (acReport.commissioning <=> acMain.exit = 0)
    BY <1>1 DEF AcInv, AcJudged
  <2> QED
    BY <1>2, <1>3, <1>4, <2>1, <2>2, <2>3, <2>4 DEF AcJudged
<1> QED
  BY <1>5, <1>6, <1>7, <1>8, <1>9 DEF AcInv

-----------------------------------------------------------------------------
(* The worktrees: what main goes on with is dressed and not contaminated.  *)
LEMMA AcTreesInv == ASSUME AcInv, AcWorktrees \/ AcDress PROVE AcInv'
<1>1. acMain.pc \in {"worktrees", "overlay"} /\ UNCHANGED <<acHomes, acArmVars, acReport, acPairs>>
  BY DEF AcWorktrees, AcDress
<1>2. UNCHANGED <<acHomes, acBarrier, acWorker, acAgent, acResult, acCommand, acOrphans, acSpool,
                  acLock, acKilled, acReport, acPairs>>
  BY <1>1 DEF acArmVars
<1>3. acMain \in AcMains /\ acHomes \subseteq AcArms /\ AcArmTypes
      /\ acTree \in [AcArms -> SUBSET AcContents]
  BY AcTypeParts DEF AcInv
<1>4. AcQuiet /\ acPairs = <<>> /\ acMain.pair = 1 /\ acReport.files # 2
  BY <1>1, AcQuietAt DEF AcInv, AcJudged, AcSetUp
<1>5. ASSUME NEW a \in AcArms
      PROVE  /\ AcOverlay(a) \subseteq AcContents
             /\ {"identity", AcGuard(a)} \subseteq AcOverlay(a)
  BY <1>3 DEF AcOverlay, AcGuarded, AcTreatmentGuidance, AcIdentityGuidance, AcGuard, AcContents
<1>6. acTree' \in [AcArms -> SUBSET AcContents]
  <2>1. CASE AcWorktrees
    BY <2>1 DEF AcWorktrees, AcCheckout, AcContents
  <2>2. CASE AcDress
    BY <1>3, <1>5, <2>2 DEF AcDress
  <2> QED
    BY <2>1, <2>2
<1>7. CASE AcRaise
  BY <1>1, <1>3, <1>4, <1>6, <1>7, AcRaiseInv
<1>8. ASSUME NEW pc \in {"overlay", "prepare"}, AcGo(pc),
             pc = "prepare" => /\ \A a \in AcArms : {"identity", AcGuard(a)} \subseteq acTree'[a]
                               /\ ~AcContaminated(acTree'["B"])
      PROVE  AcInv'
  <2>1. pc \in AcPcs /\ pc \notin AcSetUp \cup AcHoused \cup {"barrier", "join", "next", "report"}
        /\ (pc = "overlay" => pc \notin AcDressed)
    BY DEF AcPcs, AcDressed, AcInPair, AcHoused, AcSetUp
  <2>2. /\ acMain' \in AcMains /\ acMain'.pc = pc /\ acMain'.mode = acMain.mode
        /\ acMain'.treatment = acMain.treatment /\ acMain'.pair = 1
    BY <1>3, <1>4, <1>8, <2>1, AcMoves
  <2>3. AcArmTypes'
    BY <1>2, <1>3 DEF AcArmTypes
  <2>4. AcTypeOK'
    BY <1>2, <1>6, <2>2, <2>3, AcTypeParts, AcTypeNext DEF AcInv
  <2>5. AcTidy'
    BY <1>8, <2>1, <2>2 DEF AcTidy
  <2>6. AcSupervised'
    BY <1>2, <1>4, <2>1, <2>2 DEF AcQuiet, AcSupervised
  <2>7. AcLeft'
    BY <1>2, <2>2 DEF AcInv, AcLeft
  <2>8. AcJudged'
    <3>1. DOMAIN acPairs = {} /\ Len(acPairs) = 0
      BY <1>4
    <3>2. acMain'.pc \notin {"next", "report", "finally", "returned"}
      BY <2>2
    <3> QED
      BY <1>2, <1>4, <2>2, <3>1, <3>2 DEF AcJudged
  <2> QED
    BY <2>4, <2>5, <2>6, <2>7, <2>8 DEF AcInv
<1>9. CASE AcWorktrees
  BY <1>7, <1>8, <1>9 DEF AcWorktrees
<1>10. CASE AcDress
  BY <1>5, <1>7, <1>8, <1>10 DEF AcDress
<1> QED
  BY <1>9, <1>10

(* A new pair starts with nothing of the last one.                         *)
LEMMA AcPrepareInv == ASSUME AcInv, AcPrepare PROVE AcInv'
<1>1. acMain.pc = "prepare" /\ UNCHANGED <<acHomes, acTree, acReport, acPairs>>
  BY DEF AcPrepare, acKept
<1>2. AcArmTypes'
  BY AcConstants DEF AcPrepare, AcFresh, AcArmTypes, AcNoResult, AcParties, AcCommands
<1>3. AcQuiet'
  BY DEF AcPrepare, AcFresh, AcQuiet
<1>4. AcLeft'
  BY DEF AcPrepare, AcFresh, AcLeft
<1>5. acMain \in AcMains /\ acHomes \subseteq AcArms /\ acTree \in [AcArms -> SUBSET AcContents]
  BY AcTypeParts DEF AcInv
<1>6. CASE AcRaise
  BY <1>1, <1>2, <1>3, <1>4, <1>5, <1>6, AcRaisedStep
<1>7. CASE AcGo("homes")
  <2>1. /\ "homes" \in AcPcs /\ "homes" \notin AcSetUp \cup AcHoused
        /\ "homes" \in AcDressed /\ "prepare" \in AcDressed
        /\ "homes" \in AcInPair /\ "prepare" \in AcInPair
    BY DEF AcPcs, AcDressed, AcInPair, AcHoused, AcSetUp
  <2>2. /\ acMain' \in AcMains /\ acMain'.pc = "homes" /\ acMain'.mode = acMain.mode
        /\ acMain'.treatment = acMain.treatment /\ acMain'.pair = acMain.pair
    BY <1>5, <1>7, <2>1, AcMoves
  <2>3. AcTypeOK'
    BY <1>1, <1>2, <2>2, AcTypeParts, AcTypeNext DEF AcInv
  <2>4. AcTidy'
    BY <1>1, <2>1, <2>2 DEF AcInv, AcTidy
  <2>5. AcSupervised'
    BY <1>3, <2>2 DEF AcQuiet, AcSupervised
  <2>6. AcJudged'
    <3>1. \A i \in DOMAIN acPairs' : acPairs'[i].valid =>
             ~acPairs'[i].killed /\ (acMain'.treatment = "deterministic" => acPairs'[i].matched)
      BY <1>1, <2>2 DEF AcInv, AcJudged
    <3>2. acReport'.files # 2 /\ (acMain'.mode # "dry" => Len(acPairs') = acMain'.pair - 1)
      BY <1>1, <2>1, <2>2 DEF AcInv, AcJudged
    <3> QED
      BY <2>1, <2>2, <3>1, <3>2 DEF AcJudged
  <2> QED
    BY <1>4, <2>3, <2>4, <2>5, <2>6 DEF AcInv
<1> QED
  BY <1>6, <1>7 DEF AcPrepare

(* Steps of main between the start of the threads and their join.          *)
LEMMA AcBarrierStep ==
    ASSUME AcInv, acMain.pc \in {"start", "barrier"}, NEW pc \in {"barrier", "join", "broken"},
           AcGo(pc) \/ (pc = "barrier" /\ acMain.pc = "barrier" /\ UNCHANGED acMain),
           UNCHANGED <<acHomes, acAgent, acResult, acCommand, acOrphans, acSpool, acLock,
                       acKilled, acTree, acReport, acPairs>>,
           AcArmTypes', AcSupervised',
           \A a \in acKilled : acWorker'[a] = "done"
    PROVE  AcInv'
<1>1. /\ pc \in AcPcs /\ pc \notin AcSetUp /\ pc \in AcHoused /\ acMain.pc \in AcHoused
      /\ pc \in AcDressed /\ acMain.pc \in AcDressed
      /\ pc \in AcInPair /\ acMain.pc \in AcInPair
  BY DEF AcPcs, AcDressed, AcInPair, AcHoused, AcSetUp
<1>2. /\ acMain' \in AcMains /\ acMain'.pc = pc /\ acMain'.mode = acMain.mode
      /\ acMain'.treatment = acMain.treatment /\ acMain'.pair = acMain.pair
  <2>1. acMain \in AcMains
    BY AcTypeParts DEF AcInv
  <2> QED
    BY <1>1, <2>1, AcMoves
<1>3. AcTypeOK'
  BY <1>2, AcTypeParts, AcTypeNext DEF AcInv
<1>4. AcTidy'
  BY <1>1, <1>2 DEF AcInv, AcTidy
<1>5. AcLeft'
  BY <1>2 DEF AcInv, AcLeft
<1>6. AcJudged'
  <2>1. \A i \in DOMAIN acPairs' : acPairs'[i].valid =>
           ~acPairs'[i].killed /\ (acMain'.treatment = "deterministic" => acPairs'[i].matched)
    BY <1>2 DEF AcInv, AcJudged
  <2>2. acReport'.files # 2 /\ (acMain'.mode # "dry" => Len(acPairs') = acMain'.pair - 1)
    BY <1>1, <1>2 DEF AcInv, AcJudged
  <2> QED
    BY <1>1, <1>2, <2>1, <2>2 DEF AcJudged
<1> QED
  BY <1>3, <1>4, <1>5, <1>6 DEF AcInv

LEMMA AcBarrierInv == ASSUME AcInv, AcStartThreads \/ AcMainArrives PROVE AcInv'
<1>1. AcArmTypes /\ AcSupervised /\ acMain \in AcMains /\ AcLeft
  BY AcTypeParts DEF AcInv
<1>2. CASE AcStartThreads
  <2>1. /\ acMain.pc = "start" /\ AcGo("barrier") /\ acWorker' = [a \in AcArms |-> "ready"]
        /\ UNCHANGED <<acHomes, acBarrier, acAgent, acResult, acCommand, acOrphans, acSpool, acLock,
                       acKilled, acTree, acReport, acPairs>>
    BY <1>2 DEF AcStartThreads, acKept
  <2>2. AcArmTypes'
    BY <1>1, <2>1 DEF AcArmTypes
  <2>3. AcSupervised'
    <3>1. AcQuiet
      BY <1>1, <2>1, AcQuietAt
    <3>2. acMain'.pc = "barrier"
      BY <1>1, <2>1, AcMoves DEF AcPcs, AcDressed, AcInPair, AcHoused
    <3> QED
      BY <2>1, <3>1, <3>2 DEF AcQuiet, AcSupervised
  <2>4. acKilled = {}
    BY <1>1, <2>1 DEF AcLeft
  <2> QED
    BY <2>1, <2>2, <2>3, <2>4, AcBarrierStep
<1>3. CASE AcMainArrives
  <2>1. /\ acMain.pc = "barrier"
        /\ UNCHANGED <<acHomes, acWorker, acAgent, acResult, acCommand, acOrphans, acSpool, acLock,
                       acKilled, acTree, acReport, acPairs>>
    BY <1>3 DEF AcMainArrives, acKept
  <2>2. \A a \in acKilled : acWorker'[a] = "done"
    BY <1>1, <2>1 DEF AcLeft
  <2>3. \A a \in AcArms : /\ acAgent[a] = "running" => acWorker[a] = "launched"
                          /\ acWorker[a] = "launched" => acBarrier.state = "tripped"
    BY <1>1, <2>1 DEF AcSupervised
  <2>4. CASE AcArrive("main") /\ UNCHANGED acMain
    <3>1. AcArmTypes'
      BY <1>1, <2>1, <2>4 DEF AcArrive, AcArmTypes, AcParties
    <3>2. \A a \in AcArms : acWorker[a] # "launched" /\ acAgent[a] # "running"
      BY <2>3, <2>4 DEF AcArrive
    <3>3. AcSupervised'
      BY <2>1, <2>4, <3>2 DEF AcSupervised
    <3> QED
      BY <2>1, <2>2, <2>4, <3>1, <3>3, AcBarrierStep
  <2>5. CASE acBarrier.state = "tripped" /\ AcGo("join") /\ UNCHANGED acBarrier
    <3>1. acMain'.pc = "join"
      BY <1>1, <2>5, AcMoves DEF AcPcs, AcDressed, AcInPair, AcHoused
    <3>2. AcArmTypes' /\ AcSupervised'
      BY <1>1, <2>1, <2>3, <2>5, <3>1 DEF AcArmTypes, AcSupervised
    <3> QED
      BY <2>1, <2>2, <2>5, <3>2, AcBarrierStep
  <2>6. CASE acBarrier.state = "broken" /\ AcGo("broken") /\ UNCHANGED acBarrier
    <3>1. acMain'.pc = "broken"
      BY <1>1, <2>6, AcMoves DEF AcPcs, AcDressed, AcInPair, AcHoused
    <3>2. \A a \in AcArms : acAgent[a] # "running"
      BY <2>3, <2>6
    <3>3. AcArmTypes' /\ AcSupervised'
      BY <1>1, <2>1, <2>6, <3>1, <3>2 DEF AcArmTypes, AcSupervised
    <3> QED
      BY <2>1, <2>2, <2>6, <3>3, AcBarrierStep
  <2> QED
    BY <1>3, <2>4, <2>5, <2>6 DEF AcMainArrives
<1> QED
  BY <1>2, <1>3

-----------------------------------------------------------------------------
(* What the arms do leaves main's side of the invariant alone.             *)
LEMMA AcArmStep ==
    ASSUME AcInv, UNCHANGED <<acMain, acHomes, acKept>>, AcArmTypes', AcSupervised', AcLeft'
    PROVE  AcInv'
<1>1. UNCHANGED <<acMain, acHomes, acTree, acReport, acPairs>>
  BY DEF acKept
<1>2. AcTypeOK'
  BY <1>1, AcTypeParts, AcTypeNext DEF AcInv
<1>3. AcTidy' /\ AcJudged'
  BY <1>1 DEF AcInv, AcTidy, AcJudged, AcAllValid
<1> QED
  BY <1>2, <1>3 DEF AcInv

LEMMA AcThreadInv ==
    ASSUME AcInv,
           AcBarrierTimeout \/ \E arm \in AcArms : AcWorkerArrives(arm) \/ AcWorkerLaunches(arm)
    PROVE  AcInv'
<1>1. AcArmTypes /\ AcSupervised /\ AcLeft
  BY AcTypeParts DEF AcInv
<1>2. CASE AcBarrierTimeout
  <2>1. /\ acBarrier.state = "open" /\ acBarrier' = [acBarrier EXCEPT !.state = "broken"]
        /\ UNCHANGED <<acMain, acHomes, acWorker, acAgent, acResult, acCommand,
                       acOrphans, acSpool, acLock, acKilled, acKept>>
    BY <1>2 DEF AcBarrierTimeout
  <2>2. AcArmTypes' /\ acBarrier'.state = "broken"
    BY <1>1, <2>1 DEF AcArmTypes
  <2>3. AcSupervised'
    BY <1>1, <2>1, <2>2 DEF AcSupervised
  <2>4. AcLeft'
    BY <1>1, <2>1 DEF AcLeft
  <2> QED
    BY <2>1, <2>2, <2>3, <2>4, AcArmStep
<1>3. ASSUME NEW arm \in AcArms, AcWorkerArrives(arm) PROVE AcInv'
  <2>1. PICK to \in {"waiting", "error"} :
           /\ acWorker[arm] \in {"ready", "waiting"}
           /\ acWorker' = [acWorker EXCEPT ![arm] = to]
           /\ AcArrive(arm) \/ (to = "error" /\ UNCHANGED acBarrier)
    BY <1>3 DEF AcWorkerArrives
  <2>2. UNCHANGED <<acMain, acHomes, acAgent, acResult, acCommand, acOrphans,
                    acSpool, acLock, acKilled, acKept>>
    BY <1>3 DEF AcWorkerArrives
  <2>3. AcArmTypes'
    <3>1. acBarrier' \in [in : SUBSET AcParties, state : {"open", "tripped", "broken"}]
      BY <1>1, <2>1 DEF AcArrive, AcArmTypes, AcParties
    <3> QED
      BY <1>1, <2>1, <2>2, <3>1 DEF AcArmTypes
  <2>4. /\ acWorker'[arm] = to /\ \A a \in AcArms : a # arm => acWorker'[a] = acWorker[a]
    BY <1>1, <2>1 DEF AcArmTypes
  <2>5. AcSupervised'
    <3>1. CASE AcArrive(arm)
      <4>1. acMain.pc \in {"barrier", "join"}
        BY <1>1, <2>1, <3>1 DEF AcArrive, AcSupervised
      <4>2. \A a \in AcArms : acWorker[a] # "launched" /\ acAgent[a] # "running"
        BY <1>1, <3>1, <4>1 DEF AcArrive, AcSupervised
      <4> QED
        BY <2>2, <2>4, <4>1, <4>2 DEF AcSupervised
    <3>2. CASE to = "error" /\ UNCHANGED acBarrier
      BY <1>1, <2>1, <2>2, <2>4, <3>2 DEF AcSupervised
    <3> QED
      BY <2>1, <3>1, <3>2
  <2>6. AcLeft'
    BY <1>1, <2>1, <2>2, <2>4 DEF AcLeft, AcArmTypes
  <2> QED
    BY <2>2, <2>3, <2>5, <2>6, AcArmStep
<1>4. ASSUME NEW arm \in AcArms, AcWorkerLaunches(arm) PROVE AcInv'
  <2>1. /\ acWorker[arm] = "waiting" /\ acBarrier.state = "tripped"
        /\ UNCHANGED <<acMain, acHomes, acBarrier, acResult, acCommand, acOrphans,
                       acSpool, acLock, acKilled, acKept>>
    BY <1>4 DEF AcWorkerLaunches
  <2>2. acMain.pc \in {"barrier", "join"}
    BY <1>1, <2>1 DEF AcSupervised
  <2>3. PICK to \in {"launched", "error"} :
           /\ acWorker' = [acWorker EXCEPT ![arm] = to]
           /\ \/ to = "launched" /\ acAgent' = [acAgent EXCEPT ![arm] = "running"]
              \/ UNCHANGED acAgent
    BY <1>4 DEF AcWorkerLaunches
  <2>4. AcArmTypes'
    BY <1>1, <2>1, <2>3 DEF AcArmTypes
  <2>5. /\ acWorker'[arm] = to /\ \A a \in AcArms : a # arm => acWorker'[a] = acWorker[a]
        /\ \A a \in AcArms : a # arm => acAgent'[a] = acAgent[a]
        /\ acAgent'[arm] = "running" => to = "launched"
    <3>1. acAgent[arm] # "running"
      BY <1>1, <2>1, <2>2 DEF AcSupervised
    <3> QED
      BY <1>1, <2>3, <3>1 DEF AcArmTypes
  <2>6. AcSupervised'
    BY <1>1, <2>1, <2>2, <2>5 DEF AcSupervised
  <2>7. AcLeft'
    BY <1>1, <2>1, <2>5, SMTT(30) DEF AcLeft, AcArmTypes
  <2> QED
    BY <2>1, <2>4, <2>6, <2>7, AcArmStep
<1> QED
  BY <1>2, <1>3, <1>4

(* A step of one command.                                                  *)
LEMMA AcCommandStep ==
    ASSUME AcInv, NEW k \in AcCommands,
           NEW to \in {"idle", "waiting", "running", "captured", "completed", "failed", "lost"},
           AcMove(k, to), AcCommandUnchanged, acOrphans' \subseteq AcCommands, acLock' \in 0..AcSlots,
           acSpool' \in [captures : SUBSET AcCommands, partial : SUBSET AcCommands],
           acSpool.captures \subseteq acSpool'.captures,
           to \in {"captured", "completed"} => k \in acSpool'.captures
    PROVE  AcInv'
<1>1. UNCHANGED <<acMain, acHomes, acBarrier, acWorker, acAgent, acResult, acKilled, acKept>>
  BY DEF AcCommandUnchanged
<1>2. AcArmTypes /\ AcSupervised /\ AcLeft
  BY AcTypeParts DEF AcInv
<1>3. /\ acCommand' \in [AcCommands -> {"idle", "waiting", "running", "captured",
                                        "completed", "failed", "lost"}]
      /\ \A j \in AcCommands : acCommand'[j] = IF j = k THEN to ELSE acCommand[j]
  BY <1>2 DEF AcMove, AcArmTypes
<1>4. AcArmTypes'
  BY <1>1, <1>2, <1>3 DEF AcArmTypes
<1>5. AcSupervised'
  BY <1>1, <1>2 DEF AcSupervised
<1>6. AcLeft'
  BY <1>1, <1>2, <1>3 DEF AcLeft
<1> QED
  BY <1>1, <1>4, <1>5, <1>6, AcArmStep

LEMMA AcCommandInv ==
    ASSUME AcInv, NEW k \in AcCommands, AcIssue(k) \/ AcAcquire(k) \/ AcCapture(k) \/ AcAnswer(k)
    PROVE  AcInv'
<1>1. /\ acOrphans \subseteq AcCommands /\ acLock \in 0..AcSlots
      /\ acSpool \in [captures : SUBSET AcCommands, partial : SUBSET AcCommands]
      /\ acCommand[k] \in {"captured", "completed"} => k \in acSpool.captures
  BY AcTypeParts DEF AcInv, AcArmTypes, AcLeft
<1>2. AcCommandUnchanged
  BY DEF AcIssue, AcAcquire, AcCapture, AcAnswer
<1>3. k \in 0..AcSlots /\ 0 \in 0..AcSlots
  BY AcConstants DEF AcCommands
<1>4. ASSUME NEW outcome \in {"completed", "failed"}, AcEndCommand(k, outcome), UNCHANGED acSpool,
             outcome = "completed" => acCommand[k] = "captured"
      PROVE  AcInv'
  <2>1. PICK to \in {"completed", "failed", "lost"} :
            AcMove(k, to) /\ (to = "completed" => acCommand[k] = "captured")
    BY <1>4 DEF AcEndCommand
  <2>2. acOrphans' \subseteq AcCommands /\ acLock' \in 0..AcSlots
    BY <1>1, <1>3, <1>4 DEF AcEndCommand, AcDrop
  <2> QED
    BY <1>1, <1>2, <1>4, <2>1, <2>2, AcCommandStep
<1>5. CASE AcIssue(k)
  <2>1. AcMove(k, "waiting") /\ UNCHANGED <<acOrphans, acSpool, acLock>>
    BY <1>5 DEF AcIssue
  <2> QED
    BY <1>1, <1>2, <2>1, AcCommandStep
<1>6. CASE AcAcquire(k)
  <2>1. CASE /\ acLock' = k /\ AcMove(k, "running") /\ UNCHANGED acOrphans
             /\ acSpool' = [acSpool EXCEPT !.partial = @ \cup {k}]
    <3>1. acSpool' \in [captures : SUBSET AcCommands, partial : SUBSET AcCommands]
          /\ acSpool'.captures = acSpool.captures
      BY <1>1, <2>1
    <3> QED
      BY <1>1, <1>2, <1>3, <2>1, <3>1, AcCommandStep
  <2> QED
    BY <1>4, <1>6, <2>1 DEF AcAcquire
<1>7. CASE AcCapture(k)
  <2>1. CASE /\ AcMove(k, "captured") /\ UNCHANGED <<acOrphans, acLock>>
             /\ acSpool' = [captures |-> acSpool.captures \cup {k},
                           partial |-> acSpool.partial \ {k}]
    <3>1. acSpool' \in [captures : SUBSET AcCommands, partial : SUBSET AcCommands]
          /\ acSpool'.captures = acSpool.captures \cup {k}
      BY <1>1, <2>1
    <3> QED
      BY <1>1, <1>2, <1>3, <2>1, <3>1, AcCommandStep
  <2> QED
    BY <1>4, <1>7, <2>1 DEF AcCapture
<1>8. CASE AcAnswer(k)
  BY <1>4, <1>8 DEF AcAnswer
<1> QED
  BY <1>5, <1>6, <1>7, <1>8

(* An agent ends: by itself, or terminated, which its result remembers     *)
(* even when it is resumed.                                                *)
LEMMA AcEndInv ==
    ASSUME AcInv, NEW arm \in AcArms, AcExit(arm) \/ AcTimeout(arm) PROVE AcInv'
<1> DEFINE Results == [timed : BOOLEAN, direct : 0..AcExpected, tails : 0..1]
<1>1. AcArmTypes /\ AcSupervised /\ AcLeft
  BY AcTypeParts DEF AcInv
<1>2. PICK new \in Results :
         /\ AcConclude(arm, new)
         /\ AcTimeout(arm) => new.timed
  <2>1. acResult[arm].direct \in 0..AcExpected /\ 0 \in 0..AcExpected /\ AcExpected \in 0..AcExpected
    BY <1>1, AcConstants DEF AcArmTypes
  <2>2. CASE AcTimeout(arm)
    <3>1. PICK tails \in 0..1 :
             AcConclude(arm, [timed |-> TRUE, direct |-> acResult[arm].direct, tails |-> tails])
      BY <2>2 DEF AcTimeout
    <3> DEFINE r == [timed |-> TRUE, direct |-> acResult[arm].direct, tails |-> tails]
    <3>2. r \in Results /\ r.timed
      BY <2>1
    <3> HIDE DEF r, Results
    <3>3. AcConclude(arm, r)
      BY <3>1 DEF r
    <3> QED
      BY <3>2, <3>3
  <2>3. CASE ~AcTimeout(arm)
    <3>1. PICK direct \in {0, AcExpected}, tails \in 0..1 :
             AcConclude(arm, [timed |-> FALSE, direct |-> direct, tails |-> tails])
      BY <2>3 DEF AcExit
    <3> QED
      BY <2>1, <2>3, <3>1
  <2> QED
    BY <2>2, <2>3
<1>3. /\ acAgent[arm] = "running" /\ acAgent' = [acAgent EXCEPT ![arm] = "ended"]
      /\ acResult' = [acResult EXCEPT ![arm] =
                          IF acWorker[arm] = "done" THEN AcMerged(@, new) ELSE new]
      /\ acWorker' = [acWorker EXCEPT ![arm] = "done"]
  BY <1>2 DEF AcConclude
<1>4. /\ acResult' \in [AcArms -> Results]
      /\ acResult'[arm].timed <=> new.timed \/ (acWorker[arm] = "done" /\ acResult[arm].timed)
      /\ \A a \in AcArms : a # arm => acResult'[a] = acResult[a]
  <2> DEFINE merged == IF acWorker[arm] = "done" THEN AcMerged(acResult[arm], new) ELSE new
  <2>1. acResult[arm] \in Results
    BY <1>1 DEF AcArmTypes
  <2>2. AcMerged(acResult[arm], new) \in Results
        /\ (AcMerged(acResult[arm], new).timed <=> acResult[arm].timed \/ new.timed)
    BY <1>2, <2>1 DEF AcMerged
  <2>3. merged \in Results
        /\ (merged.timed <=> new.timed \/ (acWorker[arm] = "done" /\ acResult[arm].timed))
    BY <2>2
  <2>4. acResult' = [acResult EXCEPT ![arm] = merged]
    BY <1>3
  <2> HIDE DEF merged, Results
  <2>5. acResult \in [AcArms -> Results]
    BY <1>1 DEF AcArmTypes, Results
  <2> QED
    BY <2>3, <2>4, <2>5
<1>5. /\ acAgent' \in [AcArms -> {"none", "running", "ended"}]
      /\ acWorker' \in [AcArms -> {"none", "ready", "waiting", "launched", "done", "error"}]
      /\ acAgent'[arm] = "ended" /\ acWorker'[arm] = "done"
      /\ \A a \in AcArms : a # arm => acAgent'[a] = acAgent[a] /\ acWorker'[a] = acWorker[a]
  BY <1>1, <1>3 DEF AcArmTypes
<1>6. UNCHANGED <<acMain, acHomes, acBarrier, acSpool, acKept>>
  BY DEF AcExit, AcTimeout
<1>7. AcSupervised'
  BY <1>1, <1>5, <1>6 DEF AcSupervised
<1>8. acMain.pc \notin {"homes", "hooks", "identity", "start"}
  BY <1>1, <1>3 DEF AcSupervised, AcWaiting
<1>9. CASE ~AcTimeout(arm)
  <2>1. UNCHANGED <<acCommand, acOrphans, acLock, acKilled>>
    BY <1>9 DEF AcExit
  <2>2. AcArmTypes'
    BY <1>1, <1>4, <1>5, <1>6, <2>1 DEF AcArmTypes
  <2>3. AcLeft'
    <3>1. acKilled \subseteq AcArms
      BY <1>1 DEF AcArmTypes
    <3> QED
      BY <1>1, <1>4, <1>5, <1>6, <1>8, <2>1, <3>1 DEF AcLeft
  <2> QED
    BY <1>6, <1>7, <2>2, <2>3, AcArmStep
<1>10. CASE AcTimeout(arm)
  <2>1. PICK kept \in SUBSET AcInFlight :
           /\ acOrphans' = IF arm = "A" THEN kept ELSE acOrphans
           /\ acCommand' = [k \in AcCommands |->
                  IF k \in AcInFlight \ kept THEN "lost" ELSE acCommand[k]]
           /\ acLock' = IF acLock \in kept THEN acLock ELSE 0
    BY <1>10 DEF AcTimeout
  <2>2. acKilled' = acKilled \cup {arm}
    BY <1>10 DEF AcTimeout
  <2>3. /\ acOrphans' \subseteq AcCommands /\ acKilled' \subseteq AcArms
        /\ acCommand' \in [AcCommands -> {"idle", "waiting", "running", "captured",
                                          "completed", "failed", "lost"}]
        /\ \A k \in AcCommands : acCommand'[k] \in {"captured", "completed"} =>
               acCommand'[k] = acCommand[k]
    BY <1>1, <2>1, <2>2 DEF AcArmTypes, AcInFlight
  <2>4. acLock' \in 0..AcSlots
    BY <1>1, <2>1, AcConstants DEF AcArmTypes
  <2>5. AcArmTypes'
    BY <1>1, <1>4, <1>5, <1>6, <2>3, <2>4 DEF AcArmTypes
  <2>6. AcLeft'
    <3>1. \A a \in acKilled' : acResult'[a].timed /\ acWorker'[a] = "done"
      BY <1>1, <1>2, <1>4, <1>5, <1>10, <2>2, <2>3 DEF AcLeft
    <3> QED
      BY <1>1, <1>6, <1>8, <2>3, <3>1 DEF AcLeft
  <2> QED
    BY <1>6, <1>7, <2>5, <2>6, AcArmStep
<1> QED
  BY <1>9, <1>10

LEMMA AcNextInv == AcInv /\ [AcNext]_acVars => AcInv'
<1> SUFFICES ASSUME AcInv, [AcNext]_acVars PROVE AcInv'
  OBVIOUS
<1>1. CASE UNCHANGED acVars
  <2>1. AcSupervised' /\ AcLeft'
    BY <1>1 DEF acVars, AcInv, AcSupervised, AcLeft
  <2>2. AcArmTypes'
    BY <1>1, AcTypeParts DEF acVars, AcInv, AcArmTypes
  <2> QED
    BY <1>1, <2>1, <2>2, AcArmStep DEF acVars, acKept
<1>2. CASE AcArguments \/ AcBind \/ AcPreflight \/ AcOutput \/ AcChecker
  BY <1>2, AcSetUpInv
<1>3. CASE AcWorktrees \/ AcDress \/ AcPrepare \/ AcWriteHomes \/ AcPlan \/ AcIdentity \/ AcBroken
  BY <1>3, AcTreesInv, AcPrepareInv, AcHomesInv
<1>4. CASE AcStartThreads \/ AcMainArrives \/ AcJoin \/ AcParse \/ AcCompare \/ AcNextPair
           \/ AcReport \/ AcFinally
  BY <1>4, AcBarrierInv, AcJoinInv, AcParseInv, AcCompareInv, AcNextPairInv, AcReportInv,
     AcFinallyInv
<1>5. ASSUME NEW arm \in AcArms,
             \/ AcWorkerArrives(arm) \/ AcWorkerLaunches(arm) \/ AcExit(arm) \/ AcTimeout(arm)
             \/ AcComplete(arm) \/ AcCompleted(arm)
      PROVE  AcInv'
  BY <1>5, AcThreadInv, AcEndInv, AcCompleteInv
<1>6. ASSUME NEW k \in AcCommands, AcIssue(k) \/ AcAcquire(k) \/ AcCapture(k) \/ AcAnswer(k)
      PROVE  AcInv'
  BY <1>6, AcCommandInv
<1>7. CASE AcBarrierTimeout
  BY <1>7, AcThreadInv
<1> QED
  BY <1>1, <1>2, <1>3, <1>4, <1>5, <1>6, <1>7 DEF AcNext, AcReturned

(* The inductive invariant of the paired acceptance run.                   *)
THEOREM AcInvariance == AcSpec => []AcInv
  BY AcInitInv, AcNextInv, PTL DEF AcSpec

(* An accepted experiment was earned, whatever the number of pairs and of  *)
(* commands: see AcceptanceIsEarned.                                       *)
THEOREM AcceptanceHolds == AcSpec => []AcceptanceIsEarned
<1>1. AcInv => AcceptanceIsEarned
  <2> SUFFICES ASSUME AcInv PROVE AcceptanceIsEarned
    OBVIOUS
  <2>1. ASSUME acMain.pc = "returned", acMain.exit = 0, acMain.mode # "dry"
        PROVE  /\ Len(acPairs) = AcPairs
               /\ \A i \in DOMAIN acPairs :
                      /\ ~acPairs[i].killed
                      /\ acMain.treatment = "deterministic" => acPairs[i].matched
    BY <2>1 DEF AcInv, AcJudged, AcAllValid
  <2>2. ASSUME acMain.pc = "returned", acReport.files = 2, acMain.mode # "dry"
        PROVE  acReport.commissioning <=> acMain.exit = 0
    BY <2>2 DEF AcInv, AcJudged
  <2>3. ASSUME NEW a \in AcArms, acAgent[a] = "running"
        PROVE  /\ a \in acHomes /\ acMain.pc \in {"barrier", "join", AcWaiting(a)}
               /\ {"identity", AcGuard(a)} \subseteq acTree[a]
               /\ ~AcContaminated(acTree["B"])
    <3>1. acMain.pc \in {"barrier", "join", AcWaiting(a)}
      BY <2>3 DEF AcInv, AcSupervised
    <3>2. acMain.pc \in AcHoused /\ acMain.pc \in AcDressed
      BY <3>1 DEF AcWaiting, AcHoused, AcDressed, AcInPair
    <3> QED
      BY <3>1, <3>2 DEF AcInv, AcTidy
  <2>4. acMain.pc = "returned" => acHomes = {} /\ acTree = [a \in AcArms |-> {}]
    BY DEF AcInv, AcTidy
  <2> QED
    BY <2>1, <2>2, <2>3, <2>4 DEF AcceptanceIsEarned
<1> QED
  BY <1>1, AcInvariance, PTL

(* Type correctness of the acceptance run.                                 *)
THEOREM AcTyping == AcSpec => []AcTypeOK
<1>1. AcInv => AcTypeOK
  BY DEF AcInv
<1> QED
  BY <1>1, AcInvariance, PTL

=============================================================================
