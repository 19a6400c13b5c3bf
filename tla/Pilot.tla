-------------------------------- MODULE Pilot --------------------------------
(***************************************************************************)
(* The concurrent A/B pilot (src/outctl/pilot.py): launch starts a guided  *)
(* session A and a control session B from one barrier, each a thread that  *)
(* drives a codex app-server over JSON-RPC (run_app_server_turn) and       *)
(* decides its command approvals (CommandApprovalPolicy).  The server is   *)
(* external: it sends its messages in any order and runs only what was     *)
(* accepted, when it likes.                                                *)
(*                                                                         *)
(* <<"run", k>> is the corpus command in place k, <<"tail", k>> retrieves   *)
(* its capture.  Item ids are places in the list of approvals.             *)
(***************************************************************************)
EXTENDS Naturals, Sequences, FiniteSets

CONSTANTS
    PlCorpus,  \* number of frozen corpus commands (four in the code)
    PlReads,   \* access checks that must be answered yes
    PlWrites   \* access checks that must be answered no

ASSUME PlConstants == PlCorpus \in Nat \ {0}

PlSessions == {"A", "B"}
PlPlaces == 1..PlCorpus
PlCommands == {"run"} \X PlPlaces
PlTails == {"tail"} \X PlPlaces

VARIABLES
    plLaunch,     \* where launch is
    plPc,         \* [PlSessions -> where its turn is]
    plItems,      \* [PlSessions -> sequence of approved items [argv, state]]
    plLog,        \* command-events.jsonl of A: [of, status, exit] in order
    plRetrieved,  \* retrieval-events.jsonl of A: captures retrieved
    plHeard       \* [PlSessions -> subset of usage, conclusion]

plVars == <<plLaunch, plPc, plItems, plLog, plRetrieved, plHeard>>

PlTypeOK ==
    /\ plLaunch \in {"called", "sessions", "evidence", "report", "reported", "failed"}
    /\ plPc \in [PlSessions -> {"barrier", "initialize", "thread/start",
                                "turn/start", "stream", "ok", "raised"}]
    /\ \A s \in PlSessions : \A i \in DOMAIN plItems[s] :
           plItems[s][i].state \in {"approved", "ran", "failed", "completed"}
    /\ plHeard \in [PlSessions -> SUBSET {"usage", "conclusion"}]

PlInit ==
    /\ plLaunch = "called"
    /\ plPc = [s \in PlSessions |-> "barrier"]
    /\ plItems = [s \in PlSessions |-> <<>>]
    /\ plLog = <<>> /\ plRetrieved = <<>>
    /\ plHeard = [s \in PlSessions |-> {}]

PlGoto(s, label) == plPc' = [plPc EXCEPT ![s] = label]

\* _preflight: every read granted, every mutation denied; no answer is neither.
PlPreflight(answer) ==
    /\ \A check \in PlReads : answer[check] = "yes"
    /\ \A check \in PlWrites : answer[check] = "no"

\* launch up to its threads: the executable, clean checkouts, the preflight,
\* the schema of the app-server, the session directories.
PlPrepare ==
    /\ plLaunch = "called"
    /\ \E pinned \in BOOLEAN, answer \in [PlReads \cup PlWrites -> {"yes", "no", "unreachable"}] :
           plLaunch' = IF pinned /\ PlPreflight(answer) THEN "sessions" ELSE "failed"
    /\ UNCHANGED <<plPc, plItems, plLog, plRetrieved, plHeard>>

\* Both threads are at the barrier, which opens.
PlBarrier ==
    /\ plLaunch = "sessions" /\ \A s \in PlSessions : plPc[s] = "barrier"
    /\ plPc' = [s \in PlSessions |-> "initialize"]
    /\ UNCHANGED <<plLaunch, plItems, plLog, plRetrieved, plHeard>>

PlNextRequest(label) ==
    CASE label = "initialize" -> "thread/start"
      [] label = "thread/start" -> "turn/start"
      [] label = "turn/start" -> "stream"

\* The answer to a request.  What else arrives before it is declined or lost:
\* there is no approval policy yet to hear it.
PlAnswer(s) ==
    /\ plPc[s] \in {"initialize", "thread/start", "turn/start"}
    /\ PlGoto(s, PlNextRequest(plPc[s]))
    /\ UNCHANGED <<plLaunch, plItems, plLog, plRetrieved, plHeard>>

\* The stream ends, or a message is oversized, malformed, an error, a bad
\* conclusion or token telemetry of another thread: PilotError.
PlBroken(s) ==
    /\ plPc[s] \in {"initialize", "thread/start", "turn/start", "stream"}
    /\ PlGoto(s, "raised")
    /\ UNCHANGED <<plLaunch, plItems, plLog, plRetrieved, plHeard>>

-----------------------------------------------------------------------------
(* CommandApprovalPolicy.                                                  *)

PlApproved(s, argvs) == {i \in DOMAIN plItems[s] : plItems[s][i].argv \in argvs}
PlIn(s, state) == {i \in DOMAIN plItems[s] : plItems[s][i].state = state}

\* A slip: a command is approved while another is under way.
PlOverlapping(s) == TRUE

\* No approved item is without its completion.
PlSerial(s) == PlIn(s, "completed") = DOMAIN plItems[s]

\* verify_capture: the capture is published and its digests match.
PlVerified(event) == event.status # "CAPTURE_FAILED"

\* _is_bounded_retrieval: one tail, of the capture logged last of all four.
PlBoundedRetrieval(s, argv) ==
    /\ argv \in PlTails /\ PlApproved(s, PlTails) = {}
    /\ Cardinality(PlIn(s, "completed")) = PlCorpus
    /\ Len(plLog) = PlCorpus
    /\ plLog[PlCorpus].of = argv[2] /\ PlVerified(plLog[PlCorpus])

\* decision, for a request that is bound to this thread, turn and directory,
\* has a fresh item id and spells its argv canonically; any other is declined.
PlAccepts(s, argv) ==
    /\ PlSerial(s)
    /\ \/ /\ argv \in PlCommands
          /\ argv[2] = Cardinality(PlApproved(s, PlCommands)) + 1
       \/ s = "A" /\ PlBoundedRetrieval(s, argv)

PlRequest(s) ==
    /\ plPc[s] = "stream"
    /\ \E argv \in PlCommands \cup PlTails, proper \in BOOLEAN :
           plItems' = IF proper /\ PlAccepts(s, argv)
                      THEN [plItems EXCEPT ![s] =
                                Append(@, [argv |-> argv, state |-> "approved"])]
                      ELSE plItems
    /\ UNCHANGED <<plLaunch, plPc, plLog, plRetrieved, plHeard>>

\* External: the server runs an approved command once.  In A it is outctl
\* that runs, and that appends to the event logs of the spool.
PlRun(s, i) ==
    /\ plPc[s] = "stream" /\ plItems[s][i].state = "approved"
    /\ \E exit \in {0, 1}, status \in {"COMPLETE", "CAPTURE_FAILED"} :
        LET argv == plItems[s][i].argv
        IN  /\ plItems' = [plItems EXCEPT ![s][i].state =
                               IF exit = 0 THEN "ran" ELSE "failed"]
            /\ IF s = "A" /\ argv \in PlCommands
               THEN plLog' = Append(plLog, [of |-> argv[2], status |-> status, exit |-> exit])
               ELSE UNCHANGED plLog
            /\ IF s = "A" /\ argv \in PlTails
               THEN plRetrieved' = Append(plRetrieved, argv[2])
               ELSE UNCHANGED plRetrieved
    /\ UNCHANGED <<plLaunch, plPc, plHeard>>

\* record_completion: only of an approved item, with its command and exit 0.
PlCompleted(s, i) ==
    /\ plPc[s] = "stream" /\ plItems[s][i].state = "ran"
    /\ plItems' = [plItems EXCEPT ![s][i].state = "completed"]
    /\ UNCHANGED <<plLaunch, plPc, plLog, plRetrieved, plHeard>>

\* Token usage of the thread, or a final message that is the bounded object.
PlHear(s) ==
    /\ plPc[s] = "stream"
    /\ \E what \in {"usage", "conclusion"} :
           plHeard' = [plHeard EXCEPT ![s] = @ \cup {what}]
    /\ UNCHANGED <<plLaunch, plPc, plItems, plLog, plRetrieved>>

\* assert_complete
PlComplete(s) ==
    /\ Cardinality(PlApproved(s, PlCommands)) = PlCorpus
    /\ Cardinality(PlIn(s, "completed")) >= PlCorpus
    /\ s = "A" => \E i \in PlApproved(s, PlTails) : plItems[s][i].state = "completed"

PlTurnCompleted(s) ==
    /\ plPc[s] = "stream"
    /\ PlGoto(s, IF plHeard[s] = {"usage", "conclusion"} /\ PlComplete(s)
                 THEN "ok" ELSE "raised")
    /\ UNCHANGED <<plLaunch, plItems, plLog, plRetrieved, plHeard>>

-----------------------------------------------------------------------------
(* launch after its threads.                                               *)

\* Both workers are joined; a failure or a skewed start ends the launch.
PlJoin ==
    /\ plLaunch = "sessions" /\ \A s \in PlSessions : plPc[s] \in {"ok", "raised"}
    /\ \E skewed \in BOOLEAN :
           plLaunch' = IF skewed \/ \E s \in PlSessions : plPc[s] = "raised"
                       THEN "failed" ELSE "evidence"
    /\ UNCHANGED <<plPc, plItems, plLog, plRetrieved, plHeard>>

\* _guided_evidence
PlGuided ==
    /\ Len(plLog) = PlCorpus
    /\ plRetrieved = <<plLog[PlCorpus].of>>
    /\ \A i \in DOMAIN plLog : plLog[i].status = "COMPLETE" /\ plLog[i].exit = 0

PlEvidence ==
    /\ plLaunch = "evidence"
    /\ plLaunch' = IF PlGuided THEN "report" ELSE "failed"
    /\ UNCHANGED <<plPc, plItems, plLog, plRetrieved, plHeard>>

\* The metadata of a command: _guided_evidence's for A, and for B
\* completed_corpus_metadata's.
PlMetadata(s) ==
    IF s = "A"
    THEN {"ordinal", "capture_id", "command_status", "capture_status",
          "raw_bytes", "hash_verified"}
    ELSE {"ordinal", "argv", "command_status"}

\* validate_report asks every command of every session for its argv.
PlValid == \A s \in PlSessions : "argv" \in PlMetadata(s)

\* review_verdict validates the report before it is written.
PlReport ==
    /\ plLaunch = "report"
    /\ plLaunch' = IF PlValid THEN "reported" ELSE "failed"
    /\ UNCHANGED <<plPc, plItems, plLog, plRetrieved, plHeard>>

PlReturned == plLaunch \in {"reported", "failed"} /\ UNCHANGED plVars

PlNext ==
    \/ PlPrepare \/ PlBarrier \/ PlJoin \/ PlEvidence \/ PlReport \/ PlReturned
    \/ \E s \in PlSessions :
        \/ PlAnswer(s) \/ PlBroken(s) \/ PlRequest(s) \/ PlHear(s)
        \/ PlTurnCompleted(s)
        \/ \E i \in DOMAIN plItems[s] : PlRun(s, i) \/ PlCompleted(s, i)

PlSpec == PlInit /\ [][PlNext]_plVars

-----------------------------------------------------------------------------
(***************************************************************************)
(* Approvals prove what they are used to prove.  A turn that returned ran  *)
(* every frozen command once, in the order of the corpus, each to its end  *)
(* before the next; and the one capture that session A may retrieve is the *)
(* capture of the last command, which nothing in the event log says: it    *)
(* follows from the order of approvals alone.                              *)
(***************************************************************************)
ApprovalsProveTheCorpus ==
    /\ \A s \in PlSessions : plPc[s] = "ok" =>
           /\ Len(plItems[s]) = PlCorpus + (IF s = "A" THEN 1 ELSE 0)
           /\ \A k \in PlPlaces :
                  plItems[s][k] = [argv |-> <<"run", k>>, state |-> "completed"]
    /\ \A i \in PlApproved("A", PlTails) : plItems["A"][i].argv[2] = PlCorpus
    /\ plPc["A"] = "ok" => \A i \in DOMAIN plLog : plLog[i].of = i

=============================================================================
