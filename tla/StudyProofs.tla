---------------------------- MODULE StudyProofs -----------------------------
(***************************************************************************)
(* How a study is run.  The approvals of a pilot prove its corpus, for     *)
(* every corpus.  The arms are launched in matched groups, and each        *)
(* session once, for every number of scenarios, arms and replicates and    *)
(* every seed.                                                             *)
(***************************************************************************)
EXTENDS Pilot, Launch, FiniteSetTheorems, TLAPS

-----------------------------------------------------------------------------
(* The pilot.                                                              *)

PlItem == [argv : PlCommands \cup PlTails,
           state : {"approved", "ran", "failed", "completed"}]
PlEvent == [of : PlPlaces, status : {"COMPLETE", "CAPTURE_FAILED"}, exit : {0, 1}]

\* The most a session may have approved.
PlMost(s) == IF s = "A" THEN PlCorpus + 1 ELSE PlCorpus

\* The approvals are the corpus in its order and then, in A, one tail of its
\* last command; only the latest may be under way.
PlOrdered ==
    \A s \in PlSessions :
        /\ Len(plItems[s]) <= PlMost(s)
        /\ \A k \in DOMAIN plItems[s] :
               /\ k <= PlCorpus => plItems[s][k].argv = <<"run", k>>
               /\ k > PlCorpus => plItems[s][k].argv = <<"tail", PlCorpus>>
               /\ k < Len(plItems[s]) => plItems[s][k].state = "completed"

\* The corpus commands of A that have run.
PlRan ==
    LET n == Len(plItems["A"])
    IN  IF n > PlCorpus THEN PlCorpus
        ELSE IF n > 0 /\ plItems["A"][n].state = "approved" THEN n - 1 ELSE n

\* The event log has them in their order.
PlLogged == Len(plLog) = PlRan /\ \A i \in DOMAIN plLog : plLog[i].of = i

\* A turn that returned had everything approved and completed.
PlProved ==
    \A s \in PlSessions : plPc[s] = "ok" =>
        /\ Len(plItems[s]) = PlMost(s)
        /\ \A k \in DOMAIN plItems[s] : plItems[s][k].state = "completed"

PlTypes ==
    /\ plLaunch \in {"called", "sessions", "evidence", "report", "reported", "failed"}
    /\ plPc \in [PlSessions -> {"barrier", "initialize", "thread/start",
                                "turn/start", "stream", "ok", "raised"}]
    /\ plItems \in [PlSessions -> Seq(PlItem)]
    /\ plLog \in Seq(PlEvent)
    /\ plHeard \in [PlSessions -> SUBSET {"usage", "conclusion"}]

PlInv == PlTypes /\ PlOrdered /\ PlLogged /\ PlProved

-----------------------------------------------------------------------------
(* The places up to m are m.                                               *)
LEMMA PlUpTo == ASSUME NEW m \in Nat PROVE IsFiniteSet(1..m) /\ Cardinality(1..m) = m
<1>1. IsFiniteSet(1..m) /\ Cardinality(1..m) = IF 1 > m THEN 0 ELSE m - 1 + 1
  BY FS_Interval
<1> QED
  BY <1>1

(* The approvals of a session, counted.                                    *)
LEMMA PlCounts ==
    ASSUME PlTypes, PlOrdered, NEW s \in PlSessions
    PROVE  LET items == plItems[s]
               n == Len(items)
               m == IF n <= PlCorpus THEN n ELSE PlCorpus
           IN  /\ n \in Nat /\ DOMAIN items = 1..n /\ n <= PlMost(s) /\ n <= PlCorpus + 1
               /\ items \in Seq(PlItem) /\ \A k \in 1..n : items[k] \in PlItem
               /\ \A k \in 1..n : k <= PlCorpus => items[k].argv = <<"run", k>>
               /\ \A k \in 1..n : k > PlCorpus => items[k].argv = <<"tail", PlCorpus>>
               /\ \A k \in 1..n : k < n => items[k].state = "completed"
               /\ PlApproved(s, PlCommands) = 1..m /\ Cardinality(PlApproved(s, PlCommands)) = m
               /\ PlApproved(s, PlTails) = (PlCorpus + 1)..n
<1> DEFINE items == plItems[s]
           n == Len(items)
           m == IF n <= PlCorpus THEN n ELSE PlCorpus
<1>1. items \in Seq(PlItem)
  BY DEF PlTypes
<1>2. n \in Nat /\ DOMAIN items = 1..n /\ \A k \in 1..n : items[k] \in PlItem
  BY <1>1
<1>3. PlCorpus \in Nat /\ PlCorpus > 0
  BY PlConstants
<1>4. n <= PlMost(s) /\ n <= PlCorpus + 1
  BY <1>2, <1>3 DEF PlOrdered, PlMost
<1>5. /\ \A k \in 1..n : k <= PlCorpus => items[k].argv = <<"run", k>>
      /\ \A k \in 1..n : k > PlCorpus => items[k].argv = <<"tail", PlCorpus>>
      /\ \A k \in 1..n : k < n => items[k].state = "completed"
  BY <1>2, <1>3 DEF PlOrdered
<1>6. /\ \A k : <<"run", k>> \in PlCommands <=> k \in PlPlaces
      /\ \A k : <<"run", k>> \notin PlTails
      /\ <<"tail", PlCorpus>> \in PlTails /\ <<"tail", PlCorpus>> \notin PlCommands
  BY <1>3 DEF PlCommands, PlTails, PlPlaces
<1>7. ASSUME NEW k \in 1..n
      PROVE  /\ items[k].argv \in PlCommands <=> k <= PlCorpus
             /\ items[k].argv \in PlTails <=> k > PlCorpus
  <2>1. CASE k <= PlCorpus
    BY <1>2, <1>3, <1>5, <1>6, <2>1 DEF PlPlaces
  <2>2. CASE k > PlCorpus
    BY <1>2, <1>3, <1>5, <1>6, <2>2
  <2> QED
    BY <1>2, <1>3, <2>1, <2>2
<1>8. PlApproved(s, PlCommands) = 1..m
  BY <1>2, <1>3, <1>7 DEF PlApproved
<1>9. PlApproved(s, PlTails) = (PlCorpus + 1)..n
  BY <1>2, <1>3, <1>7 DEF PlApproved
<1>10. m \in Nat /\ Cardinality(1..m) = m
  BY <1>2, <1>3, PlUpTo
<1> QED
  BY <1>1, <1>2, <1>4, <1>5, <1>8, <1>9, <1>10

LEMMA PlInitInv == PlInit => PlInv
<1> SUFFICES ASSUME PlInit PROVE PlInv
  OBVIOUS
<1>1. \A s \in PlSessions : plItems[s] = << >>
  BY DEF PlInit
<1>2. PlTypes
  BY DEF PlInit, PlTypes, PlSessions
<1>3. PlOrdered
  BY <1>1, PlConstants DEF PlOrdered, PlMost
<1>4. PlLogged
  BY <1>1, PlConstants DEF PlInit, PlLogged, PlRan, PlSessions
<1>5. PlProved
  BY DEF PlInit, PlProved
<1> QED
  BY <1>2, <1>3, <1>4, <1>5 DEF PlInv

(* A request is accepted: the next command of the corpus, or the tail.     *)
LEMMA PlRequestInv ==
    ASSUME PlInv, NEW s \in PlSessions, PlRequest(s) PROVE PlInv'
<1> DEFINE n == Len(plItems[s])
<1>1. plPc[s] = "stream" /\ UNCHANGED <<plLaunch, plPc, plLog, plRetrieved, plHeard>>
  BY DEF PlRequest
<1>2. PICK argv \in PlCommands \cup PlTails :
         \/ UNCHANGED plItems
         \/ /\ PlAccepts(s, argv)
            /\ plItems' = [plItems EXCEPT ![s] = Append(@, [argv |-> argv, state |-> "approved"])]
  BY DEF PlRequest
<1>3. CASE UNCHANGED plItems
  BY <1>1, <1>3 DEF PlInv, PlTypes, PlOrdered, PlLogged, PlRan, PlProved
<1>4. CASE /\ PlAccepts(s, argv)
           /\ plItems' = [plItems EXCEPT ![s] = Append(@, [argv |-> argv, state |-> "approved"])]
  <2> DEFINE item == [argv |-> argv, state |-> "approved"]
             m == IF n <= PlCorpus THEN n ELSE PlCorpus
  <2>1. /\ n \in Nat /\ DOMAIN plItems[s] = 1..n /\ n <= PlMost(s)
        /\ plItems[s] \in Seq(PlItem) /\ \A k \in 1..n : plItems[s][k] \in PlItem
        /\ \A k \in 1..n : k <= PlCorpus => plItems[s][k].argv = <<"run", k>>
        /\ \A k \in 1..n : k > PlCorpus => plItems[s][k].argv = <<"tail", PlCorpus>>
        /\ Cardinality(PlApproved(s, PlCommands)) = m
        /\ PlApproved(s, PlTails) = (PlCorpus + 1)..n
    BY PlCounts DEF PlInv
  <2>2. PlCorpus \in Nat /\ PlCorpus > 0
    BY PlConstants
  <2>3. PlIn(s, "completed") = 1..n /\ \A k \in 1..n : plItems[s][k].state = "completed"
    BY <1>4, <2>1 DEF PlAccepts, PlSerial, PlIn
  <2>4. n + 1 <= PlMost(s)
        /\ (n + 1 <= PlCorpus => argv = <<"run", n + 1>>)
        /\ (n + 1 > PlCorpus => argv = <<"tail", PlCorpus>>)
    <3>1. CASE argv \in PlCommands /\ argv[2] = m + 1
      <4>1. PICK k \in PlPlaces : argv = <<"run", k>>
        BY <3>1 DEF PlCommands
      <4>2. k = m + 1 /\ k <= PlCorpus /\ m = n
        BY <2>1, <2>2, <3>1, <4>1 DEF PlPlaces
      <4> QED
        BY <2>1, <2>2, <4>1, <4>2 DEF PlMost
    <3>2. CASE s = "A" /\ PlBoundedRetrieval(s, argv)
      <4>1. PICK k \in PlPlaces : argv = <<"tail", k>>
        BY <3>2 DEF PlBoundedRetrieval, PlTails
      <4>2. Cardinality(1..n) = n
        BY <2>1, PlUpTo
      <4>3. n = PlCorpus
        BY <2>3, <3>2, <4>2 DEF PlBoundedRetrieval
      <4>4. PlCorpus \in DOMAIN plLog
        BY <2>2, <3>2 DEF PlBoundedRetrieval, PlInv, PlTypes
      <4>5. k = PlCorpus
        BY <3>2, <4>1, <4>4 DEF PlBoundedRetrieval, PlInv, PlLogged
      <4> QED
        BY <2>2, <3>2, <4>1, <4>3, <4>5 DEF PlMost
    <3> QED
      BY <1>4, <2>1, <3>1, <3>2 DEF PlAccepts
  <2>5. item \in PlItem
    BY DEF PlItem
  <2>6. /\ plItems'[s] = Append(plItems[s], item)
        /\ \A r \in PlSessions : r # s => plItems'[r] = plItems[r]
        /\ plItems' \in [PlSessions -> Seq(PlItem)]
    <3> DEFINE more == Append(plItems[s], item)
    <3>1. plItems \in [PlSessions -> Seq(PlItem)] /\ plItems' = [plItems EXCEPT ![s] = more]
      BY <1>4 DEF PlInv, PlTypes
    <3>2. more \in Seq(PlItem)
      BY <2>1, <2>5
    <3> HIDE DEF more, item
    <3>3. /\ plItems'[s] = more /\ \A r \in PlSessions : r # s => plItems'[r] = plItems[r]
          /\ plItems' \in [PlSessions -> Seq(PlItem)]
      BY <3>1, <3>2
    <3> QED
      BY <3>3 DEF more
  <2>7. /\ Len(plItems'[s]) = n + 1 /\ DOMAIN plItems'[s] = 1..(n + 1)
        /\ plItems'[s][n + 1] = item
        /\ \A k \in 1..n : plItems'[s][k] = plItems[s][k]
    BY <2>1, <2>5, <2>6, SMTT(30)
  <2>8. PlTypes'
    BY <1>1, <2>6 DEF PlInv, PlTypes
  <2>9. PlOrdered'
    <3>1. ASSUME NEW k \in 1..(n + 1)
          PROVE  /\ k <= PlCorpus => plItems'[s][k].argv = <<"run", k>>
                 /\ k > PlCorpus => plItems'[s][k].argv = <<"tail", PlCorpus>>
                 /\ k < n + 1 => plItems'[s][k].state = "completed"
      <4>1. CASE k = n + 1
        <5>1. plItems'[s][k].argv = argv /\ ~(k < n + 1)
          BY <2>1, <2>7, <4>1, SMTT(30)
        <5> QED
          BY <2>4, <4>1, <5>1
      <4>2. CASE k \in 1..n
        <5>1. plItems'[s][k] = plItems[s][k] /\ plItems[s][k].state = "completed"
          BY <2>3, <2>7, <4>2
        <5> QED
          BY <2>1, <4>2, <5>1
      <4>3. n \in Nat
        BY <2>1
      <4>4. k = n + 1 \/ k \in 1..n
        BY <3>1, <4>3
      <4> QED
        BY <4>1, <4>2, <4>4
    <3>2. \A r \in PlSessions : r # s =>
              /\ Len(plItems'[r]) <= PlMost(r)
              /\ \A k \in DOMAIN plItems'[r] :
                   /\ k <= PlCorpus => plItems'[r][k].argv = <<"run", k>>
                   /\ k > PlCorpus => plItems'[r][k].argv = <<"tail", PlCorpus>>
                   /\ k < Len(plItems'[r]) => plItems'[r][k].state = "completed"
      BY <2>6, SMTT(30) DEF PlInv, PlOrdered
    <3> QED
      BY <2>4, <2>7, <3>1, <3>2 DEF PlOrdered, PlMost
  <2>10. PlLogged'
    <3>1. CASE s = "A"
      <4>1. PlRan = IF n > PlCorpus THEN PlCorpus ELSE n
        BY <2>1, <2>3, <3>1 DEF PlRan
      <4>2. PlRan' = IF n + 1 > PlCorpus THEN PlCorpus ELSE n
        BY <2>1, <2>2, <2>7, <3>1 DEF PlRan
      <4>3. n + 1 <= PlCorpus + 1
        BY <2>4, <3>1 DEF PlMost
      <4> QED
        BY <1>1, <2>1, <2>2, <4>1, <4>2, <4>3, SMTT(30) DEF PlInv, PlLogged
    <3>2. CASE s # "A"
      BY <1>1, <2>6, <3>2 DEF PlInv, PlLogged, PlRan, PlSessions
    <3> QED
      BY <3>1, <3>2
  <2>11. PlProved'
    BY <1>1, <2>6 DEF PlInv, PlProved, PlMost
  <2> QED
    BY <2>8, <2>9, <2>10, <2>11 DEF PlInv
<1> QED
  BY <1>2, <1>3, <1>4

(* The latest item moves on: it runs, and A's run appends its event, or    *)
(* its completion is recorded.                                             *)
LEMMA PlItemInv ==
    ASSUME PlInv, NEW s \in PlSessions, NEW i \in DOMAIN plItems[s],
           PlRun(s, i) \/ PlCompleted(s, i)
    PROVE  PlInv'
<1> DEFINE n == Len(plItems[s])
<1>1. plPc[s] = "stream" /\ UNCHANGED <<plLaunch, plPc, plHeard>>
  BY DEF PlRun, PlCompleted
<1>2. /\ n \in Nat /\ DOMAIN plItems[s] = 1..n /\ n <= PlMost(s) /\ n <= PlCorpus + 1
      /\ plItems[s] \in Seq(PlItem) /\ \A k \in 1..n : plItems[s][k] \in PlItem
      /\ \A k \in 1..n : k <= PlCorpus => plItems[s][k].argv = <<"run", k>>
      /\ \A k \in 1..n : k > PlCorpus => plItems[s][k].argv = <<"tail", PlCorpus>>
      /\ \A k \in 1..n : k < n => plItems[s][k].state = "completed"
  BY PlCounts DEF PlInv
<1>3. i = n /\ n > 0 /\ plItems[s][n].state \in {"approved", "ran"}
  <2>1. plItems[s][i].state \in {"approved", "ran"}
    BY DEF PlRun, PlCompleted
  <2>2. i \in 1..n /\ ~(i < n)
    BY <1>2, <2>1
  <2> QED
    BY <1>2, <2>1, <2>2, SMTT(30)
<1>4. PICK state \in {"ran", "failed", "completed"} :
         plItems' = [plItems EXCEPT ![s][i].state = state]
  BY DEF PlRun, PlCompleted
<1>5. /\ plItems'[s] = [plItems[s] EXCEPT ![n].state = state]
      /\ \A r \in PlSessions : r # s => plItems'[r] = plItems[r]
      /\ DOMAIN plItems' = PlSessions
      /\ plItems' = [r \in PlSessions |-> plItems'[r]]
  BY <1>3, <1>4 DEF PlInv, PlTypes
<1>6. /\ plItems'[s][n] = [plItems[s][n] EXCEPT !.state = state]
      /\ \A k \in 1..n : k # n => plItems'[s][k] = plItems[s][k]
      /\ plItems'[s] = [k \in 1..n |-> plItems'[s][k]]
      /\ plItems'[s][n].state = state /\ plItems'[s][n].argv = plItems[s][n].argv
      /\ plItems'[s][n] \in PlItem
  BY <1>2, <1>3, <1>5 DEF PlItem
<1>7. /\ plItems'[s] \in Seq(PlItem) /\ Len(plItems'[s]) = n /\ DOMAIN plItems'[s] = 1..n
  <2>1. plItems'[s] \in [1..n -> PlItem]
    BY <1>2, <1>6
  <2>2. plItems'[s] \in Seq(PlItem)
    BY <1>2, <2>1
  <2> QED
    BY <1>2, <2>1, <2>2
<1>8. plItems' \in [PlSessions -> Seq(PlItem)]
  BY <1>5, <1>7 DEF PlInv, PlTypes
<1>9. PlCorpus \in Nat /\ PlCorpus > 0
  BY PlConstants
<1>10. PlOrdered'
  <2>1. ASSUME NEW k \in 1..n
        PROVE  /\ k <= PlCorpus => plItems'[s][k].argv = <<"run", k>>
               /\ k > PlCorpus => plItems'[s][k].argv = <<"tail", PlCorpus>>
               /\ k < n => plItems'[s][k].state = "completed"
    BY <1>2, <1>3, <1>6, <1>9
  <2>2. \A r \in PlSessions : r # s =>
            /\ Len(plItems'[r]) <= PlMost(r)
            /\ \A k \in DOMAIN plItems'[r] :
                 /\ k <= PlCorpus => plItems'[r][k].argv = <<"run", k>>
                 /\ k > PlCorpus => plItems'[r][k].argv = <<"tail", PlCorpus>>
                 /\ k < Len(plItems'[r]) => plItems'[r][k].state = "completed"
    BY <1>5 DEF PlInv, PlOrdered
  <2> QED
    BY <1>2, <1>7, <2>1, <2>2 DEF PlOrdered, PlMost
<1>11. PlProved'
  BY <1>1, <1>5 DEF PlInv, PlProved, PlMost
<1>12. plLog' \in Seq(PlEvent) /\ PlLogged'
  <2>1. plLog \in Seq(PlEvent) /\ Len(plLog) = PlRan /\ \A j \in DOMAIN plLog : plLog[j].of = j
    BY DEF PlInv, PlTypes, PlLogged
  <2>2. CASE s = "A" /\ n <= PlCorpus /\ PlRun(s, i)
    <3>1. PlRan = n - 1 /\ PlRan' = n
      <4>1. plItems["A"][n].state = "approved" /\ plItems'["A"][n].state # "approved"
        BY <1>3, <1>6, <2>2 DEF PlRun
      <4> QED
        BY <1>2, <1>3, <1>7, <1>9, <2>2, <4>1 DEF PlRan
    <3>2. plItems[s][i].argv = <<"run", n>> /\ <<"run", n>> \in PlCommands /\ n \in PlPlaces
      BY <1>2, <1>3, <1>9, <2>2 DEF PlCommands, PlPlaces
    <3>3. PICK event \in PlEvent : plLog' = Append(plLog, event) /\ event.of = n
      BY <2>2, <3>2 DEF PlRun, PlEvent
    <3>4. /\ plLog' \in Seq(PlEvent) /\ Len(plLog') = n /\ DOMAIN plLog' = 1..n
          /\ plLog'[n] = event /\ \A j \in 1..(n - 1) : plLog'[j] = plLog[j]
      BY <1>2, <1>3, <2>1, <3>1, <3>3
    <3>5. DOMAIN plLog = 1..(n - 1)
      BY <1>2, <2>1, <3>1
    <3>6. \A j \in 1..n : plLog'[j].of = j
      BY <1>2, <1>3, <2>1, <3>3, <3>4, <3>5, SMTT(30)
    <3> QED
      BY <3>1, <3>4, <3>6 DEF PlLogged
  <2>3. CASE ~(s = "A" /\ n <= PlCorpus /\ PlRun(s, i))
    <3>1. UNCHANGED plLog
      <4>1. CASE PlCompleted(s, i)
        BY <4>1 DEF PlCompleted
      <4>2. CASE PlRun(s, i) /\ s # "A"
        BY <4>2 DEF PlRun
      <4>3. CASE PlRun(s, i) /\ n > PlCorpus
        <5>1. plItems[s][i].argv \notin PlCommands
          BY <1>2, <1>3, <4>3 DEF PlCommands
        <5> QED
          BY <4>3, <5>1 DEF PlRun
      <4> QED
        BY <1>2, <1>9, <2>3, <4>1, <4>2, <4>3, SMTT(30)
    <3>2. PlRan' = PlRan
      <4>1. CASE s # "A"
        BY <1>5, <4>1 DEF PlRan, PlSessions
      <4>2. CASE s = "A" /\ n > PlCorpus
        BY <1>7, <4>2 DEF PlRan
      <4>3. CASE s = "A" /\ n <= PlCorpus /\ PlCompleted(s, i)
        BY <1>2, <1>3, <1>6, <1>7, <1>9, <4>3 DEF PlRan, PlCompleted
      <4> QED
        BY <1>2, <1>9, <2>3, <4>1, <4>2, <4>3
    <3> QED
      BY <2>1, <3>1, <3>2 DEF PlLogged
  <2> QED
    BY <2>2, <2>3
<1>13. PlTypes'
  BY <1>1, <1>8, <1>12 DEF PlInv, PlTypes
<1> QED
  BY <1>10, <1>11, <1>12, <1>13 DEF PlInv

(* assert_complete counts; the order of approvals makes the counts proof.  *)
LEMMA PlTurnInv ==
    ASSUME PlInv, NEW s \in PlSessions, PlTurnCompleted(s) PROVE PlInv'
<1> DEFINE n == Len(plItems[s])
<1>1. /\ plPc[s] = "stream" /\ UNCHANGED <<plLaunch, plItems, plLog, plRetrieved, plHeard>>
      /\ plPc' = [plPc EXCEPT ![s] = IF plHeard[s] = {"usage", "conclusion"} /\ PlComplete(s)
                                     THEN "ok" ELSE "raised"]
  BY DEF PlTurnCompleted, PlGoto
<1>2. PlTypes' /\ PlOrdered' /\ PlLogged'
  BY <1>1 DEF PlInv, PlTypes, PlOrdered, PlLogged, PlRan
<1>3. ASSUME PlComplete(s)
      PROVE  n = PlMost(s) /\ \A k \in DOMAIN plItems[s] : plItems[s][k].state = "completed"
  <2> DEFINE m == IF n <= PlCorpus THEN n ELSE PlCorpus
  <2>1. /\ n \in Nat /\ DOMAIN plItems[s] = 1..n /\ n <= PlMost(s)
        /\ \A k \in 1..n : k < n => plItems[s][k].state = "completed"
        /\ Cardinality(PlApproved(s, PlCommands)) = m
        /\ PlApproved(s, PlTails) = (PlCorpus + 1)..n
    BY PlCounts DEF PlInv
  <2>2. PlCorpus \in Nat /\ PlCorpus > 0
    BY PlConstants
  <2>3. n >= PlCorpus
    BY <1>3, <2>1, <2>2 DEF PlComplete
  <2>4. CASE s = "A"
    <3>1. PICK k \in (PlCorpus + 1)..n : plItems[s][k].state = "completed"
      BY <1>3, <2>1, <2>4 DEF PlComplete
    <3>2. n = PlCorpus + 1 /\ k = n
      BY <2>1, <2>2, <2>4, <3>1 DEF PlMost
    <3> QED
      BY <2>1, <2>2, <2>4, <3>1, <3>2 DEF PlMost
  <2>5. CASE s # "A"
    <3>1. n = PlCorpus
      BY <2>1, <2>2, <2>3, <2>5 DEF PlMost
    <3>2. plItems[s][n].state = "completed"
      <4> SUFFICES ASSUME plItems[s][n].state # "completed" PROVE FALSE
        OBVIOUS
      <4>1. PlIn(s, "completed") \subseteq 1..(n - 1)
        BY <2>1, <2>2, <3>1, SMTT(30) DEF PlIn
      <4>2. IsFiniteSet(1..(n - 1)) /\ Cardinality(1..(n - 1)) = n - 1
        <5>1. n - 1 \in Nat
          BY <2>1, <2>2, <3>1
        <5> QED
          BY <5>1, PlUpTo
      <4>3. Cardinality(PlIn(s, "completed")) <= n - 1
        BY <4>1, <4>2, FS_Subset
      <4>4. IsFiniteSet(PlIn(s, "completed"))
        BY <4>1, <4>2, FS_Subset
      <4>5. Cardinality(PlIn(s, "completed")) \in Nat
        BY <4>4, FS_CardinalityType
      <4> QED
        BY <1>3, <2>1, <2>2, <3>1, <4>3, <4>5 DEF PlComplete
    <3> QED
      BY <2>1, <2>2, <2>5, <3>1, <3>2 DEF PlMost
  <2> QED
    BY <2>4, <2>5
<1>4. plPc \in [PlSessions -> {"barrier", "initialize", "thread/start", "turn/start",
                               "stream", "ok", "raised"}]
  BY DEF PlInv, PlTypes
<1>5. PlProved'
  <2> SUFFICES ASSUME NEW r \in PlSessions, plPc'[r] = "ok"
               PROVE  /\ Len(plItems[r]) = PlMost(r)
                      /\ \A k \in DOMAIN plItems[r] : plItems[r][k].state = "completed"
    BY <1>1 DEF PlProved, PlMost
  <2>1. CASE r = s
    BY <1>1, <1>3, <1>4, <2>1
  <2>2. CASE r # s
    BY <1>1, <1>4, <2>2 DEF PlInv, PlProved
  <2> QED
    BY <2>1, <2>2
<1> QED
  BY <1>2, <1>5 DEF PlInv

LEMMA PlNextInv == PlInv /\ [PlNext]_plVars => PlInv'
<1> SUFFICES ASSUME PlInv, [PlNext]_plVars PROVE PlInv'
  OBVIOUS
<1>1. ASSUME UNCHANGED <<plItems, plLog>>, PlTypes',
             \A s \in PlSessions : plPc'[s] = "ok" => plPc[s] = "ok"
      PROVE  PlInv'
  BY <1>1 DEF PlInv, PlOrdered, PlLogged, PlRan, PlProved, PlMost
<1>2. CASE PlPrepare \/ PlJoin \/ PlEvidence \/ PlReport \/ PlReturned \/ UNCHANGED plVars
  <2>1. UNCHANGED <<plPc, plItems, plLog, plHeard>>
    BY <1>2 DEF PlPrepare, PlJoin, PlEvidence, PlReport, PlReturned, plVars
  <2>2. plLaunch' \in {plLaunch, "sessions", "evidence", "report", "reported", "failed"}
    BY <1>2 DEF PlPrepare, PlJoin, PlEvidence, PlReport, PlReturned, plVars
  <2> QED
    BY <1>1, <2>1, <2>2 DEF PlInv, PlTypes
<1>3. CASE PlBarrier
  BY <1>1, <1>3 DEF PlBarrier, PlInv, PlTypes
<1>4. ASSUME NEW s \in PlSessions, PlAnswer(s) \/ PlBroken(s) PROVE PlInv'
  <2>1. UNCHANGED <<plLaunch, plItems, plLog, plHeard>>
    BY <1>4 DEF PlAnswer, PlBroken
  <2>2. PICK label \in {"thread/start", "turn/start", "stream", "raised"} :
            plPc' = [plPc EXCEPT ![s] = label]
    BY <1>4 DEF PlAnswer, PlBroken, PlGoto, PlNextRequest
  <2> QED
    BY <1>1, <2>1, <2>2 DEF PlInv, PlTypes
<1>5. ASSUME NEW s \in PlSessions, PlHear(s) PROVE PlInv'
  BY <1>1, <1>5 DEF PlHear, PlInv, PlTypes
<1> QED
  BY <1>2, <1>3, <1>4, <1>5, PlRequestInv, PlItemInv, PlTurnInv DEF PlNext

(* The invariant of a pilot: the order of approvals, and what the event    *)
(* log of session A owes to it.                                            *)
THEOREM PlInvariance == PlSpec => []PlInv
<1> QED
  BY PlInitInv, PlNextInv, PTL DEF PlSpec

(* A turn that returned ran every frozen command once and in order, and    *)
(* what session A may retrieve is the capture of the last one: for every   *)
(* length of the corpus.                                                   *)
THEOREM ApprovalsProve == PlSpec => []ApprovalsProveTheCorpus
<1>1. PlInv => ApprovalsProveTheCorpus
  <2> SUFFICES ASSUME PlInv PROVE ApprovalsProveTheCorpus
    OBVIOUS
  <2>1. PlCorpus \in Nat /\ PlCorpus > 0
    BY PlConstants
  <2>2. ASSUME NEW s \in PlSessions, plPc[s] = "ok"
        PROVE  /\ Len(plItems[s]) = PlCorpus + (IF s = "A" THEN 1 ELSE 0)
               /\ \A k \in PlPlaces :
                      plItems[s][k] = [argv |-> <<"run", k>>, state |-> "completed"]
    <3>1. /\ Len(plItems[s]) = PlMost(s)
          /\ \A k \in DOMAIN plItems[s] : plItems[s][k].state = "completed"
      BY <2>2 DEF PlInv, PlProved
    <3>2. Len(plItems[s]) = PlCorpus + (IF s = "A" THEN 1 ELSE 0)
      BY <2>1, <3>1 DEF PlMost
    <3>3. ASSUME NEW k \in PlPlaces
          PROVE  plItems[s][k] = [argv |-> <<"run", k>>, state |-> "completed"]
      <4>1. k \in DOMAIN plItems[s] /\ k \in 1..PlCorpus /\ k <= PlCorpus
        <5>1. DOMAIN plItems[s] = 1..Len(plItems[s])
          BY PlCounts DEF PlInv
        <5> QED
          BY <2>1, <3>2, <5>1 DEF PlPlaces
      <4>2. plItems[s][k] \in PlItem /\ plItems[s][k].argv = <<"run", k>>
        BY <4>1, PlCounts DEF PlInv
      <4> QED
        BY <3>1, <4>1, <4>2 DEF PlItem
    <3> QED
      BY <3>2, <3>3
  <2>3. ASSUME NEW i \in PlApproved("A", PlTails) PROVE plItems["A"][i].argv[2] = PlCorpus
    <3>1. "A" \in PlSessions
      BY DEF PlSessions
    <3>2. /\ i \in (PlCorpus + 1)..Len(plItems["A"]) /\ Len(plItems["A"]) \in Nat
      BY <2>3, <3>1, PlCounts DEF PlInv
    <3>3. i \in 1..Len(plItems["A"]) /\ i > PlCorpus
      BY <2>1, <3>2
    <3>4. plItems["A"][i].argv = <<"tail", PlCorpus>>
      BY <3>1, <3>3, PlCounts DEF PlInv
    <3> QED
      BY <3>4
  <2> QED
    BY <2>2, <2>3 DEF ApprovalsProveTheCorpus, PlInv, PlLogged
<1> QED
  BY <1>1, PlInvariance, PTL

(* The values the state of a pilot takes.                                  *)
THEOREM PlTyping == PlSpec => []PlTypeOK
<1>1. PlInv => PlTypeOK
  <2> SUFFICES ASSUME PlInv PROVE PlTypeOK
    OBVIOUS
  <2>1. ASSUME NEW s \in PlSessions, NEW i \in DOMAIN plItems[s]
        PROVE  plItems[s][i].state \in {"approved", "ran", "failed", "completed"}
    <3>1. plItems[s] \in Seq(PlItem)
      BY DEF PlInv, PlTypes
    <3>2. plItems[s][i] \in PlItem
      BY <2>1, <3>1
    <3> QED
      BY <3>2 DEF PlItem
  <2> QED
    BY <2>1 DEF PlInv, PlTypes, PlTypeOK
<1> QED
  BY <1>1, PlInvariance, PTL

-----------------------------------------------------------------------------
(* The launch.                                                             *)

LhNames == 0..LhArms - 1

\* A plan: every group has each arm once, the groups have no session in
\* common and together they have them all.
LhSound(plan) ==
    /\ plan \in Seq(Seq(LhSessions)) /\ plan # <<>>
    /\ \A g \in DOMAIN plan :
           /\ Len(plan[g]) = LhArms
           /\ \A a \in LhNames : \E i \in 1..LhArms : plan[g][i][3] = a
           /\ \A i, j \in 1..LhArms : plan[g][i][3] = plan[g][j][3] => i = j
    /\ \A g, h \in DOMAIN plan : \A s \in Range(plan[g]) : s \in Range(plan[h]) => g = h
    /\ \A s \in LhSessions : \E g \in DOMAIN plan : s \in Range(plan[g])

\* No thread of the group has left the barrier; all of them have.
LhHeld == \A a \in LhNames : lhThread[a] \in {"none", "started", "waiting"}
LhGone == \A a \in LhNames : lhThread[a] \in {"open", "running", "ended"}
LhOver == \A a \in LhNames : lhThread[a] = "ended"

LhParked ==
    /\ lhPhase \in {"plan", "resolve", "start", "wait"} => LhHeld
    /\ lhPhase = "join" => LhGone
    /\ lhPhase = "returned" => LhOver
    /\ lhPhase = "raised" => LhHeld \/ LhOver
    /\ lhArrived = {a \in LhNames : lhThread[a] = "waiting"}
                       \cup (IF lhPhase = "wait" THEN {LhCoordinator} ELSE {})
    /\ lhPhase \in {"plan", "resolve"} => lhThread = LhNoThreads /\ lhStarted = 0
    /\ lhPhase = "wait" => \A a \in LhNames : lhThread[a] # "none"
    /\ lhPhase = "start" => \A a \in LhNames : lhThread[a] # "none" <=>
           \E i \in 1..lhStarted : lhPlan[lhAt][i][3] = a

LhPlaced ==
    /\ lhPhase = "plan" => lhPlan = <<>>
    /\ lhPhase \notin {"plan", "raised"} => LhSound(lhPlan)
    /\ lhPhase \in {"plan", "resolve"} => lhAt = 0
    /\ lhPhase \in {"start", "wait", "join", "returned"} => lhAt \in DOMAIN lhPlan
    /\ lhPlan = <<>> \/ LhSound(lhPlan)
    /\ lhThread # LhNoThreads => lhAt \in DOMAIN lhPlan

LhKept ==
    /\ \A s \in lhBegun : \E g \in 1..lhAt : s \in Range(lhPlan[g])
    /\ \A g \in 1..lhAt - 1 : Range(lhPlan[g]) \subseteq lhResults
    /\ \A s \in lhLive : \E a \in LhNames : lhThread[a] = "running" /\ s = LhSession(a)
    /\ lhPhase = "join" => \A a \in LhNames :
           lhThread[a] = "ended" => LhSession(a) \in lhResults \cup lhErrors
    /\ lhPhase = "returned" => lhResults = LhSessions

LhInv == LhTypeOK /\ LhParked /\ LhPlaced /\ LhKept

-----------------------------------------------------------------------------
LEMMA LhDivides ==
    ASSUME NEW d \in Nat \ {0}, NEW n \in Nat
    PROVE  n \div d \in Nat /\ n % d \in 0..d - 1 /\ n = d * (n \div d) + (n % d)
<1>1. n \div d \in Int /\ n % d \in 0..d - 1
  OBVIOUS
<1>2. n = d * (n \div d) + (n % d)
  OBVIOUS
<1>3. n \div d >= 0
  BY <1>1, <1>2
<1> QED
  BY <1>1, <1>2, <1>3

LEMMA LhSteps == ASSUME NEW a \in Nat, NEW b \in Nat, a < b, NEW d \in Nat PROVE d * b >= d * a + d
<1>1. PICK c \in Nat : b = a + 1 + c
  <2>1. b - a - 1 \in Nat /\ b = a + 1 + (b - a - 1)
    OBVIOUS
  <2> QED
    BY <2>1
<1>2. d * b = d * a + d + d * c /\ d * c \in Nat /\ d * a \in Nat
  BY <1>1
<1> QED
  BY <1>2

(* Quotient and remainder are the only ones.                               *)
LEMMA LhUnique ==
    ASSUME NEW d \in Nat \ {0}, NEW p \in Nat, NEW q \in Nat, NEW r \in 0..d - 1,
           NEW s \in 0..d - 1, d * p + r = d * q + s
    PROVE  p = q /\ r = s
<1>1. d * p \in Nat /\ d * q \in Nat
  OBVIOUS
<1>2. ~(p < q)
  <2>1. p < q => d * q >= d * p + d
    BY LhSteps
  <2> QED
    BY <1>1, <2>1
<1>3. ~(q < p)
  <2>1. q < p => d * p >= d * q + d
    BY LhSteps
  <2> QED
    BY <1>1, <2>1
<1>4. p = q
  BY <1>2, <1>3
<1> QED
  BY <1>1, <1>4

(* The place of an arm in a rotated order.                                 *)
LEMMA LhRotated ==
    ASSUME NEW r \in LhNames, NEW i \in 1..LhArms
    PROVE  (r + i - 1) % LhArms = IF r + i - 1 < LhArms THEN r + i - 1 ELSE r + i - 1 - LhArms
<1> DEFINE n == r + i - 1
<1>1. LhArms \in Nat \ {0} /\ n \in Nat /\ n < LhArms + LhArms
  BY LhConstants DEF LhNames
<1> HIDE DEF n
<1>2. n \div LhArms \in Nat /\ n % LhArms \in 0..LhArms - 1
      /\ n = LhArms * (n \div LhArms) + (n % LhArms)
  BY <1>1, LhDivides
<1>3. CASE n < LhArms
  <2>1. n \in 0..LhArms - 1 /\ LhArms * 0 + n = n
    BY <1>1, <1>3
  <2>2. n % LhArms = n
    BY <1>1, <1>2, <2>1, LhUnique
  <2> QED
    BY <1>3, <2>2 DEF n
<1>4. CASE ~(n < LhArms)
  <2>1. n - LhArms \in 0..LhArms - 1 /\ LhArms * 1 + (n - LhArms) = n
    BY <1>1, <1>4
  <2>2. n % LhArms = n - LhArms
    BY <1>1, <1>2, <2>1, LhUnique
  <2>3. r \in Int /\ i \in Int /\ LhArms \in Int
    BY LhConstants DEF LhNames
  <2> QED
    BY <1>4, <2>2, <2>3 DEF n
<1> QED
  BY <1>3, <1>4

(* plan_sessions: every scenario and replicate has a group, every group    *)
(* has each arm once.                                                      *)
LEMMA LhPlannedSound == ASSUME NEW seed \in LhSeeds PROVE LhSound(LhPlanned(seed))
<1> DEFINE Groups == 1..LhScenarios * LhReplicates
           q(g) == (g - 1) \div LhReplicates
           r(g) == (g - 1) % LhReplicates
           rot(g) == (seed + ((q(g) + 1) - 1) + ((r(g) + 1) - 1)) % LhArms
           arm(g, i) == (rot(g) + i - 1) % LhArms
           plan == LhPlanned(seed)
<1>1. /\ LhScenarios \in Nat \ {0} /\ LhArms \in Nat \ {0} /\ LhReplicates \in Nat \ {0}
      /\ seed \in Nat /\ LhScenarios * LhReplicates \in Nat /\ LhScenarios * LhReplicates >= 1
  <2>1. LhScenarios \in Nat \ {0} /\ LhArms \in Nat \ {0} /\ LhReplicates \in Nat \ {0}
        /\ seed \in Nat
    BY LhConstants
  <2>2. LhReplicates * LhScenarios >= LhReplicates * 0 + LhReplicates
    BY <2>1, LhSteps
  <2> QED
    BY <2>1, <2>2
<1>2. /\ plan = [g \in Groups |-> LhOrder(q(g) + 1, r(g) + 1, seed)]
      /\ \A g \in Groups : plan[g] = [i \in 1..LhArms |-> <<q(g) + 1, r(g) + 1, arm(g, i)>>]
  BY DEF LhPlanned, LhOrder
<1>3. ASSUME NEW g \in Groups
      PROVE  /\ q(g) \in 0..LhScenarios - 1 /\ r(g) \in 0..LhReplicates - 1
             /\ g - 1 = LhReplicates * q(g) + r(g) /\ rot(g) \in LhNames
  <2>1. g - 1 \in Nat /\ g - 1 < LhScenarios * LhReplicates
    BY <1>1
  <2>2. q(g) \in Nat /\ r(g) \in 0..LhReplicates - 1 /\ g - 1 = LhReplicates * q(g) + r(g)
    BY <1>1, <2>1, LhDivides
  <2> HIDE DEF q, r
  <2>3. q(g) < LhScenarios
    <3>1. LhScenarios < q(g) => LhReplicates * q(g) >= LhReplicates * LhScenarios + LhReplicates
      BY <1>1, <2>2, LhSteps
    <3>2. LhReplicates * LhScenarios = LhScenarios * LhReplicates
      BY <1>1
    <3>3. LhScenarios = q(g) => LhReplicates * q(g) = LhReplicates * LhScenarios
      OBVIOUS
    <3>4. LhReplicates * q(g) \in Nat
      BY <1>1, <2>2
    <3> QED
      BY <1>1, <2>1, <2>2, <3>1, <3>2, <3>3, <3>4
  <2>4. seed + ((q(g) + 1) - 1) + ((r(g) + 1) - 1) \in Nat
    BY <1>1, <2>2
  <2>5. rot(g) \in LhNames
    BY <1>1, <2>4, LhDivides DEF LhNames
  <2> QED
    BY <1>1, <2>2, <2>3, <2>5
<1> HIDE DEF q, r, rot
<1>4. ASSUME NEW g \in Groups, NEW i \in 1..LhArms
      PROVE  /\ arm(g, i) = IF rot(g) + i - 1 < LhArms THEN rot(g) + i - 1
                                                      ELSE rot(g) + i - 1 - LhArms
             /\ arm(g, i) \in LhNames
  <2>1. arm(g, i) = IF rot(g) + i - 1 < LhArms THEN rot(g) + i - 1 ELSE rot(g) + i - 1 - LhArms
    BY <1>3, LhRotated
  <2>2. rot(g) \in 0..LhArms - 1
    BY <1>3 DEF LhNames
  <2> HIDE DEF arm
  <2> QED
    BY <1>1, <2>1, <2>2 DEF LhNames
<1> HIDE DEF arm, plan, Groups
<1>5. ASSUME NEW g \in Groups
      PROVE  /\ plan[g] \in Seq(LhSessions) /\ Len(plan[g]) = LhArms
             /\ \A i \in 1..LhArms : plan[g][i] = <<q(g) + 1, r(g) + 1, arm(g, i)>>
             /\ Range(plan[g]) = {plan[g][i] : i \in 1..LhArms}
  <2>1. ASSUME NEW i \in 1..LhArms PROVE <<q(g) + 1, r(g) + 1, arm(g, i)>> \in LhSessions
    <3>1. q(g) + 1 \in 1..LhScenarios /\ r(g) + 1 \in 1..LhReplicates /\ arm(g, i) \in LhNames
      BY <1>1, <1>3, <1>4
    <3> QED
      BY <3>1 DEF LhSessions, LhNames
  <2>2. plan[g] \in [1..LhArms -> LhSessions] /\ DOMAIN plan[g] = 1..LhArms
    BY <1>2, <2>1
  <2>3. plan[g] \in Seq(LhSessions) /\ Len(plan[g]) = LhArms
    BY <1>1, <2>2
  <2>4. \A i \in 1..LhArms : plan[g][i] = <<q(g) + 1, r(g) + 1, arm(g, i)>>
    BY <1>2
  <2>5. Range(plan[g]) = {plan[g][i] : i \in 1..LhArms}
    BY <2>2 DEF Range
  <2> QED
    BY <2>3, <2>4, <2>5
<1>6. plan \in Seq(Seq(LhSessions)) /\ DOMAIN plan = Groups /\ plan # <<>>
  <2>1. plan \in [Groups -> Seq(LhSessions)]
    BY <1>2, <1>5
  <2>2. 1 \in Groups
    BY <1>1 DEF Groups
  <2> QED
    BY <1>1, <2>1, <2>2 DEF Groups
<1>7. ASSUME NEW g \in Groups, NEW a \in LhNames PROVE \E i \in 1..LhArms : plan[g][i][3] = a
  <2>1. rot(g) \in 0..LhArms - 1 /\ a \in 0..LhArms - 1
    BY <1>3 DEF LhNames
  <2>2. PICK i \in 1..LhArms : arm(g, i) = a
    <3>1. CASE rot(g) <= a
      <4>1. a - rot(g) + 1 \in 1..LhArms /\ rot(g) + (a - rot(g) + 1) - 1 = a /\ a < LhArms
        BY <1>1, <2>1, <3>1
      <4> QED
        BY <1>4, <4>1
    <3>2. CASE ~(rot(g) <= a)
      <4>1. /\ a - rot(g) + 1 + LhArms \in 1..LhArms
            /\ rot(g) + (a - rot(g) + 1 + LhArms) - 1 = a + LhArms
            /\ ~(a + LhArms < LhArms) /\ a + LhArms - LhArms = a
        BY <1>1, <2>1, <3>2
      <4>2. arm(g, a - rot(g) + 1 + LhArms) = a
        BY <1>1, <1>4, <2>1, <4>1
      <4> QED
        BY <4>1, <4>2
    <3> QED
      BY <3>1, <3>2
  <2> QED
    BY <1>5, <2>2
<1>8. ASSUME NEW g \in Groups, NEW i \in 1..LhArms, NEW j \in 1..LhArms,
             plan[g][i][3] = plan[g][j][3]
      PROVE  i = j
  <2>1. rot(g) \in 0..LhArms - 1 /\ arm(g, i) = arm(g, j)
    BY <1>3, <1>5, <1>8 DEF LhNames
  <2> QED
    BY <1>1, <1>4, <2>1
<1>9. ASSUME NEW g \in Groups, NEW h \in Groups, NEW s \in Range(plan[g]), s \in Range(plan[h])
      PROVE  g = h
  <2>0. Range(plan[g]) = {plan[g][i] : i \in 1..LhArms} /\ Range(plan[h]) = {plan[h][i] : i \in 1..LhArms}
    BY <1>5
  <2>1. PICK i \in 1..LhArms : s = plan[g][i]
    BY <2>0
  <2>5. PICK j \in 1..LhArms : s = plan[h][j]
    BY <2>0, <1>9
  <2>6. s = <<q(g) + 1, r(g) + 1, arm(g, i)>> /\ s = <<q(h) + 1, r(h) + 1, arm(h, j)>>
    BY <1>5, <2>1, <2>5
  <2>2. q(g) + 1 = q(h) + 1 /\ r(g) + 1 = r(h) + 1
    BY <2>6
  <2>3. q(g) = q(h) /\ r(g) = r(h)
    BY <1>1, <1>3, <2>2
  <2>4. g - 1 = h - 1
    BY <1>3, <2>3
  <2> QED
    BY <1>1, <2>4 DEF Groups
<1>10. ASSUME NEW s \in LhSessions PROVE \E g \in Groups : s \in Range(plan[g])
  <2>1. /\ s[1] \in 1..LhScenarios /\ s[2] \in 1..LhReplicates /\ s[3] \in LhNames
        /\ s = <<s[1], s[2], s[3]>>
    BY DEF LhSessions, LhNames
  <2> DEFINE g == LhReplicates * (s[1] - 1) + s[2]
  <2>2. g \in Groups
    <3>1. s[1] - 1 < LhScenarios /\ s[1] - 1 \in Nat
      BY <1>1, <2>1
    <3>2. LhReplicates * LhScenarios >= LhReplicates * (s[1] - 1) + LhReplicates
      BY <1>1, <3>1, LhSteps
    <3>3. LhReplicates * (s[1] - 1) \in Nat /\ LhReplicates * LhScenarios = LhScenarios * LhReplicates
      BY <1>1, <3>1
    <3> QED
      BY <1>1, <2>1, <3>2, <3>3 DEF Groups
  <2>3. LhReplicates * (s[1] - 1) + (s[2] - 1) = g - 1 /\ s[1] - 1 \in Nat
        /\ s[2] - 1 \in 0..LhReplicates - 1
    <3>1. LhReplicates * (s[1] - 1) \in Int
      BY <1>1, <2>1
    <3> QED
      BY <1>1, <2>1, <3>1
  <2> HIDE DEF g
  <2>4. q(g) = s[1] - 1 /\ r(g) = s[2] - 1
    <3>1. q(g) \in Nat /\ r(g) \in 0..LhReplicates - 1 /\ g - 1 = LhReplicates * q(g) + r(g)
      BY <1>1, <1>3, <2>2
    <3> DEFINE Q == q(g)
               R == r(g)
               u == s[1] - 1
               v == s[2] - 1
    <3>2. /\ Q \in Nat /\ R \in 0..LhReplicates - 1 /\ u \in Nat /\ v \in 0..LhReplicates - 1
          /\ LhReplicates \in Nat \ {0} /\ LhReplicates * Q + R = LhReplicates * u + v
      BY <1>1, <2>3, <3>1
    <3> HIDE DEF Q, R, u, v
    <3>3. Q = u /\ R = v
      BY <3>2, LhUnique
    <3> QED
      BY <3>3 DEF Q, R, u, v
  <2>5. PICK i \in 1..LhArms : plan[g][i][3] = s[3]
    BY <1>7, <2>1, <2>2
  <2>6. plan[g][i] = s
    <3>1. q(g) + 1 = s[1] /\ r(g) + 1 = s[2]
      BY <1>1, <2>1, <2>4
    <3>2. plan[g][i] = <<s[1], s[2], arm(g, i)>> /\ arm(g, i) = s[3]
      BY <1>5, <2>2, <2>5, <3>1
    <3> QED
      BY <2>1, <3>2
  <2> QED
    BY <1>5, <2>2, <2>6
<1> QED
  BY <1>5, <1>6, <1>7, <1>8, <1>9, <1>10 DEF LhSound, plan

-----------------------------------------------------------------------------
(* A start group has a session for every arm, and LhSession finds it.      *)
LEMMA LhGroupFacts ==
    ASSUME LhSound(lhPlan), lhAt \in DOMAIN lhPlan
    PROVE  /\ Len(LhGroup) = LhArms /\ LhMembers = LhNames
           /\ \A i \in 1..LhArms : LhGroup[i][3] \in LhNames
           /\ \A a \in LhNames : LhSession(a) \in LhSessions /\ LhSession(a) \in Range(LhGroup)
           /\ \A s \in Range(LhGroup) : s[3] \in LhNames /\ s = LhSession(s[3])
<1>1. /\ LhGroup \in Seq(LhSessions) /\ Len(LhGroup) = LhArms
      /\ \A a \in LhNames : \E i \in 1..LhArms : LhGroup[i][3] = a
      /\ \A i, j \in 1..LhArms : LhGroup[i][3] = LhGroup[j][3] => i = j
  BY DEF LhSound, LhGroup
<1> HIDE DEF LhGroup
<1>2. DOMAIN LhGroup = 1..LhArms /\ \A i \in 1..LhArms : LhGroup[i] \in LhSessions
  BY <1>1, LhConstants
<1>3. \A s \in LhSessions : s[3] \in LhNames
  BY DEF LhSessions, LhNames
<1>4. Range(LhGroup) = {LhGroup[i] : i \in 1..LhArms}
  BY <1>2 DEF Range
<1>5. LhMembers = LhNames
  BY <1>1, <1>2, <1>3 DEF LhMembers
<1>6. ASSUME NEW a \in LhNames
      PROVE  LhSession(a) \in LhSessions /\ LhSession(a) \in Range(LhGroup) /\ LhSession(a)[3] = a
  <2>1. \E s \in LhSessions : s[3] = a /\ s \in Range(LhGroup)
    BY <1>1, <1>2, <1>4
  <2> QED
    BY <2>1 DEF LhSession
<1>7. ASSUME NEW s \in Range(LhGroup) PROVE s[3] \in LhNames /\ s = LhSession(s[3])
  <2>1. PICK i \in 1..LhArms : s = LhGroup[i]
    BY <1>4
  <2>2. s[3] \in LhNames
    BY <1>2, <1>3, <2>1
  <2>3. PICK j \in 1..LhArms : LhSession(s[3]) = LhGroup[j]
    BY <1>4, <1>6, <2>2
  <2>4. LhGroup[i][3] = LhGroup[j][3]
    BY <1>6, <2>1, <2>2, <2>3
  <2> QED
    BY <1>1, <2>1, <2>2, <2>3, <2>4
<1> QED
  BY <1>1, <1>2, <1>3, <1>5, <1>6, <1>7

(* threading.Barrier: the number of parties is reached by all of them.     *)
LEMMA LhBarrierFull ==
    ASSUME NEW S \in SUBSET (0..LhCoordinator)
    PROVE  Cardinality(S) = LhArms + 1 <=> S = 0..LhCoordinator
<1>1. LhArms \in Nat \ {0}
  BY LhConstants
<1>2. IsFiniteSet(0..LhCoordinator) /\ Cardinality(0..LhCoordinator) = LhArms + 1
  BY <1>1, FS_Interval DEF LhCoordinator
<1> QED
  BY <1>2, FS_Subset

LEMMA LhInitInv == LhInit => LhInv
<1> SUFFICES ASSUME LhInit PROVE LhInv
  OBVIOUS
<1>1. LhArms \in Nat \ {0} /\ Len(<<>>) = 0
  BY LhConstants
<1>2. LhTypeOK
  BY <1>1 DEF LhInit, LhTypeOK, LhNoThreads
<1>3. LhParked
  BY <1>1 DEF LhInit, LhParked, LhHeld, LhNoThreads, LhNames
<1>4. LhPlaced
  BY DEF LhInit, LhPlaced
<1>5. LhKept
  BY DEF LhInit, LhKept
<1> QED
  BY <1>2, <1>3, <1>4, <1>5 DEF LhInv

(* plan_sessions makes a sound plan or raises.                             *)
LEMMA LhMakePlanInv == LhInv /\ LhMakePlan => LhInv'
<1> SUFFICES ASSUME LhInv, LhMakePlan PROVE LhInv'
  OBVIOUS
<1>1. LhArms \in Nat \ {0}
  BY LhConstants
<1>2. /\ lhPhase = "plan" /\ lhPlan = <<>> /\ lhAt = 0 /\ lhThread = LhNoThreads
      /\ lhStarted = 0 /\ LhHeld /\ LhTypeOK /\ lhArrived = {a \in LhNames : lhThread[a] = "waiting"}
  BY DEF LhInv, LhMakePlan, LhParked, LhPlaced
<1>3. UNCHANGED <<lhAt, lhStarted, lhThread, lhArrived, lhBegun, lhLive, lhResults, lhErrors>>
  BY DEF LhMakePlan
<1>4. \/ lhPhase' = "resolve" /\ \E seed \in LhSeeds : lhPlan' = LhPlanned(seed)
      \/ lhPhase' = "raised" /\ lhPlan' = lhPlan
  <2>1. PICK bad \in {{}} \cup {{c} : c \in LhInputs}, seed \in LhSeeds,
             maxSessions \in {LhTotal - 1, LhTotal}, maxCredits \in {LhTotal - 1, LhTotal},
             maxConcurrent \in {LhArms - 1, LhArms} :
           IF LhAdmitted(bad, maxSessions, maxConcurrent, maxCredits)
           THEN lhPhase' = "resolve" /\ lhPlan' = LhPlanned(seed)
           ELSE lhPhase' = "raised" /\ UNCHANGED lhPlan
    BY Zenon DEF LhMakePlan
  <2> QED
    BY <2>1
<1>5. \/ lhPhase' = "resolve" /\ LhSound(lhPlan')
      \/ lhPhase' = "raised" /\ lhPlan' = <<>>
  BY <1>2, <1>4, LhPlannedSound
<1>6. lhPlan' \in Seq(Seq(LhSessions)) /\ 0 \in 0..Len(lhPlan')
  <2>1. lhPlan' \in Seq(Seq(LhSessions))
    BY <1>2, <1>5 DEF LhSound, LhTypeOK
  <2>2. Len(lhPlan') \in Nat
    BY <2>1
  <2> QED
    BY <2>1, <2>2
<1>7. LhTypeOK'
  BY <1>2, <1>3, <1>5, <1>6 DEF LhTypeOK
<1>8. LhParked'
  BY <1>2, <1>3, <1>5 DEF LhParked, LhHeld
<1>9. LhPlaced'
  BY <1>2, <1>3, <1>5 DEF LhPlaced, LhSound
<1>10. LhKept'
  <2>1. lhBegun = {} /\ lhLive = {}
    BY <1>1, <1>2 DEF LhInv, LhKept, LhNoThreads, LhNames
  <2>2. 1..lhAt' - 1 = {}
    BY <1>2, <1>3
  <2> QED
    BY <1>3, <1>5, <2>1, <2>2 DEF LhKept
<1> QED
  BY <1>7, <1>8, <1>9, <1>10 DEF LhInv

(* Every scenario is resolved before the first group.                      *)
LEMMA LhResolveInv == LhInv /\ LhResolve => LhInv'
<1> SUFFICES ASSUME LhInv, LhResolve PROVE LhInv'
  OBVIOUS
<1>1. LhArms \in Nat \ {0}
  BY LhConstants
<1>2. /\ lhPhase = "resolve" /\ LhSound(lhPlan) /\ lhAt = 0 /\ lhThread = LhNoThreads
      /\ lhStarted = 0 /\ LhHeld /\ LhTypeOK /\ lhArrived = {a \in LhNames : lhThread[a] = "waiting"}
  BY DEF LhInv, LhResolve, LhParked, LhPlaced
<1>3. UNCHANGED <<lhPlan, lhStarted, lhThread, lhArrived, lhBegun, lhLive, lhResults, lhErrors>>
  BY DEF LhResolve
<1>4. \/ lhPhase' = "start" /\ lhAt' = 1
      \/ lhPhase' = "raised" /\ lhAt' = 0
  <2>1. (lhPhase' = "start" /\ lhAt' = 1) \/ (lhPhase' = "raised" /\ UNCHANGED lhAt)
    BY DEF LhResolve
  <2> QED
    BY <1>2, <2>1
<1>5. 1 \in DOMAIN lhPlan /\ 1 \in 0..Len(lhPlan)
  BY <1>2 DEF LhSound
<1>6. \A a \in LhNames : lhThread[a] = "none"
  BY <1>2 DEF LhNoThreads, LhNames
<1>7. LhTypeOK'
  BY <1>2, <1>3, <1>4, <1>5 DEF LhTypeOK
<1>8. LhParked'
  BY <1>2, <1>3, <1>4, <1>6 DEF LhParked, LhHeld
<1>9. LhPlaced'
  BY <1>2, <1>3, <1>4, <1>5 DEF LhPlaced, LhSound
<1>10. LhKept'
  <2>1. lhBegun = {} /\ lhLive = {}
    BY <1>1, <1>2, <1>6 DEF LhInv, LhKept
  <2>2. 1..lhAt' - 1 = {}
    BY <1>4
  <2> QED
    BY <1>3, <1>4, <2>1, <2>2 DEF LhKept
<1> QED
  BY <1>7, <1>8, <1>9, <1>10 DEF LhInv

(* What holds while a group is under way.                                  *)
LEMMA LhUnderWay ==
    ASSUME LhInv, lhAt \in DOMAIN lhPlan
    PROVE  /\ LhSound(lhPlan) /\ Len(LhGroup) = LhArms /\ LhMembers = LhNames
           /\ \A i \in 1..LhArms : LhGroup[i][3] \in LhNames
           /\ \A a \in LhNames : LhSession(a) \in LhSessions /\ LhSession(a) \in Range(LhGroup)
           /\ \A s \in Range(LhGroup) : s[3] \in LhNames /\ s = LhSession(s[3])
           /\ lhAt \in 1..Len(lhPlan) /\ LhArms \in Nat \ {0} /\ LhTypeOK
           /\ lhThread \in [LhNames -> {"none", "started", "waiting", "open", "running", "ended"}]
<1>1. lhPlan # <<>>
  OBVIOUS
<1>2. LhSound(lhPlan)
  BY <1>1 DEF LhInv, LhPlaced
<1>3. lhAt \in 1..Len(lhPlan)
  BY DEF LhInv, LhTypeOK
<1>4. LhArms \in Nat \ {0} /\ LhTypeOK
  BY LhConstants DEF LhInv
<1>5. lhThread \in [LhNames -> {"none", "started", "waiting", "open", "running", "ended"}]
  BY <1>4 DEF LhTypeOK, LhNames
<1> QED
  BY <1>2, <1>3, <1>4, <1>5, LhGroupFacts

(* thread.start() of the next session in order, or its failure.            *)
LEMMA LhStartThreadInv == LhInv /\ LhStartThread => LhInv'
<1> SUFFICES ASSUME LhInv, LhStartThread PROVE LhInv'
  OBVIOUS
<1>1. /\ lhPhase = "start" /\ lhStarted < Len(LhGroup) /\ LhHeld /\ lhAt \in DOMAIN lhPlan
      /\ lhArrived = {a \in LhNames : lhThread[a] = "waiting"}
      /\ \A a \in LhNames : lhThread[a] # "none" <=>
             \E i \in 1..lhStarted : lhPlan[lhAt][i][3] = a
  BY DEF LhInv, LhStartThread, LhParked, LhPlaced
<1>2. /\ LhSound(lhPlan) /\ Len(LhGroup) = LhArms /\ LhArms \in Nat \ {0} /\ LhTypeOK
      /\ \A i \in 1..LhArms : LhGroup[i][3] \in LhNames
      /\ lhThread \in [LhNames -> {"none", "started", "waiting", "open", "running", "ended"}]
      /\ \A i, j \in 1..LhArms : LhGroup[i][3] = LhGroup[j][3] => i = j
  BY <1>1, LhUnderWay DEF LhSound, LhGroup
<1>3. UNCHANGED <<lhPlan, lhAt, lhArrived, lhBegun, lhLive, lhResults, lhErrors>>
  BY DEF LhStartThread
<1> DEFINE next == LhGroup[lhStarted + 1][3]
<1>4. lhStarted \in 0..LhArms - 1 /\ next \in LhNames
  BY <1>1, <1>2 DEF LhTypeOK
<1>5. lhThread[next] = "none"
  <2>1. \A i \in 1..lhStarted : i \in 1..LhArms /\ lhStarted + 1 \in 1..LhArms /\ i # lhStarted + 1
    BY <1>2, <1>4
  <2>2. \A i \in 1..lhStarted : lhPlan[lhAt][i][3] # next
    BY <1>2, <2>1 DEF LhGroup
  <2> QED
    BY <1>1, <1>4, <2>2
<1>6. \A a \in LhNames : LhSession(a)' = LhSession(a)
  BY <1>3 DEF LhSession, LhGroup
<1>7. lhLive = {}
  BY <1>1 DEF LhInv, LhKept, LhHeld
<1>8. CASE lhStarted' = lhStarted + 1 /\ UNCHANGED lhPhase
           /\ lhThread' = [lhThread EXCEPT ![LhGroup[lhStarted + 1][3]] = "started"]
  <2> HIDE DEF next
  <2>1. lhThread' = [lhThread EXCEPT ![next] = "started"]
    BY <1>8 DEF next
  <2>2. \A a \in LhNames : lhThread'[a] = (IF a = next THEN "started" ELSE lhThread[a])
    BY <1>2, <2>1
  <2>3. lhThread' \in [LhNames -> {"none", "started", "waiting", "open", "running", "ended"}]
    BY <1>2, <1>4, <2>1
  <2>4. LhTypeOK'
    BY <1>2, <1>3, <1>4, <1>8, <2>3 DEF LhTypeOK, LhNames
  <2>5. LhParked'
    <3>1. LhHeld'
      BY <1>1, <2>2 DEF LhHeld
    <3>2. lhArrived' = {a \in LhNames : lhThread'[a] = "waiting"}
      BY <1>1, <1>3, <1>4, <1>5, <2>2
    <3>3. ASSUME NEW a \in LhNames
          PROVE  lhThread'[a] # "none" <=> \E i \in 1..lhStarted + 1 : lhPlan[lhAt][i][3] = a
      <4>1. lhPlan[lhAt][lhStarted + 1][3] = next
        BY DEF next, LhGroup
      <4>2. 1..lhStarted + 1 = (1..lhStarted) \cup {lhStarted + 1}
        BY <1>2, <1>4
      <4> QED
        BY <1>1, <2>2, <4>1, <4>2
    <3> QED
      BY <1>1, <1>3, <1>8, <3>1, <3>2, <3>3 DEF LhParked
  <2>6. LhPlaced'
    BY <1>1, <1>2, <1>3, <1>8 DEF LhPlaced
  <2>7. LhKept'
    BY <1>1, <1>3, <1>7, <1>8 DEF LhInv, LhKept
  <2> QED
    BY <2>4, <2>5, <2>6, <2>7 DEF LhInv
<1>9. CASE lhPhase' = "raised" /\ UNCHANGED <<lhStarted, lhThread>>
  <2>1. LhTypeOK'
    BY <1>2, <1>3, <1>9 DEF LhTypeOK
  <2>2. LhParked'
    BY <1>1, <1>3, <1>9 DEF LhParked, LhHeld
  <2>3. LhPlaced'
    BY <1>1, <1>2, <1>3, <1>9 DEF LhPlaced
  <2>4. LhKept'
    BY <1>1, <1>3, <1>7, <1>9 DEF LhInv, LhKept
  <2> QED
    BY <2>1, <2>2, <2>3, <2>4 DEF LhInv
<1> QED
  BY <1>8, <1>9 DEF LhStartThread

(* barrier.wait() by one more party of a group that is still held.         *)
LEMMA LhArriveInv ==
    ASSUME LhInv, LhHeld, lhAt \in DOMAIN lhPlan, lhPhase \in {"start", "wait", "raised"},
           NEW party \in 0..LhCoordinator, LhArrive(party),
           party = LhCoordinator => lhPhase = "start" /\ \A a \in LhNames : lhThread[a] # "none",
           party \in LhNames => lhThread[party] = "started",
           UNCHANGED <<lhPlan, lhAt, lhStarted, lhBegun, lhLive, lhResults, lhErrors>>
    PROVE  LhInv'
<1> DEFINE arrived == lhArrived \cup {party}
<1>1. /\ LhSound(lhPlan) /\ Len(LhGroup) = LhArms /\ LhArms \in Nat \ {0} /\ LhTypeOK
      /\ lhThread \in [LhNames -> {"none", "started", "waiting", "open", "running", "ended"}]
  BY LhUnderWay
<1>2. /\ LhCoordinator \notin LhNames /\ LhNames \subseteq 0..LhCoordinator
      /\ LhCoordinator \in 0..LhCoordinator /\ \A p \in 0..LhCoordinator : p \in LhNames \/ p = LhCoordinator
  BY <1>1 DEF LhNames, LhCoordinator
<1>3. arrived \in SUBSET (0..LhCoordinator) /\ LhParties = LhArms + 1
  BY <1>1 DEF LhTypeOK, LhParties
<1>4. lhLive = {}
  BY DEF LhInv, LhKept, LhHeld
<1>5. lhArrived = {a \in LhNames : lhThread[a] = "waiting"}
                     \cup (IF lhPhase = "wait" THEN {LhCoordinator} ELSE {})
  BY DEF LhInv, LhParked
<1>6. CASE Cardinality(arrived) = LhParties
  <2>1. arrived = 0..LhCoordinator
    BY <1>3, <1>6, LhBarrierFull
  <2>2. /\ lhArrived' = {} /\ lhPhase' = "join"
        /\ lhThread' = [a \in LhNames |-> "open"]
    <3>1. /\ lhArrived' = {}
          /\ lhThread' = [a \in DOMAIN lhThread |-> IF a \in arrived THEN "open" ELSE lhThread[a]]
          /\ lhPhase' = IF LhCoordinator \in arrived THEN "join" ELSE lhPhase
      BY <1>6 DEF LhArrive
    <3>2. DOMAIN lhThread = LhNames
      BY <1>1
    <3> HIDE DEF arrived
    <3> QED
      BY <1>2, <2>1, <3>1, <3>2
  <2>3. LhTypeOK'
    BY <1>1, <2>2 DEF LhTypeOK, LhNames
  <2>4. LhParked'
    BY <2>2 DEF LhParked, LhGone
  <2>5. LhPlaced'
    BY <1>1, <2>2 DEF LhPlaced
  <2>6. LhKept'
    BY <1>4, <2>2 DEF LhInv, LhKept
  <2> QED
    BY <2>3, <2>4, <2>5, <2>6 DEF LhInv
<1>7. CASE Cardinality(arrived) # LhParties
  <2>1. /\ lhArrived' = lhArrived \cup {party}
        /\ lhThread' = [a \in LhNames |-> IF a = party THEN "waiting" ELSE lhThread[a]]
        /\ lhPhase' = IF party = LhCoordinator THEN "wait" ELSE lhPhase
    <3>1. DOMAIN lhThread = LhNames
      BY <1>1
    <3> QED
      BY <1>7, <3>1 DEF LhArrive
  <2>2. \A a \in LhNames : lhThread'[a] = IF a = party THEN "waiting" ELSE lhThread[a]
    BY <2>1
  <2>3. LhTypeOK'
    <3>1. lhThread' \in [0..LhArms - 1 -> {"none", "started", "waiting", "open", "running", "ended"}]
      BY <1>1, <2>1 DEF LhNames
    <3>2. lhArrived' \subseteq 0..LhCoordinator
      BY <1>3, <2>1
    <3> QED
      BY <1>1, <2>1, <3>1, <3>2 DEF LhTypeOK
  <2>4. LhParked'
    <3>1. LhHeld'
      BY <2>2 DEF LhHeld
    <3>2. lhArrived' = {a \in LhNames : lhThread'[a] = "waiting"}
                           \cup (IF lhPhase' = "wait" THEN {LhCoordinator} ELSE {})
      <4>1. CASE party = LhCoordinator
        BY <1>2, <1>5, <2>1, <2>2, <4>1
      <4>2. CASE party \in LhNames
        BY <1>2, <1>5, <2>1, <2>2, <4>2
      <4> QED
        BY <1>2, <4>1, <4>2
    <3>3. lhPhase' = "wait" => \A a \in LhNames : lhThread'[a] # "none"
      BY <2>1, <2>2 DEF LhInv, LhParked
    <3>4. lhPhase' = "start" => \A a \in LhNames : lhThread'[a] # "none" <=>
             \E i \in 1..lhStarted : lhPlan[lhAt][i][3] = a
      BY <2>1, <2>2 DEF LhInv, LhParked
    <3>5. lhPhase' \in {"start", "wait", "raised"}
      BY <2>1
    <3> QED
      BY <3>1, <3>2, <3>3, <3>4, <3>5 DEF LhParked
  <2>5. LhPlaced'
    BY <1>1, <2>1 DEF LhPlaced
  <2>6. LhKept'
    BY <1>4, <2>1 DEF LhInv, LhKept
  <2> QED
    BY <2>3, <2>4, <2>5, <2>6 DEF LhInv
<1> QED
  BY <1>6, <1>7

LEMMA LhThreadArrivesInv ==
    ASSUME LhInv, NEW arm \in LhNames, LhThreadArrives(arm) PROVE LhInv'
<1>1. lhThread[arm] = "started" /\ LhArrive(arm)
      /\ UNCHANGED <<lhPlan, lhAt, lhStarted, lhBegun, lhLive, lhResults, lhErrors>>
  BY DEF LhThreadArrives
<1>2. lhAt \in DOMAIN lhPlan /\ lhPhase \notin {"plan", "resolve"}
  BY <1>1 DEF LhInv, LhPlaced, LhParked, LhNoThreads, LhNames
<1>3. lhPhase \in {"start", "wait", "raised"} /\ LhHeld
  BY <1>1, <1>2 DEF LhInv, LhTypeOK, LhParked, LhGone, LhOver
<1>4. arm \in 0..LhCoordinator /\ arm # LhCoordinator
  BY LhConstants DEF LhNames, LhCoordinator
<1> QED
  BY <1>1, <1>2, <1>3, <1>4, LhArriveInv

LEMMA LhCoordinatorArrivesInv == LhInv /\ LhCoordinatorArrives => LhInv'
<1> SUFFICES ASSUME LhInv, LhCoordinatorArrives PROVE LhInv'
  OBVIOUS
<1>1. /\ lhPhase = "start" /\ lhStarted = Len(LhGroup) /\ LhArrive(LhCoordinator)
      /\ UNCHANGED <<lhPlan, lhAt, lhStarted, lhBegun, lhLive, lhResults, lhErrors>>
  BY DEF LhCoordinatorArrives
<1>2. lhAt \in DOMAIN lhPlan /\ LhHeld
  BY <1>1 DEF LhInv, LhPlaced, LhParked
<1>3. \A a \in LhNames : lhThread[a] # "none"
  <2>1. LhSound(lhPlan) /\ lhStarted = LhArms
    BY <1>1, <1>2, LhUnderWay
  <2>2. \A a \in LhNames : \E i \in 1..lhStarted : lhPlan[lhAt][i][3] = a
    BY <1>2, <2>1 DEF LhSound
  <2> QED
    BY <1>1, <2>2 DEF LhInv, LhParked
<1>4. LhCoordinator \in 0..LhCoordinator /\ LhCoordinator \notin LhNames
  BY LhConstants DEF LhNames, LhCoordinator
<1> QED
  BY <1>1, <1>2, <1>3, <1>4, LhArriveInv

(* A thread past the barrier: the coordinator is joining its group.        *)
LEMMA LhPast ==
    ASSUME LhInv, NEW arm \in LhNames, lhThread[arm] \in {"open", "running"}
    PROVE  lhAt \in DOMAIN lhPlan /\ lhPhase = "join" /\ LhGone /\ lhArrived = {}
<1>1. lhAt \in DOMAIN lhPlan
  BY DEF LhInv, LhPlaced, LhNoThreads, LhNames
<1>2. ~LhHeld /\ ~LhOver
  BY DEF LhHeld, LhOver
<1>3. lhPhase = "join" /\ LhGone
  BY <1>2 DEF LhInv, LhTypeOK, LhParked
<1> QED
  BY <1>1, <1>3 DEF LhInv, LhParked, LhGone

LEMMA LhMaterializeInv == ASSUME LhInv, NEW arm \in LhNames, LhMaterialize(arm) PROVE LhInv'
<1> DEFINE session == LhSession(arm)
<1>1. /\ lhThread[arm] = "open" /\ lhBegun' = lhBegun \cup {session}
      /\ UNCHANGED <<lhPhase, lhPlan, lhAt, lhStarted, lhArrived, lhResults>>
  BY DEF LhMaterialize
<1>2. lhAt \in DOMAIN lhPlan /\ lhPhase = "join" /\ LhGone /\ lhArrived = {}
  BY <1>1, LhPast
<1>3. /\ session \in LhSessions /\ session \in Range(lhPlan[lhAt]) /\ LhTypeOK /\ LhSound(lhPlan)
      /\ lhAt \in 1..Len(lhPlan)
      /\ lhThread \in [LhNames -> {"none", "started", "waiting", "open", "running", "ended"}]
  BY <1>2, LhUnderWay DEF LhGroup
<1>4. PICK to \in {"running", "ended"} :
         /\ lhThread' = [lhThread EXCEPT ![arm] = to]
         /\ lhLive' = IF to = "running" THEN lhLive \cup {session} ELSE lhLive
         /\ lhErrors' = IF to = "ended" THEN lhErrors \cup {session} ELSE lhErrors
  BY DEF LhMaterialize
<1>5. \A a \in LhNames : LhSession(a)' = LhSession(a)
  BY <1>1 DEF LhSession, LhGroup
<1>6. \A a \in LhNames : lhThread'[a] = IF a = arm THEN to ELSE lhThread[a]
  BY <1>3, <1>4
<1> HIDE DEF session
<1>7. LhTypeOK'
  <2>1. lhThread' \in [0..LhArms - 1 -> {"none", "started", "waiting", "open", "running", "ended"}]
    BY <1>3, <1>4 DEF LhNames
  <2>2. lhBegun' \subseteq LhSessions /\ lhLive' \subseteq LhSessions /\ lhErrors' \subseteq LhSessions
    BY <1>1, <1>3, <1>4 DEF LhTypeOK
  <2> QED
    BY <1>1, <1>3, <2>1, <2>2 DEF LhTypeOK
<1>8. LhParked'
  <2>1. LhGone' /\ \A a \in LhNames : lhThread'[a] # "waiting"
    BY <1>2, <1>6 DEF LhGone
  <2> QED
    BY <1>1, <1>2, <2>1 DEF LhParked
<1>9. LhPlaced'
  BY <1>1, <1>2, <1>3 DEF LhPlaced
<1>10. LhKept'
  <2>1. \A s \in lhBegun' : \E g \in 1..lhAt : s \in Range(lhPlan[g])
    <3>1. lhAt \in 1..lhAt
      BY <1>3
    <3> QED
      BY <1>1, <1>3, <3>1 DEF LhInv, LhKept
  <2>2. \A s \in lhLive' : \E a \in LhNames : lhThread'[a] = "running" /\ s = LhSession(a)
    <3>1. ASSUME NEW s \in lhLive PROVE \E a \in LhNames : lhThread'[a] = "running" /\ s = LhSession(a)
      <4>1. PICK a \in LhNames : lhThread[a] = "running" /\ s = LhSession(a)
        BY <3>1 DEF LhInv, LhKept
      <4> QED
        BY <1>1, <1>6, <4>1
    <3>2. to = "running" => lhThread'[arm] = "running" /\ session = LhSession(arm)
      BY <1>6 DEF session
    <3> QED
      BY <1>4, <3>1, <3>2
  <2>3. \A a \in LhNames : lhThread'[a] = "ended" => LhSession(a) \in lhResults' \cup lhErrors'
    BY <1>1, <1>2, <1>4, <1>6 DEF LhInv, LhKept, session
  <2> QED
    BY <1>1, <1>2, <1>5, <2>1, <2>2, <2>3 DEF LhInv, LhKept
<1> QED
  BY <1>7, <1>8, <1>9, <1>10 DEF LhInv

LEMMA LhRunInv == ASSUME LhInv, NEW arm \in LhNames, LhRun(arm) PROVE LhInv'
<1> DEFINE session == LhSession(arm)
<1>1. /\ lhThread[arm] = "running" /\ lhLive' = lhLive \ {session}
      /\ lhThread' = [lhThread EXCEPT ![arm] = "ended"]
      /\ UNCHANGED <<lhPhase, lhPlan, lhAt, lhStarted, lhArrived, lhBegun>>
  BY DEF LhRun
<1>2. lhAt \in DOMAIN lhPlan /\ lhPhase = "join" /\ LhGone /\ lhArrived = {}
  BY <1>1, LhPast
<1>3. /\ session \in LhSessions /\ LhTypeOK /\ LhSound(lhPlan)
      /\ lhThread \in [LhNames -> {"none", "started", "waiting", "open", "running", "ended"}]
  BY <1>2, LhUnderWay
<1>4. /\ lhResults \subseteq lhResults' /\ lhErrors \subseteq lhErrors'
      /\ session \in lhResults' \cup lhErrors'
      /\ lhResults' \subseteq LhSessions /\ lhErrors' \subseteq LhSessions
  BY <1>3 DEF LhRun, LhTypeOK
<1>5. \A a \in LhNames : LhSession(a)' = LhSession(a)
  BY <1>1 DEF LhSession, LhGroup
<1>6. \A a \in LhNames : lhThread'[a] = IF a = arm THEN "ended" ELSE lhThread[a]
  BY <1>1, <1>3
<1> HIDE DEF session
<1>7. LhTypeOK'
  <2>1. lhThread' \in [0..LhArms - 1 -> {"none", "started", "waiting", "open", "running", "ended"}]
    BY <1>1, <1>3 DEF LhNames
  <2> QED
    BY <1>1, <1>3, <1>4, <2>1 DEF LhTypeOK
<1>8. LhParked'
  <2>1. LhGone' /\ \A a \in LhNames : lhThread'[a] # "waiting"
    BY <1>2, <1>6 DEF LhGone
  <2> QED
    BY <1>1, <1>2, <2>1 DEF LhParked
<1>9. LhPlaced'
  BY <1>1, <1>2, <1>3 DEF LhPlaced
<1>10. LhKept'
  <2>1. \A s \in lhLive' : \E a \in LhNames : lhThread'[a] = "running" /\ s = LhSession(a)
    <3>1. ASSUME NEW s \in lhLive'
          PROVE  \E a \in LhNames : lhThread'[a] = "running" /\ s = LhSession(a)
      <4>1. s \in lhLive /\ s # session
        BY <1>1
      <4>2. PICK a \in LhNames : lhThread[a] = "running" /\ s = LhSession(a)
        BY <4>1 DEF LhInv, LhKept
      <4> QED
        BY <1>6, <4>1, <4>2 DEF session
    <3> QED
      BY <3>1
  <2>2. \A a \in LhNames : lhThread'[a] = "ended" => LhSession(a) \in lhResults' \cup lhErrors'
    BY <1>2, <1>4, <1>6 DEF LhInv, LhKept, session
  <2>3. \A g \in 1..lhAt - 1 : Range(lhPlan[g]) \subseteq lhResults'
    BY <1>4 DEF LhInv, LhKept
  <2> QED
    BY <1>1, <1>2, <1>5, <2>1, <2>2, <2>3 DEF LhInv, LhKept
<1> QED
  BY <1>7, <1>8, <1>9, <1>10 DEF LhInv

(* Every thread of the group joined.                                       *)
LEMMA LhJoinInv == LhInv /\ LhJoin => LhInv'
<1> SUFFICES ASSUME LhInv, LhJoin PROVE LhInv'
  OBVIOUS
<1>1. /\ lhPhase = "join" /\ \A a \in LhMembers : lhThread[a] = "ended"
      /\ UNCHANGED <<lhPlan, lhArrived, lhBegun, lhLive, lhResults, lhErrors>>
  BY DEF LhJoin
<1>2. lhAt \in DOMAIN lhPlan
  BY <1>1 DEF LhInv, LhPlaced
<1>3. /\ LhSound(lhPlan) /\ LhMembers = LhNames /\ LhTypeOK /\ LhArms \in Nat \ {0}
      /\ \A s \in Range(lhPlan[lhAt]) : s[3] \in LhNames /\ s = LhSession(s[3])
      /\ lhAt \in 1..Len(lhPlan)
  BY <1>2, LhUnderWay DEF LhGroup
<1>4. \A a \in LhNames : lhThread[a] = "ended"
  BY <1>1, <1>3
<1>5. lhLive = {} /\ lhArrived = {}
  BY <1>1, <1>4 DEF LhInv, LhKept, LhParked
<1>6. lhErrors = {} => \A g \in 1..lhAt : Range(lhPlan[g]) \subseteq lhResults
  <2> SUFFICES ASSUME lhErrors = {}, NEW g \in 1..lhAt PROVE Range(lhPlan[g]) \subseteq lhResults
    OBVIOUS
  <2>1. g \in 1..lhAt - 1 \/ g = lhAt
    BY <1>3
  <2>2. Range(lhPlan[lhAt]) \subseteq lhResults
    BY <1>1, <1>3, <1>4 DEF LhInv, LhKept
  <2> QED
    BY <2>1, <2>2 DEF LhInv, LhKept
<1>7. CASE lhErrors # {} /\ lhPhase' = "raised" /\ UNCHANGED <<lhAt, lhStarted, lhThread>>
  <2>1. LhTypeOK'
    BY <1>1, <1>3, <1>7 DEF LhTypeOK
  <2>2. LhParked'
    BY <1>1, <1>4, <1>5, <1>7 DEF LhParked, LhOver
  <2>3. LhPlaced'
    BY <1>1, <1>2, <1>3, <1>7 DEF LhPlaced
  <2>4. LhKept'
    BY <1>1, <1>5, <1>7 DEF LhInv, LhKept
  <2> QED
    BY <2>1, <2>2, <2>3, <2>4 DEF LhInv
<1>8. CASE lhErrors = {} /\ lhAt = Len(lhPlan) /\ lhPhase' = "returned"
           /\ UNCHANGED <<lhAt, lhStarted, lhThread>>
  <2>1. LhTypeOK'
    BY <1>1, <1>3, <1>8 DEF LhTypeOK
  <2>2. LhParked'
    BY <1>1, <1>4, <1>5, <1>8 DEF LhParked, LhOver
  <2>3. LhPlaced'
    BY <1>1, <1>2, <1>3, <1>8 DEF LhPlaced
  <2>4. LhSessions \subseteq lhResults
    <3>1. DOMAIN lhPlan = 1..lhAt
      BY <1>3, <1>8 DEF LhTypeOK
    <3> QED
      BY <1>3, <1>6, <1>8, <3>1 DEF LhSound
  <2>5. LhKept'
    BY <1>1, <1>3, <1>5, <1>8, <2>4 DEF LhInv, LhKept, LhTypeOK
  <2> QED
    BY <2>1, <2>2, <2>3, <2>5 DEF LhInv
<1>9. CASE lhErrors = {} /\ lhAt < Len(lhPlan) /\ lhPhase' = "start" /\ lhAt' = lhAt + 1
           /\ lhStarted' = 0 /\ lhThread' = LhNoThreads
  <2>1. lhAt + 1 \in 0..Len(lhPlan) /\ lhAt + 1 \in DOMAIN lhPlan
    BY <1>3, <1>9 DEF LhTypeOK
  <2>2. \A a \in LhNames : lhThread'[a] = "none"
    BY <1>9 DEF LhNoThreads, LhNames
  <2>3. LhTypeOK'
    <3>1. LhNoThreads \in [0..LhArms - 1 -> {"none", "started", "waiting", "open", "running", "ended"}]
      BY DEF LhNoThreads
    <3>2. 0 \in 0..LhArms
      BY <1>3
    <3> QED
      BY <1>1, <1>3, <1>9, <2>1, <3>1, <3>2 DEF LhTypeOK
  <2>4. LhParked'
    <3>1. 1..lhStarted' = {}
      BY <1>9
    <3> QED
      BY <1>1, <1>5, <1>9, <2>2, <3>1 DEF LhParked, LhHeld
  <2>5. LhPlaced'
    BY <1>1, <1>3, <1>9, <2>1 DEF LhPlaced
  <2>6. LhKept'
    <3>1. 1..lhAt \subseteq 1..lhAt' /\ 1..lhAt' - 1 = 1..lhAt
      BY <1>3, <1>9
    <3>2. \A s \in lhBegun : \E g \in 1..lhAt' : s \in Range(lhPlan[g])
      BY <3>1 DEF LhInv, LhKept
    <3> QED
      BY <1>1, <1>5, <1>6, <1>9, <3>1, <3>2 DEF LhKept
  <2> QED
    BY <2>3, <2>4, <2>5, <2>6 DEF LhInv
<1> QED
  BY <1>7, <1>8, <1>9 DEF LhJoin

LEMMA LhStutterInv == LhInv /\ UNCHANGED lhVars => LhInv'
<1> SUFFICES ASSUME LhInv, UNCHANGED lhVars PROVE LhInv'
  OBVIOUS
<1>1. LhTypeOK' /\ LhPlaced'
  BY DEF LhInv, lhVars, LhTypeOK, LhPlaced
<1>2. LhParked'
  BY DEF LhInv, lhVars, LhParked, LhHeld, LhGone, LhOver
<1>3. \A a \in LhNames : LhSession(a)' = LhSession(a)
  BY DEF lhVars, LhSession, LhGroup
<1>4. LhKept'
  BY <1>3 DEF LhInv, lhVars, LhKept
<1> QED
  BY <1>1, <1>2, <1>4 DEF LhInv

(* The inductive invariant of the launcher: a plan in which every group    *)
(* has each arm once and the groups part the sessions; a barrier that      *)
(* holds exactly the waiting threads; and results for every group before   *)
(* the one under way.                                                      *)
THEOREM LhInvariance == LhSpec => []LhInv
<1>1. LhInv /\ [LhNext]_lhVars => LhInv'
  <2> SUFFICES ASSUME LhInv, [LhNext]_lhVars PROVE LhInv'
    OBVIOUS
  <2>1. CASE \E arm \in 0..LhArms - 1 : LhThreadArrives(arm) \/ LhMaterialize(arm) \/ LhRun(arm)
    BY <2>1, LhThreadArrivesInv, LhMaterializeInv, LhRunInv DEF LhNames
  <2> QED
    BY <2>1, LhMakePlanInv, LhResolveInv, LhStartThreadInv, LhCoordinatorArrivesInv, LhJoinInv,
       LhStutterInv DEF LhNext, LhReturned
<1> QED
  BY <1>1, LhInitInv, PTL DEF LhSpec

(* A matched launch, for every number of scenarios, arms and replicates    *)
(* (execute_plan and launch_with_handler): a session leaves the barrier    *)
(* with its whole group and after every earlier group succeeded, a launch  *)
(* returns with every result, and no scenario outlives it.                 *)
THEOREM LaunchIsMatched == LhSpec => []MatchedLaunch
<1>1. LhInv => MatchedLaunch
  <2> SUFFICES ASSUME LhInv PROVE MatchedLaunch
    OBVIOUS
  <2>1. /\ LhTypeOK /\ DOMAIN lhThread = LhNames /\ LhArms \in Nat \ {0}
        /\ lhThread \in [LhNames -> {"none", "started", "waiting", "open", "running", "ended"}]
    BY LhConstants DEF LhInv, LhTypeOK, LhNames
  <2>2. LhHeld \/ LhGone
    BY DEF LhInv, LhParked, LhTypeOK, LhOver, LhGone
  <2>3. \A a \in DOMAIN lhThread : lhThread[a] \in {"open", "running", "ended"} =>
           \A b \in DOMAIN lhThread : lhThread[b] \notin {"none", "started", "waiting"}
    BY <2>1, <2>2 DEF LhHeld, LhGone
  <2>4. ASSUME NEW s \in lhBegun, NEW g \in DOMAIN lhPlan, s \in Range(lhPlan[g])
        PROVE  g <= lhAt /\ \A h \in 1..g - 1 : Range(lhPlan[h]) \subseteq lhResults
    <3>1. LhSound(lhPlan) /\ lhPlan \in Seq(Seq(LhSessions)) /\ lhAt \in 0..Len(lhPlan)
      BY <2>1, <2>4 DEF LhInv, LhPlaced, LhTypeOK
    <3>2. PICK k \in 1..lhAt : s \in Range(lhPlan[k])
      BY <2>4 DEF LhInv, LhKept
    <3>3. k \in DOMAIN lhPlan
      BY <3>1, <3>2
    <3>4. g = k
      BY <2>4, <3>1, <3>2, <3>3 DEF LhSound
    <3>5. g <= lhAt /\ 1..g - 1 \subseteq 1..lhAt - 1
      BY <3>1, <3>2, <3>4
    <3> QED
      BY <3>5 DEF LhInv, LhKept
  <2>5. lhPhase \in {"returned", "raised"} => lhLive = {}
    BY DEF LhInv, LhParked, LhKept, LhHeld, LhOver
  <2>6. lhPhase = "returned" => lhResults = LhSessions
    BY DEF LhInv, LhKept
  <2> QED
    BY <2>3, <2>4, <2>5, <2>6 DEF MatchedLaunch
<1> QED
  BY <1>1, LhInvariance, PTL

(* The launcher keeps the types of its state.                              *)
THEOREM LhTyping == LhSpec => []LhTypeOK
<1>1. LhInv => LhTypeOK
  BY DEF LhInv
<1> QED
  BY <1>1, LhInvariance, PTL

-----------------------------------------------------------------------------
(* One launch for each session.                                            *)

\* A session has begun exactly when its thread is past the barrier, and it has
\* an entry in results or in errors, not in both, exactly when that ended.
LhOnce ==
    /\ lhResults \cap lhErrors = {} /\ lhResults \cup lhErrors \subseteq lhBegun
    /\ lhAt \notin DOMAIN lhPlan => lhBegun = {}
    /\ lhAt \in DOMAIN lhPlan => \A a \in LhNames :
           /\ lhThread[a] \in {"none", "started", "waiting", "open"} =>
                  LhSession(a) \notin lhBegun
           /\ lhThread[a] = "running" => LhSession(a) \in lhBegun \ (lhResults \cup lhErrors)

(* Before the barrier opens nothing of the group has begun.                *)
LEMMA LhHeldOnce ==
    ASSUME LhInv, LhOnce, LhHeld, UNCHANGED <<lhPlan, lhAt, lhBegun, lhResults, lhErrors>>,
           \A a \in LhNames : lhThread'[a] # "running"
    PROVE  LhOnce'
<1>1. \A a \in LhNames : LhSession(a)' = LhSession(a)
  BY DEF LhSession, LhGroup
<1>2. lhAt \in DOMAIN lhPlan => \A a \in LhNames : LhSession(a) \notin lhBegun
  BY DEF LhOnce, LhHeld
<1> QED
  BY <1>1, <1>2 DEF LhOnce

(* Every group of a plan has a session of every arm.                       *)
LEMMA LhArmIsThere ==
    ASSUME NEW plan, LhSound(plan), NEW g \in DOMAIN plan, NEW a \in LhNames
    PROVE  \E s \in LhSessions : s[3] = a /\ s \in Range(plan[g])
<1>1. plan[g] \in Seq(LhSessions) /\ Len(plan[g]) = LhArms /\ LhArms \in Nat
  BY LhConstants DEF LhSound
<1>2. PICK i \in 1..LhArms : plan[g][i][3] = a
  BY DEF LhSound
<1>3. plan[g][i] \in LhSessions /\ plan[g][i] \in Range(plan[g])
  BY <1>1 DEF Range
<1> QED
  BY <1>2, <1>3

(* Two arms of a group are two sessions.                                   *)
LEMMA LhArmsDiffer ==
    ASSUME LhInv, lhAt \in DOMAIN lhPlan, NEW a \in LhNames, NEW b \in LhNames, a # b
    PROVE  LhSession(a) # LhSession(b)
<1>1. \A c \in LhNames : \E s \in LhSessions : s[3] = c /\ s \in Range(LhGroup)
  BY LhUnderWay, LhArmIsThere DEF LhGroup
<1>2. \A c \in LhNames : LhSession(c)[3] = c
  BY <1>1 DEF LhSession
<1> QED
  BY <1>2

(* A session that leaves the barrier had not begun, and the one that ends  *)
(* had no entry yet.                                                       *)
LEMMA LhThreadOnce ==
    ASSUME LhInv, LhOnce, NEW arm \in LhNames, LhMaterialize(arm) \/ LhRun(arm)
    PROVE  LhOnce'
<1>1. lhThread[arm] \in {"open", "running"} /\ UNCHANGED <<lhPlan, lhAt>>
  BY DEF LhMaterialize, LhRun
<1>2. lhAt \in DOMAIN lhPlan
  BY <1>1, LhPast
<1>3. \A a \in LhNames : LhSession(a)' = LhSession(a)
  BY <1>1 DEF LhSession, LhGroup
<1>4. \A a \in LhNames : a # arm => lhThread'[a] = lhThread[a] /\ LhSession(a) # LhSession(arm)
  <2>1. lhThread \in [LhNames -> {"none", "started", "waiting", "open", "running", "ended"}]
    BY <1>2, LhUnderWay
  <2> QED
    BY <1>2, <2>1, LhArmsDiffer DEF LhMaterialize, LhRun
<1>5. lhThread'[arm] \in {"running", "ended"}
  <2>1. arm \in DOMAIN lhThread
    BY <1>2, LhUnderWay
  <2> QED
    BY <2>1 DEF LhMaterialize, LhRun
<1>6. CASE LhMaterialize(arm)
  <2>1. /\ LhSession(arm) \notin lhBegun /\ lhBegun' = lhBegun \cup {LhSession(arm)}
        /\ lhResults' = lhResults
        /\ \/ lhErrors' = lhErrors
           \/ lhErrors' = lhErrors \cup {LhSession(arm)} /\ lhThread'[arm] = "ended"
    <3>1. arm \in DOMAIN lhThread
      BY <1>2, LhUnderWay
    <3> QED
      BY <1>2, <1>6, <3>1 DEF LhOnce, LhMaterialize
  <2> QED
    BY <1>1, <1>2, <1>3, <1>4, <1>5, <2>1 DEF LhOnce
<1>7. CASE LhRun(arm)
  <2>1. /\ LhSession(arm) \in lhBegun \ (lhResults \cup lhErrors) /\ lhBegun' = lhBegun
        /\ lhThread'[arm] = "ended"
        /\ \/ lhErrors' = lhErrors /\ lhResults' = lhResults \cup {LhSession(arm)}
           \/ lhErrors' = lhErrors \cup {LhSession(arm)} /\ lhResults' = lhResults
    <3>1. arm \in DOMAIN lhThread
      BY <1>2, LhUnderWay
    <3> QED
      BY <1>2, <1>7, <3>1 DEF LhOnce, LhRun
  <2> QED
    BY <1>1, <1>2, <1>3, <1>4, <2>1 DEF LhOnce
<1> QED
  BY <1>6, <1>7

(* The next group has no session in common with those before it.           *)
LEMMA LhJoinOnce == ASSUME LhInv, LhInv', LhOnce, LhJoin PROVE LhOnce'
<1>1. lhAt \in DOMAIN lhPlan /\ LhSound(lhPlan)
  BY DEF LhJoin, LhInv, LhPlaced
<1>2. UNCHANGED <<lhPlan, lhBegun, lhResults, lhErrors>>
  BY DEF LhJoin
<1>3. CASE lhAt' = lhAt
  <2>1. \A a \in LhNames : LhSession(a)' = LhSession(a)
    BY <1>2, <1>3 DEF LhSession, LhGroup
  <2>2. lhThread' = lhThread
    <3>1. lhAt + 1 # lhAt
      BY <1>1 DEF LhInv, LhTypeOK
    <3> QED
      BY <1>3, <3>1 DEF LhJoin
  <2> QED
    BY <1>2, <1>3, <2>1, <2>2 DEF LhOnce
<1>4. CASE lhAt' # lhAt
  <2>1. lhAt' = lhAt + 1 /\ lhThread' = LhNoThreads
    BY <1>4 DEF LhJoin
  <2>2. lhAt' \in DOMAIN lhPlan
    <3>1. lhPhase' = "start"
      BY <1>4 DEF LhJoin
    <3> QED
      BY <1>2, <3>1 DEF LhInv, LhPlaced
  <2>3. ASSUME NEW a \in LhNames PROVE LhSession(a)' \notin lhBegun
    <3>1. LhSession(a)' \in Range(lhPlan[lhAt'])
      <4>1. \E s \in LhSessions : s[3] = a /\ s \in Range(lhPlan[lhAt'])
        BY <1>1, <2>2, LhArmIsThere
      <4> QED
        BY <1>2, <4>1 DEF LhSession, LhGroup
    <3>2. ASSUME LhSession(a)' \in lhBegun PROVE FALSE
      <4>1. PICK g \in 1..lhAt : LhSession(a)' \in Range(lhPlan[g])
        BY <3>2 DEF LhInv, LhKept
      <4>2. g \in DOMAIN lhPlan /\ g # lhAt'
        <5>1. lhAt \in 1..Len(lhPlan) /\ lhPlan \in Seq(Seq(LhSessions))
          BY <1>1, LhUnderWay DEF LhTypeOK
        <5> QED
          BY <2>1, <4>1, <5>1
      <4> QED
        BY <1>1, <2>2, <3>1, <4>1, <4>2 DEF LhSound
    <3> QED
      BY <3>2
  <2>4. \A a \in LhNames : lhThread'[a] = "none"
    BY <2>1 DEF LhNoThreads, LhNames
  <2> QED
    BY <1>2, <2>2, <2>3, <2>4 DEF LhOnce
<1> QED
  BY <1>3, <1>4

LEMMA LhNextOnce == ASSUME LhInv, LhInv', LhOnce, [LhNext]_lhVars PROVE LhOnce'
<1>1. CASE LhMakePlan
  <2>1. lhAt = 0 /\ lhAt' = 0 /\ UNCHANGED <<lhBegun, lhResults, lhErrors>>
    BY <1>1 DEF LhMakePlan, LhInv, LhPlaced
  <2>2. 0 \notin DOMAIN lhPlan /\ 0 \notin DOMAIN lhPlan'
    BY DEF LhInv, LhTypeOK
  <2> QED
    BY <2>1, <2>2 DEF LhOnce
<1>2. CASE LhResolve
  <2>1. /\ lhAt = 0 /\ lhThread' = LhNoThreads
        /\ UNCHANGED <<lhBegun, lhResults, lhErrors>>
    BY <1>2 DEF LhResolve, LhInv, LhPlaced, LhParked
  <2>2. 0 \notin DOMAIN lhPlan
    BY DEF LhInv, LhTypeOK
  <2>3. lhBegun = {} /\ lhResults = {} /\ lhErrors = {}
    BY <2>1, <2>2 DEF LhOnce
  <2>4. \A a \in LhNames : lhThread'[a] # "running"
    BY <2>1 DEF LhNoThreads, LhNames
  <2> QED
    BY <2>1, <2>3, <2>4 DEF LhOnce
<1>3. CASE LhStartThread
  <2>1. LhHeld
    BY <1>3 DEF LhStartThread, LhInv, LhParked
  <2>2. \A a \in LhNames : lhThread'[a] # "running"
    <3>1. lhThread \in [LhNames -> {"none", "started", "waiting", "open", "running", "ended"}]
      BY DEF LhInv, LhTypeOK, LhNames
    <3> QED
      BY <1>3, <2>1, <3>1 DEF LhStartThread, LhHeld
  <2> QED
    BY <1>3, <2>1, <2>2, LhHeldOnce DEF LhStartThread
<1>4. ASSUME NEW party, LhHeld, LhArrive(party),
             UNCHANGED <<lhPlan, lhAt, lhBegun, lhResults, lhErrors>>
      PROVE  LhOnce'
  <2>1. DOMAIN lhThread = LhNames
    BY DEF LhInv, LhTypeOK, LhNames
  <2>2. \A a \in LhNames : lhThread'[a] # "running"
    BY <1>4, <2>1 DEF LhArrive, LhHeld
  <2> QED
    BY <1>4, <2>2, LhHeldOnce
<1>5. CASE LhCoordinatorArrives
  BY <1>4, <1>5 DEF LhCoordinatorArrives, LhInv, LhParked
<1>6. ASSUME NEW arm \in LhNames, LhThreadArrives(arm) PROVE LhOnce'
  <2>1. LhHeld
    BY <1>6 DEF LhThreadArrives, LhInv, LhTypeOK, LhParked, LhGone, LhOver
  <2> QED
    BY <1>4, <1>6, <2>1 DEF LhThreadArrives
<1>7. CASE UNCHANGED lhVars
  <2>1. \A a \in LhNames : LhSession(a)' = LhSession(a)
    BY <1>7 DEF lhVars, LhSession, LhGroup
  <2> QED
    BY <1>7, <2>1 DEF lhVars, LhOnce
<1> QED
  BY <1>1, <1>2, <1>3, <1>5, <1>6, <1>7, LhThreadOnce, LhJoinOnce DEF LhNext, LhReturned, LhNames

(* A session of the plan is launched once: what leaves the barrier has not *)
(* begun before, and a session that ended has a result or an error and     *)
(* never both, so that no entry is overwritten under the results lock.     *)
OneLaunchEach ==
    /\ [](lhResults \cap lhErrors = {} /\ lhResults \cup lhErrors \subseteq lhBegun)
    /\ [][\A arm \in 0..LhArms - 1 : LhMaterialize(arm) => LhSession(arm) \notin lhBegun]_lhVars

(* execute_plan runs every session at most once, for every number of       *)
(* scenarios, arms and replicates.                                         *)
THEOREM SessionsRunOnce == LhSpec => OneLaunchEach
<1>1. LhInit => LhOnce
  <2>1. LhInit => lhAt \notin DOMAIN lhPlan
    BY DEF LhInit
  <2> QED
    BY <2>1 DEF LhInit, LhOnce
<1>2. LhInv /\ LhInv' /\ LhOnce /\ [LhNext]_lhVars => LhOnce'
  BY LhNextOnce
<1>3. LhOnce => lhResults \cap lhErrors = {} /\ lhResults \cup lhErrors \subseteq lhBegun
  BY DEF LhOnce
<1>4. LhInv /\ LhOnce =>
        [\A arm \in 0..LhArms - 1 : LhMaterialize(arm) => LhSession(arm) \notin lhBegun]_lhVars
  <2> SUFFICES ASSUME LhInv, LhOnce, NEW arm \in LhNames, LhMaterialize(arm)
               PROVE  LhSession(arm) \notin lhBegun
    BY DEF LhNames
  <2>1. lhThread[arm] = "open"
    BY DEF LhMaterialize
  <2> QED
    BY <2>1, LhPast DEF LhOnce
<1> QED
  BY <1>1, <1>2, <1>3, <1>4, LhInvariance, PTL DEF LhSpec, OneLaunchEach

=============================================================================
