------------------------- MODULE PythonPlaneProofs --------------------------
(***************************************************************************)
(* The Python reference engine: what the status of a capture says of its   *)
(* bytes, for every quota, chunk, pipe, amount of output and number of     *)
(* faults; and that the files of a capture need no lock, for any number of *)
(* recoveries, readers and ingestions that run at once.  An extension      *)
(* call: nothing is made of a reply that was cut, for every length of      *)
(* request, result limit, chunk, pipe and amount of output.  Then the      *)
(* three parts of the plane together.                                      *)
(***************************************************************************)
EXTENDS MCPythonPlane, TLAPS

-----------------------------------------------------------------------------
(* The runner.                                                             *)

\* No byte is retained that was not written, nor indexed that was not retained.
RcTaken ==
    \A s \in RcStreams : /\ rcKept[s] + rcPipe[s] <= rcMade[s]
                         /\ rcIndexed[s] <= rcKept[s]

\* Without a storage failure the quota counts what is retained, and a byte is
\* lost only to a quota that is spent.
RcAccounted ==
    "capture_failed" \notin rcFlags =>
        /\ rcIndexed = rcKept /\ rcTorn = {} /\ rcCount = RcSum(rcKept)
        /\ \A s \in RcStreams : rcDrain[s] # "failed"
        /\ IF "truncated" \in rcFlags
           THEN rcCount = RcMaxBytes /\ RcSum(rcMade) > RcSum(rcKept) + RcSum(rcPipe)
           ELSE \A s \in RcStreams : rcKept[s] + rcPipe[s] = rcMade[s]

\* An end of file is final: nobody is left to write.
RcEnded ==
    /\ rcPc = "called" => rcAlive = {} /\ \A s \in RcStreams : rcDrain[s] = "reading"
    /\ \A s \in RcStreams : rcDrain[s] = "eof" => rcPipe[s] = 0 /\ rcAlive = {}
    /\ rcPc \in {"close"} \cup RcFinal => \A s \in RcStreams : rcDrain[s] = "eof"
    /\ rcPc \in RcFinal => rcPc = RcStatus

RcInv == RcTypeOK /\ RcTaken /\ RcAccounted /\ RcEnded

-----------------------------------------------------------------------------
LEMMA RcInitInv == RcInit => RcInv
<1> SUFFICES ASSUME RcInit PROVE RcInv
  OBVIOUS
<1>1. RcZero \in [RcStreams -> 0..RcPipe] /\ RcZero \in [RcStreams -> 0..RcMade]
      /\ RcZero["stdout"] = 0 /\ RcZero["stderr"] = 0
  BY RcConstants DEF RcZero, RcStreams
<1>2. RcTypeOK
  BY <1>1, RcConstants DEF RcInit, RcTypeOK, RcDone, RcFinal
<1>3. RcTaken /\ RcAccounted /\ RcEnded
  BY <1>1, RcConstants
  DEF RcInit, RcTaken, RcAccounted, RcEnded, RcStreams, RcSum, RcFinal
<1> QED
  BY <1>2, <1>3 DEF RcInv

(* The counters are numbers within their bounds.                           *)
LEMMA RcCounters ==
    ASSUME RcTypeOK, NEW s \in RcStreams
    PROVE  /\ rcPipe[s] \in Nat /\ rcPipe[s] <= RcPipe
           /\ rcMade[s] \in Nat /\ rcMade[s] <= RcMade
           /\ rcKept[s] \in Nat /\ rcIndexed[s] \in Nat
           /\ rcCount \in Nat /\ rcCount <= RcMaxBytes
           /\ RcPipe \in Nat /\ RcMade \in Nat /\ RcMaxBytes \in Nat
  BY RcConstants DEF RcTypeOK

(* A byte enters the pipe: both ends of the account move.                  *)
LEMMA RcWriteInv ==
    ASSUME RcInv, NEW s \in RcStreams, RcWrite(s) PROVE RcInv'
<1> DEFINE t == IF s = "stdout" THEN "stderr" ELSE "stdout"
<1>1. /\ rcAlive # {} /\ rcPipe[s] < RcPipe /\ rcMade[s] < RcMade
      /\ rcPipe' = [rcPipe EXCEPT ![s] = @ + 1] /\ rcMade' = [rcMade EXCEPT ![s] = @ + 1]
      /\ UNCHANGED <<rcCall, rcPc, rcAlive, rcKept, rcIndexed, rcTorn, rcCount, rcDrain,
                     rcFlags, rcFaults, rcCancels>>
  BY DEF RcWrite
<1>2. RcTypeOK /\ t \in RcStreams /\ t # s /\ RcStreams = {s, t}
  BY DEF RcInv, RcStreams
<1>3. /\ rcPipe[s] \in Nat /\ rcMade[s] \in Nat /\ rcKept[s] \in Nat
      /\ rcPipe[t] \in Nat /\ rcMade[t] \in Nat /\ rcKept[t] \in Nat
      /\ RcPipe \in Nat /\ RcMade \in Nat
  BY <1>2, RcCounters
<1>4. /\ rcPipe'[s] = rcPipe[s] + 1 /\ rcMade'[s] = rcMade[s] + 1
      /\ rcPipe'[t] = rcPipe[t] /\ rcMade'[t] = rcMade[t]
  BY <1>1, <1>2 DEF RcTypeOK
<1>5. rcPipe' \in [RcStreams -> 0..RcPipe] /\ rcMade' \in [RcStreams -> 0..RcMade]
  BY <1>1, <1>2, <1>3 DEF RcTypeOK
<1>6. RcTypeOK'
  BY <1>1, <1>2, <1>5 DEF RcTypeOK
<1>7. RcTaken'
  BY <1>1, <1>2, <1>3, <1>4 DEF RcInv, RcTaken
<1>8. RcEnded'
  BY <1>1 DEF RcInv, RcEnded, RcStatus
<1>9. /\ RcSum(rcMade') = RcSum(rcMade) + 1 /\ RcSum(rcPipe') = RcSum(rcPipe) + 1
      /\ RcSum(rcMade) \in Nat /\ RcSum(rcPipe) \in Nat /\ RcSum(rcKept) \in Nat
  BY <1>2, <1>3, <1>4 DEF RcSum, RcStreams
<1>10. RcAccounted'
  <2> SUFFICES ASSUME "capture_failed" \notin rcFlags PROVE RcAccounted'
    BY <1>1 DEF RcAccounted
  <2>1. CASE "truncated" \in rcFlags
    BY <1>1, <1>9, <2>1 DEF RcInv, RcAccounted, RcSum
  <2>2. CASE "truncated" \notin rcFlags
    <3>1. \A r \in RcStreams : rcKept[r] + rcPipe[r] = rcMade[r]
      BY <2>2 DEF RcInv, RcAccounted
    <3>2. \A r \in RcStreams : rcKept'[r] + rcPipe'[r] = rcMade'[r]
      BY <1>1, <1>2, <1>3, <1>4, <3>1
    <3> QED
      BY <1>1, <2>2, <3>2 DEF RcInv, RcAccounted, RcSum
  <2> QED
    BY <2>1, <2>2
<1> QED
  BY <1>6, <1>7, <1>8, <1>10 DEF RcInv

(* One round of drain: a chunk leaves the pipe and is kept, cut, lost to a *)
(* storage failure, or discarded after one.                                *)
LEMMA RcChunkInv ==
    ASSUME RcInv, NEW s \in RcStreams, RcDrainChunk(s) PROVE RcInv'
<1> DEFINE t == IF s = "stdout" THEN "stderr" ELSE "stdout"
           remaining == RcMaxBytes - rcCount
           Kept(n) == IF n < remaining THEN n ELSE remaining
<1>1. /\ rcPc \in {"wait", "reap", "gather"} /\ rcDrain[s] \in {"reading", "failed"}
      /\ UNCHANGED <<rcCall, rcPc, rcMade, rcCancels>>
  BY DEF RcDrainChunk, RcReading
<1>2. PICK n \in 1..RcChunk :
        /\ n <= rcPipe[s]
        /\ rcPipe' = [rcPipe EXCEPT ![s] = @ - n]
        /\ \/ /\ rcDrain[s] = "failed"
              /\ UNCHANGED <<rcAlive, rcKept, rcIndexed, rcTorn, rcCount,
                             rcDrain, rcFlags, rcFaults>>
           \/ /\ rcDrain[s] = "reading" /\ RcRetain(s, n)
              /\ UNCHANGED <<rcAlive, rcDrain, rcFaults>>
           \/ /\ rcDrain[s] = "reading" /\ rcFaults < RcMaxFaults
              /\ RcRetainFails(s, n)
              /\ rcFaults' = rcFaults + 1
              /\ rcDrain' = [rcDrain EXCEPT ![s] = "failed"]
              /\ IF rcCall.required THEN RcKillGroup ELSE UNCHANGED rcAlive
  BY DEF RcDrainChunk
<1>3. RcTypeOK /\ t \in RcStreams /\ t # s /\ RcStreams = {s, t}
  BY DEF RcInv, RcStreams
<1>4. /\ rcPipe[s] \in Nat /\ rcMade[s] \in Nat /\ rcKept[s] \in Nat /\ rcIndexed[s] \in Nat
      /\ rcPipe[t] \in Nat /\ rcMade[t] \in Nat /\ rcKept[t] \in Nat /\ rcIndexed[t] \in Nat
      /\ RcPipe \in Nat /\ RcMade \in Nat /\ RcMaxBytes \in Nat /\ n \in Nat /\ n > 0
      /\ rcCount \in Nat /\ rcCount <= RcMaxBytes
      /\ rcPipe[s] <= RcPipe /\ rcMade[s] <= RcMade
  BY <1>3, RcCounters, RcConstants
<1>5. /\ rcPipe'[s] = rcPipe[s] - n /\ rcPipe'[t] = rcPipe[t]
      /\ rcPipe' \in [RcStreams -> 0..RcPipe]
  BY <1>2, <1>3, <1>4 DEF RcTypeOK
<1>6. rcAlive' \subseteq rcAlive
  BY <1>2 DEF RcKillGroup
<1>7. Kept(n) \in Nat /\ Kept(n) <= n /\ rcCount + Kept(n) <= RcMaxBytes
      /\ (Kept(n) < n => rcCount + Kept(n) = RcMaxBytes)
  BY <1>4
<1>8. RcTaken /\ RcEnded
  BY DEF RcInv
<1> HIDE DEF Kept, t, remaining
<1>9. ASSUME NEW k \in {0, Kept(n)}, rcKept' = [rcKept EXCEPT ![s] = @ + k]
      PROVE  /\ rcKept' \in [RcStreams -> 0..RcMade]
             /\ rcKept'[s] = rcKept[s] + k /\ rcKept'[t] = rcKept[t]
             /\ rcKept'[s] + rcPipe'[s] <= rcMade[s]
  <2>1. k \in Nat /\ k <= n
    BY <1>4, <1>7, <1>9
  <2>2. rcKept[s] + rcPipe[s] <= rcMade[s]
    BY <1>8 DEF RcTaken
  <2>3. rcKept'[s] = rcKept[s] + k /\ rcKept'[t] = rcKept[t]
    BY <1>3, <1>9 DEF RcTypeOK
  <2>4. rcKept[s] + k \in 0..RcMade
    BY <1>2, <1>4, <2>1, <2>2
  <2>5. rcKept' \in [RcStreams -> 0..RcMade]
    BY <1>3, <1>9, <2>4 DEF RcTypeOK
  <2> QED
    BY <1>2, <1>4, <1>5, <2>1, <2>2, <2>3, <2>5
<1>10. CASE /\ rcDrain[s] = "failed"
            /\ UNCHANGED <<rcAlive, rcKept, rcIndexed, rcTorn, rcCount, rcDrain, rcFlags, rcFaults>>
  <2>1. "capture_failed" \in rcFlags
    BY <1>10 DEF RcInv, RcAccounted
  <2>2. RcTypeOK'
    BY <1>1, <1>3, <1>5, <1>10 DEF RcTypeOK
  <2>3. RcTaken'
    BY <1>1, <1>2, <1>3, <1>4, <1>5, <1>8, <1>10 DEF RcTaken
  <2>4. RcEnded'
    BY <1>1, <1>3, <1>5, <1>8, <1>10 DEF RcEnded, RcFinal
  <2> QED
    BY <1>10, <2>1, <2>2, <2>3, <2>4 DEF RcInv, RcAccounted
<1>11. CASE /\ rcDrain[s] = "reading" /\ RcRetain(s, n)
            /\ UNCHANGED <<rcAlive, rcDrain, rcFaults>>
  <2>1. /\ rcKept' = [rcKept EXCEPT ![s] = @ + Kept(n)]
        /\ rcIndexed' = [rcIndexed EXCEPT ![s] = @ + Kept(n)]
        /\ rcCount' = rcCount + Kept(n)
        /\ rcFlags' = rcFlags \cup (IF Kept(n) < n THEN {"truncated"} ELSE {})
        /\ UNCHANGED <<rcTorn, rcAlive, rcDrain, rcFaults>>
    BY <1>11 DEF RcRetain, Kept, remaining
  <2>2. /\ rcKept' \in [RcStreams -> 0..RcMade]
        /\ rcKept'[s] = rcKept[s] + Kept(n) /\ rcKept'[t] = rcKept[t]
        /\ rcKept'[s] + rcPipe'[s] <= rcMade[s]
    BY <1>9, <2>1
  <2>3. rcIndexed'[s] = rcIndexed[s] + Kept(n) /\ rcIndexed'[t] = rcIndexed[t]
    BY <1>3, <2>1 DEF RcTypeOK
  <2>4. rcIndexed[s] <= rcKept[s] /\ rcIndexed[t] <= rcKept[t]
    BY <1>3, <1>8 DEF RcTaken
  <2>5. rcKept[s] + Kept(n) \in 0..RcMade
    BY <1>3, <2>2
  <2>6. rcIndexed' \in [RcStreams -> 0..RcMade]
    <3>1. rcIndexed[s] + Kept(n) \in 0..RcMade
      BY <1>4, <1>7, <2>4, <2>5
    <3> QED
      BY <1>3, <2>1, <3>1 DEF RcTypeOK
  <2>7. rcCount' \in 0..RcMaxBytes
    BY <1>4, <1>7, <2>1
  <2>8. RcTypeOK'
    BY <1>1, <1>3, <1>5, <2>1, <2>2, <2>6, <2>7 DEF RcTypeOK
  <2>9. RcTaken'
    BY <1>1, <1>3, <1>4, <1>5, <1>7, <1>8, <2>2, <2>3, <2>4 DEF RcTaken
  <2>10. RcEnded'
    BY <1>1, <1>3, <1>5, <1>8, <1>11, <2>1 DEF RcEnded, RcFinal
  <2>11. RcAccounted'
    <3> SUFFICES ASSUME "capture_failed" \notin rcFlags' PROVE RcAccounted'
      BY DEF RcAccounted
    <3>1. "capture_failed" \notin rcFlags
      BY <2>1
    <3>2. /\ rcIndexed = rcKept /\ rcTorn = {} /\ rcCount = RcSum(rcKept)
          /\ \A r \in RcStreams : rcDrain[r] # "failed"
      BY <3>1 DEF RcInv, RcAccounted
    <3>3. rcIndexed' = rcKept'
      BY <2>1, <3>2
    <3>4. /\ RcSum(rcKept') = RcSum(rcKept) + Kept(n) /\ RcSum(rcPipe') = RcSum(rcPipe) - n
          /\ RcSum(rcKept) \in Nat /\ RcSum(rcPipe) \in Nat /\ RcSum(rcMade) \in Nat
      BY <1>3, <1>4, <1>5, <1>7, <2>2 DEF RcSum, RcStreams
    <3>5. RcSum(rcMade) >= RcSum(rcKept) + RcSum(rcPipe)
      <4>1. rcKept[s] + rcPipe[s] <= rcMade[s] /\ rcKept[t] + rcPipe[t] <= rcMade[t]
        BY <1>3, <1>8 DEF RcTaken
      <4>2. RcSum(rcMade) = rcMade[s] + rcMade[t] /\ RcSum(rcKept) = rcKept[s] + rcKept[t]
            /\ RcSum(rcPipe) = rcPipe[s] + rcPipe[t]
        BY <1>3, <1>4 DEF RcSum, RcStreams
      <4> QED
        BY <1>4, <4>1, <4>2
    <3>6. CASE "truncated" \in rcFlags
      <4>1. rcCount = RcMaxBytes /\ RcSum(rcMade) > RcSum(rcKept) + RcSum(rcPipe)
        BY <3>1, <3>6 DEF RcInv, RcAccounted
      <4>2. rcCount' = RcMaxBytes
        BY <1>4, <1>7, <2>1, <4>1
      <4>3. RcSum(rcMade) > RcSum(rcKept') + RcSum(rcPipe')
        BY <1>4, <1>7, <3>4, <4>1
      <4> QED
        BY <1>1, <2>1, <3>2, <3>3, <3>4, <3>6, <4>2, <4>3 DEF RcAccounted, RcSum
    <3>7. CASE "truncated" \notin rcFlags /\ Kept(n) < n
      <4>1. rcCount' = RcMaxBytes /\ "truncated" \in rcFlags'
        BY <1>7, <2>1, <3>7
      <4>2. RcSum(rcMade) > RcSum(rcKept') + RcSum(rcPipe')
        BY <1>4, <1>7, <3>4, <3>5, <3>7
      <4> QED
        BY <1>1, <2>1, <3>2, <3>3, <3>4, <4>1, <4>2 DEF RcAccounted, RcSum
    <3>8. CASE "truncated" \notin rcFlags /\ ~(Kept(n) < n)
      <4>1. Kept(n) = n /\ "truncated" \notin rcFlags'
        BY <1>4, <1>7, <2>1, <3>8
      <4>2. \A r \in RcStreams : rcKept[r] + rcPipe[r] = rcMade[r]
        BY <3>1, <3>8 DEF RcInv, RcAccounted
      <4>3. \A r \in RcStreams : rcKept'[r] + rcPipe'[r] = rcMade[r]
        BY <1>3, <1>4, <1>5, <2>2, <4>1, <4>2
      <4> QED
        BY <1>1, <2>1, <3>2, <3>3, <3>4, <4>1, <4>3 DEF RcAccounted, RcSum
    <3> QED
      BY <3>6, <3>7, <3>8
  <2> QED
    BY <2>8, <2>9, <2>10, <2>11 DEF RcInv
<1>12. CASE /\ rcDrain[s] = "reading" /\ rcFaults < RcMaxFaults
            /\ RcRetainFails(s, n)
            /\ rcFaults' = rcFaults + 1
            /\ rcDrain' = [rcDrain EXCEPT ![s] = "failed"]
            /\ IF rcCall.required THEN RcKillGroup ELSE UNCHANGED rcAlive
  <2>1. /\ \/ rcTorn' = rcTorn \cup {s} /\ UNCHANGED rcKept
           \/ rcKept' = [rcKept EXCEPT ![s] = @ + Kept(n)] /\ UNCHANGED rcTorn
        /\ rcFlags' = rcFlags \cup {"capture_failed"}
        /\ UNCHANGED <<rcIndexed, rcCount>>
    BY <1>12 DEF RcRetainFails, Kept, remaining
  <2>2. /\ rcTorn' \subseteq RcStreams
        /\ rcKept' \in [RcStreams -> 0..RcMade] /\ rcKept'[t] = rcKept[t]
        /\ rcKept'[s] >= rcKept[s] /\ rcKept'[s] + rcPipe'[s] <= rcMade[s]
    <3>1. CASE rcTorn' = rcTorn \cup {s} /\ UNCHANGED rcKept
      BY <1>2, <1>3, <1>4, <1>5, <1>8, <3>1 DEF RcTypeOK, RcTaken
    <3>2. CASE rcKept' = [rcKept EXCEPT ![s] = @ + Kept(n)] /\ UNCHANGED rcTorn
      BY <1>3, <1>4, <1>7, <1>9, <3>2 DEF RcTypeOK
    <3> QED
      BY <2>1, <3>1, <3>2
  <2>3. rcFaults' \in 0..RcMaxFaults
    BY <1>3, <1>12, RcConstants DEF RcTypeOK
  <2>4. /\ rcDrain' \in [RcStreams -> {"reading", "failed", "eof", "cancelled"}]
        /\ rcDrain'[s] = "failed" /\ rcDrain'[t] = rcDrain[t]
    BY <1>3, <1>12 DEF RcTypeOK
  <2>5. RcTypeOK'
    BY <1>1, <1>3, <1>5, <1>6, <2>1, <2>2, <2>3, <2>4 DEF RcTypeOK
  <2>6. RcTaken'
    <3>1. rcIndexed[s] <= rcKept[s] /\ rcIndexed[t] <= rcKept[t] /\ rcKept[t] + rcPipe[t] <= rcMade[t]
      BY <1>3, <1>8 DEF RcTaken
    <3>2. rcKept'[s] \in Nat /\ rcIndexed[s] <= rcKept'[s]
      BY <1>3, <1>4, <2>2, <3>1, SMTT(30)
    <3> QED
      BY <1>1, <1>3, <1>4, <1>5, <2>1, <2>2, <3>1, <3>2 DEF RcTaken
  <2>7. RcEnded'
    BY <1>1, <1>3, <1>5, <1>6, <1>8, <2>4 DEF RcEnded, RcFinal
  <2> QED
    BY <2>1, <2>5, <2>6, <2>7 DEF RcInv, RcAccounted
<1> QED
  BY <1>2, <1>10, <1>11, <1>12

(* The steps that move no byte: the command loses processes, a drainer     *)
(* meets the end of its stream, or the coroutine moves on.                 *)
LEMMA RcControlInv ==
    ASSUME RcInv, UNCHANGED <<rcPipe, rcMade, rcKept, rcIndexed, rcTorn, rcCount>>,
           rcAlive' \subseteq rcAlive \/ rcPc = "called",
           "capture_failed" \in rcFlags' <=> "capture_failed" \in rcFlags,
           "truncated" \in rcFlags' <=> "truncated" \in rcFlags,
           \A s \in RcStreams : rcDrain'[s] = "failed" => rcDrain[s] = "failed",
           RcTypeOK', RcEnded'
    PROVE  RcInv'
<1>1. RcTaken'
  BY DEF RcInv, RcTaken
<1>2. RcAccounted'
  BY DEF RcInv, RcAccounted, RcSum
<1> QED
  BY <1>1, <1>2 DEF RcInv

LEMMA RcEofInv == ASSUME RcInv, NEW s \in RcStreams, RcDrainEof(s) PROVE RcInv'
<1>1. /\ rcPc \in {"wait", "reap", "gather"} /\ rcPipe[s] = 0 /\ rcAlive = {}
      /\ rcDrain' = [rcDrain EXCEPT ![s] = "eof"]
      /\ UNCHANGED <<rcCall, rcPc, rcAlive, rcPipe, rcMade, rcKept, rcIndexed,
                     rcTorn, rcCount, rcFlags, rcFaults, rcCancels>>
  BY DEF RcDrainEof
<1>2. RcTypeOK'
  BY <1>1 DEF RcInv, RcTypeOK
<1>3. rcDrain \in [RcStreams -> {"reading", "failed", "eof", "cancelled"}]
  BY DEF RcInv, RcTypeOK
<1>4. RcEnded'
  BY <1>1, <1>3 DEF RcInv, RcEnded, RcFinal
<1> QED
  BY <1>1, <1>2, <1>3, <1>4, RcControlInv

LEMMA RcStartInv == RcInv /\ RcStart => RcInv'
<1> SUFFICES ASSUME RcInv, RcStart PROVE RcInv'
  OBVIOUS
<1>1. /\ rcPc = "called" /\ rcPc' \in {"wait", "raised"}
      /\ UNCHANGED <<rcBytes, rcFlags, rcFaults, rcCancels>>
  BY DEF RcStart
<1>2. rcCall' \in [required : BOOLEAN, timed : BOOLEAN]
      /\ rcAlive' \subseteq RcGroup \cup {"detached"}
  BY DEF RcStart, RcInv, RcTypeOK, RcGroup
<1>3. RcTypeOK'
  BY <1>1, <1>2 DEF RcInv, RcTypeOK, rcBytes, RcDone
<1>4. RcEnded'
  BY <1>1 DEF RcInv, RcEnded, rcBytes, RcFinal
<1> QED
  BY <1>1, <1>3, <1>4, RcControlInv DEF rcBytes

LEMMA RcStepInv ==
    ASSUME RcInv,
           \/ \E p \in RcGroup \cup {"detached"} : RcExit(p)
           \/ RcWaited \/ RcTimeout \/ RcCancel \/ RcGathered \/ RcClose
    PROVE  RcInv'
<1>1. /\ UNCHANGED <<rcCall, rcPipe, rcMade, rcKept, rcIndexed, rcTorn, rcCount>>
      /\ rcAlive' \subseteq rcAlive
      /\ \/ UNCHANGED rcFlags
         \/ \E f \in {"timed_out", "cancelled", "raising"} : rcFlags' = rcFlags \cup {f}
  <2>1. CASE \E p \in RcGroup \cup {"detached"} : RcExit(p)
    BY <2>1 DEF RcExit, rcBytes
  <2>2. CASE RcWaited \/ RcGathered \/ RcClose
    BY <2>2 DEF RcWaited, RcGathered, RcClose, rcBytes
  <2>3. CASE RcTimeout
    BY <2>3 DEF RcTimeout, rcBytes, RcKillGroup
  <2>4. CASE RcCancel
    BY <2>4 DEF RcCancel, RcKillGroup
  <2> QED
    BY <2>1, <2>2, <2>3, <2>4
<1>2. rcFaults' \in 0..RcMaxFaults /\ rcCancels' \in 0..RcMaxCancels
  BY RcConstants, SMTT(30) DEF RcExit, RcWaited, RcTimeout, RcCancel, RcGathered, RcClose, RcInv, RcTypeOK
<1>3. rcDrain \in [RcStreams -> {"reading", "failed", "eof", "cancelled"}]
  BY DEF RcInv, RcTypeOK
<1>4. /\ rcDrain' \in [RcStreams -> {"reading", "failed", "eof", "cancelled"}]
      /\ \A s \in RcStreams : rcDrain'[s] = "failed" => rcDrain[s] = "failed"
      /\ \A s \in RcStreams : rcDrain'[s] = "eof" <=> rcDrain[s] = "eof"
      /\ rcPc # "gather" => UNCHANGED rcDrain
  <2>1. CASE UNCHANGED rcDrain
    BY <1>3, <2>1
  <2>2. CASE /\ rcPc = "gather"
             /\ rcDrain' = [s \in RcStreams |-> IF RcReading(s) THEN "cancelled" ELSE rcDrain[s]]
    BY <1>3, <2>2 DEF RcReading
  <2> QED
    BY <2>1, <2>2
    DEF RcExit, RcWaited, RcTimeout, RcCancel, RcGathered, RcClose, rcBytes
<1>5. /\ rcPc' \in {"called", "wait", "reap", "gather", "close"} \cup RcDone
      /\ rcPc' = "called" => rcPc = "called"
      /\ rcPc' = "close" => rcPc = "close" \/ \A s \in RcStreams : rcDrain[s] = "eof"
      /\ rcPc' \in RcFinal => \/ /\ rcPc = "close" /\ rcPc' = RcStatus
                                 /\ UNCHANGED rcFlags
                              \/ UNCHANGED rcPc
  <2>1. RcStatus \in RcFinal
    BY DEF RcStatus, RcFinal
  <2>2. CASE \E p \in RcGroup \cup {"detached"} : RcExit(p)
    BY <2>2 DEF RcExit, RcInv, RcTypeOK
  <2>3. CASE RcWaited \/ RcTimeout \/ RcCancel \/ RcGathered
    BY <2>3 DEF RcWaited, RcTimeout, RcCancel, RcGathered, RcFinal, RcDone
  <2>4. CASE RcClose
    BY <2>1, <2>4 DEF RcClose, RcFinal, RcDone
  <2> QED
    BY <2>2, <2>3, <2>4
<1>6. RcTypeOK'
  <2>1. rcFlags' \subseteq {"truncated", "capture_failed", "timed_out", "cancelled", "raising"}
    BY <1>1 DEF RcInv, RcTypeOK
  <2> QED
    BY <1>1, <1>2, <1>4, <1>5, <2>1 DEF RcInv, RcTypeOK
<1>7. RcStatus' = RcStatus
  BY <1>1 DEF RcStatus
<1>8. RcEnded'
  <2>1. rcPc' = "called" => rcAlive' = {} /\ \A s \in RcStreams : rcDrain'[s] = "reading"
    BY <1>1, <1>4, <1>5 DEF RcInv, RcEnded
  <2>2. \A s \in RcStreams : rcDrain'[s] = "eof" => rcPipe'[s] = 0 /\ rcAlive' = {}
    BY <1>1, <1>4 DEF RcInv, RcEnded
  <2>3. rcPc' \in {"close"} \cup RcFinal => \A s \in RcStreams : rcDrain'[s] = "eof"
    BY <1>4, <1>5 DEF RcInv, RcEnded
  <2>4. rcPc' \in RcFinal => rcPc' = RcStatus'
    BY <1>5, <1>7 DEF RcInv, RcEnded
  <2> QED
    BY <2>1, <2>2, <2>3, <2>4 DEF RcEnded
<1> QED
  BY <1>1, <1>4, <1>6, <1>8, RcControlInv

LEMMA RcNextInv == RcInv /\ [RcNext]_rcVars => RcInv'
<1> SUFFICES ASSUME RcInv, [RcNext]_rcVars PROVE RcInv'
  OBVIOUS
<1>1. CASE UNCHANGED rcVars
  BY <1>1
  DEF rcVars, RcInv, RcTypeOK, RcTaken, RcAccounted, RcEnded, RcStatus, RcSum
<1>2. CASE RcReturned
  BY <1>1, <1>2 DEF RcReturned
<1> QED
  BY <1>1, <1>2, RcWriteInv, RcChunkInv, RcEofInv, RcStartInv, RcStepInv
  DEF RcNext, RcDrainer, RcCoroutine

(* The invariant of capture_command: types, and the account of every byte  *)
(* from the pipe to the index.                                             *)
THEOREM RcInvariance == RcSpec => []RcInv
<1> QED
  BY RcInitInv, RcNextInv, PTL DEF RcSpec

(* capture_command says COMPLETE only of a capture that retained, hashed   *)
(* and indexed every byte the command wrote, and TRUNCATED only of one     *)
(* that spent its whole quota and lost something: for every quota, chunk,  *)
(* pipe, amount of output, and number of storage failures and              *)
(* cancellations.                                                          *)
THEOREM ReferenceStatusHolds == RcSpec => []ReferenceStatusIsHonest
<1>1. RcInv => ReferenceStatusIsHonest
  <2> SUFFICES ASSUME RcInv PROVE ReferenceStatusIsHonest
    OBVIOUS
  <2> DEFINE o == "stdout"
             e == "stderr"
  <2>1. o \in RcStreams /\ e \in RcStreams /\ RcStreams = {o, e}
    BY DEF RcStreams
  <2>2. /\ rcPipe[o] \in Nat /\ rcMade[o] \in Nat /\ rcKept[o] \in Nat
        /\ rcPipe[e] \in Nat /\ rcMade[e] \in Nat /\ rcKept[e] \in Nat
        /\ rcCount \in Nat /\ rcCount <= RcMaxBytes /\ RcMaxBytes \in Nat
    BY <2>1, RcCounters DEF RcInv
  <2>3. "capture_failed" \notin rcFlags => RcSum(rcKept) <= RcMaxBytes
    BY <2>2 DEF RcInv, RcAccounted
  <2>4. ASSUME rcPc = "COMPLETE"
        PROVE  rcAlive = {} /\ rcTorn = {} /\ rcKept = rcMade /\ rcIndexed = rcMade
    <3>1. "capture_failed" \notin rcFlags /\ "truncated" \notin rcFlags
      BY <2>4 DEF RcInv, RcEnded, RcStatus, RcFinal
    <3>2. \A s \in RcStreams : rcPipe[s] = 0 /\ rcAlive = {}
      BY <2>4 DEF RcInv, RcEnded, RcFinal
    <3>3. \A s \in RcStreams : rcKept[s] = rcMade[s]
      BY <2>1, <2>2, <3>1, <3>2 DEF RcInv, RcAccounted
    <3>4. rcKept = rcMade
      BY <3>3 DEF RcInv, RcTypeOK
    <3> QED
      BY <2>1, <3>1, <3>2, <3>4 DEF RcInv, RcAccounted
  <2>5. ASSUME rcPc = "TRUNCATED"
        PROVE  /\ RcSum(rcKept) = RcMaxBytes /\ RcSum(rcMade) > RcMaxBytes
               /\ rcTorn = {} /\ rcIndexed = rcKept
    <3>1. "capture_failed" \notin rcFlags /\ "truncated" \in rcFlags
      BY <2>5 DEF RcInv, RcEnded, RcStatus, RcFinal
    <3>2. /\ RcSum(rcKept) = RcMaxBytes /\ RcSum(rcMade) > RcSum(rcKept) + RcSum(rcPipe)
          /\ rcTorn = {} /\ rcIndexed = rcKept
      BY <3>1 DEF RcInv, RcAccounted
    <3> QED
      BY <2>2, <3>2 DEF RcSum
  <2> QED
    BY <2>3, <2>4, <2>5 DEF ReferenceStatusIsHonest
<1> QED
  BY <1>1, RcInvariance, PTL

(* Once the status is decided both pipes are at their end and the files    *)
(* are closed: no step is left that touches them.                          *)
LEMMA RcFrozen ==
    ASSUME RcInv, [RcNext]_rcVars, rcPc \in RcFinal
    PROVE  UNCHANGED <<rcPc, rcCount, rcFlags, rcKept, rcIndexed, rcTorn>>
<1>1. \A s \in RcStreams : rcDrain[s] = "eof"
  BY DEF RcInv, RcEnded
<1>2. rcPc \notin {"called", "wait", "reap", "gather", "close"}
  BY DEF RcFinal
<1> QED
  BY <1>1, <1>2
  DEF RcNext, RcDrainer, RcDrainChunk, RcDrainEof, RcReading, RcCoroutine, RcStart,
      RcWaited, RcGathered, RcClose, RcTimeout, RcWrite, RcExit, RcCancel,
      RcReturned, rcVars, rcBytes

(* The quota is only spent, and no flag is ever taken down.                *)
LEMMA RcNothingForgotten ==
    ASSUME RcInv, [RcNext]_rcVars
    PROVE  rcCount' >= rcCount /\ rcFlags \subseteq rcFlags'
<1>1. rcCount \in Nat /\ rcCount <= RcMaxBytes /\ RcMaxBytes \in Nat /\ RcChunk \in Nat
  BY RcConstants DEF RcInv, RcTypeOK
<1>2. ASSUME NEW s \in RcStreams, NEW n \in 1..RcChunk, RcRetain(s, n)
      PROVE  rcCount' >= rcCount /\ rcFlags \subseteq rcFlags'
  BY <1>1, <1>2 DEF RcRetain
<1>3. ASSUME NEW s \in RcStreams, NEW n \in 1..RcChunk, RcRetainFails(s, n)
      PROVE  rcCount' = rcCount /\ rcFlags \subseteq rcFlags'
  BY <1>3 DEF RcRetainFails
<1>4. CASE \E s \in RcStreams : RcDrainChunk(s)
  BY <1>1, <1>2, <1>3, <1>4 DEF RcDrainChunk
<1>5. CASE ~\E s \in RcStreams : RcDrainChunk(s)
  <2>1. rcCount' = rcCount /\ rcFlags \subseteq rcFlags'
    BY <1>5
    DEF RcNext, RcDrainer, RcDrainEof, RcCoroutine, RcStart, RcWaited, RcGathered,
        RcClose, RcTimeout, RcWrite, RcExit, RcCancel, RcReturned, rcVars, rcBytes
  <2> QED
    BY <1>1, <2>1
<1> QED
  BY <1>4, <1>5

(* A chunk cut without a failure means that the quota is spent.            *)
RcCutAtQuota ==
    "truncated" \in rcFlags /\ "capture_failed" \notin rcFlags => rcCount = RcMaxBytes

(* capture_command implements the collector that does everything by        *)
(* itself: the total is captured, a loss and a failure are the flags of    *)
(* the same names, and the verdict is the status of a call that returned   *)
(* one.                                                                    *)
THEOREM ReferenceImplementsCollection == RcSpec => ReferenceCollects
<1>1. RcInit => RcContract!Init
  BY DEF RcInit, RcFinal, RcContract!Init
<1>2. RcInv => RcCutAtQuota /\ rcCount \in 0..RcMaxBytes
  BY DEF RcInv, RcTypeOK, RcAccounted, RcCutAtQuota
<1>3. ASSUME RcInv, RcCutAtQuota', (rcCount \in 0..RcMaxBytes)', [RcNext]_rcVars
      PROVE  [RcContract!Next]_RcContract!vars
  <2>1. CASE rcPc \in RcFinal
    BY <1>3, <2>1, RcFrozen DEF RcContract!vars
  <2>2. CASE rcPc \notin RcFinal
    <3>1. rcCount' \in rcCount..RcMaxBytes /\ rcFlags \subseteq rcFlags'
      <4>1. rcCount \in Nat /\ RcMaxBytes \in Nat
        BY <1>3, RcConstants DEF RcInv, RcTypeOK
      <4> QED
        BY <1>3, <4>1, RcNothingForgotten
    <3>2. RcContract!Collect
      BY <1>3, <2>2, <3>1 DEF RcContract!Collect, RcCutAtQuota
    <3>3. rcPc' \in RcFinal => rcPc' = RcStatus'
      <4>1. CASE RcClose
        <5>1. rcFlags' = rcFlags /\ (rcPc' \in RcFinal => rcPc' = RcStatus)
          BY <4>1 DEF RcClose, RcFinal
        <5> QED
          BY <5>1 DEF RcStatus
      <4>2. CASE ~RcClose
        <5>1. rcPc' \notin RcFinal
          BY <1>3, <2>2, <4>2
          DEF RcNext, RcDrainer, RcDrainChunk, RcDrainEof, RcCoroutine, RcStart,
              RcWaited, RcGathered, RcTimeout, RcWrite, RcExit, RcCancel, RcReturned,
              rcVars, RcFinal
        <5> QED
          BY <5>1
      <4> QED
        BY <4>1, <4>2
    <3> QED
      BY <2>2, <3>2, <3>3 DEF RcContract!Next, RcContract!Verdict, RcStatus
  <2> QED
    BY <2>1, <2>2
<1> QED
  BY <1>1, <1>2, <1>3, RcInvariance, PTL
  DEF RcSpec, ReferenceCollects, RcContract!Spec

-----------------------------------------------------------------------------
(* The spool directory.                                                    *)

RsWriters == {"capture"} \cup RsRecoverers
RsViewers == RsReaders \cup RsObservers

\* Whoever created manifest.json, and nobody else, fills it.
RsExclusive ==
    /\ \A a \in RsWriters : rsPc[a] = "fill" => rsManifest = "torn"
    /\ \A a, b \in RsWriters : rsPc[a] = "fill" /\ rsPc[b] = "fill" => a = b

\* Only the capture renames, after it has filled its own manifest.
RsOwned ==
    /\ rsPc["capture"] = "rename" => rsOutcome \in RsFinal /\ rsManifest = rsOutcome
    /\ rsDir = "captures" =>
           /\ rsPc["capture"] = "ok"
           /\ rsOutcome \in RsFinal /\ rsManifest = rsOutcome
    /\ rsPc["capture"] = "ok" => rsDir = "captures"

\* What a viewer that got further has seen is still so.
RsSeen ==
    /\ \A a \in RsViewers : rsPc[a] \in {"load", "verify"} => rsDir = "captures"
    /\ \A a \in RsViewers :
           (rsPc[a] \in {"exists", "replace"} \/ rsSaw[a] = "AVAILABLE") =>
               rsDir = "captures" /\ rsRaw = "match"
    /\ rsStored # "none" => rsDir = "captures" /\ rsRaw = "match"
    /\ \A o \in RsObservers : rsTold[o] # "none" => rsStored # "none"

RsInv ==
    /\ DOMAIN rsPc = RsActors
    /\ rsPc = [a \in RsActors |-> rsPc[a]]
    /\ rsSaw = [a \in RsViewers |-> rsSaw[a]]
    /\ rsTold = [o \in RsObservers |-> rsTold[o]]
    /\ RsExclusive /\ RsOwned /\ RsSeen

-----------------------------------------------------------------------------
LEMMA RsInitInv == RsInit => RsInv
  BY RsConstants
  DEF RsInit, RsInv, RsExclusive, RsOwned, RsSeen, RsWriters, RsViewers, RsActors

(* A step moves one actor.                                                 *)
LEMMA RsMoves ==
    ASSUME RsInv, NEW a \in RsActors, NEW label, RsGoto(a, label)
    PROVE  /\ rsPc' = [b \in RsActors |-> rsPc'[b]] /\ DOMAIN rsPc' = RsActors
           /\ rsPc'[a] = label
           /\ \A b \in RsActors : b # a => rsPc'[b] = rsPc[b]
  BY DEF RsGoto, RsInv

(* The capture around its drain: it owns the directory until it is done.   *)
LEMMA RsCaptureInv ==
    ASSUME RsInv, RsMkdir \/ RsClose \/ RsRename \/ RsCrash PROVE RsInv'
<1>1. "capture" \in RsActors /\ RsViewers \subseteq RsActors /\ RsWriters \subseteq RsActors
      /\ "capture" \notin RsViewers /\ "capture" \in RsWriters
  BY RsConstants DEF RsActors, RsViewers, RsWriters
<1>2. rsPc["capture"] # "ok" /\ rsDir # "captures"
  BY DEF RsMkdir, RsClose, RsRename, RsCrash, RsInv, RsOwned
<1>3. UNCHANGED <<rsManifest, rsMarker, rsSaw, rsStored, rsTold>>
  BY DEF RsMkdir, RsClose, RsRename, RsCrash, rsViews
<1>4. PICK label : RsGoto("capture", label) /\ label # "fill"
  BY DEF RsMkdir, RsClose, RsRename, RsCrash
<1>5. /\ rsPc' = [b \in RsActors |-> rsPc'[b]] /\ DOMAIN rsPc' = RsActors
      /\ rsPc'["capture"] = label
      /\ \A b \in RsActors : b # "capture" => rsPc'[b] = rsPc[b]
  BY <1>1, <1>4, RsMoves
<1>6. RsExclusive'
  BY <1>1, <1>3, <1>4, <1>5 DEF RsInv, RsExclusive
<1>7. RsOwned'
  <2>1. CASE RsMkdir \/ RsClose \/ RsCrash
    <3>1. rsPc'["capture"] \in {"run", "check", "create", "dead"}
      BY <1>1, <2>1, <1>5, RsMoves DEF RsMkdir, RsClose, RsCrash
    <3>2. rsDir' # "captures"
      BY <1>2, <2>1 DEF RsMkdir, RsClose, RsCrash
    <3> QED
      BY <3>1, <3>2 DEF RsOwned
  <2>2. CASE RsRename
    <3>1. rsPc'["capture"] = "ok" /\ rsDir' = "captures" /\ rsPc["capture"] = "rename"
          /\ rsOutcome' = rsOutcome
      BY <1>1, <2>2, RsMoves DEF RsRename
    <3> QED
      BY <1>3, <3>1 DEF RsInv, RsOwned
  <2> QED
    BY <2>1, <2>2
<1>8. RsSeen'
  BY <1>1, <1>2, <1>3, <1>5 DEF RsInv, RsSeen, RsViewers
<1> QED
  BY <1>3, <1>5, <1>6, <1>7, <1>8 DEF RsInv

(* open(manifest, "x") lets one writer in; nothing is written after a      *)
(* rename.                                                                 *)
LEMMA RsWriterInv ==
    ASSUME RsInv, NEW a \in RsWriters, RsCreate(a) \/ RsFill(a) \/ RsCheck(a) \/ RsMark(a)
    PROVE  RsInv'
<1>1. a \in RsActors /\ "capture" \in RsActors /\ a \notin RsViewers
      /\ RsViewers \subseteq RsActors /\ RsWriters \subseteq RsActors
  BY RsConstants DEF RsActors, RsViewers, RsWriters
<1>2. UNCHANGED <<rsDir, rsRaw, rsOutcome, rsSaw, rsStored, rsTold>>
  BY DEF RsCreate, RsFill, RsCheck, RsMark, rsFiles, rsViews
<1>3. PICK label : /\ RsGoto(a, label)
                   /\ \/ label \in {"create", "marker", "ended", "raised"} /\ UNCHANGED rsManifest
                      \/ label = "fill" /\ rsManifest = "absent" /\ rsManifest' = "torn"
                      \/ /\ rsPc[a] = "fill" /\ label \in {"rename", "marker"}
                         /\ rsManifest' = IF a = "capture" THEN rsOutcome ELSE "INCOMPLETE"
                         /\ label = "rename" => a = "capture" /\ rsOutcome \in RsFinal
  BY DEF RsCreate, RsCreateNew, RsFill, RsCheck, RsMark, rsFiles
<1>4. /\ rsPc' = [b \in RsActors |-> rsPc'[b]] /\ DOMAIN rsPc' = RsActors
      /\ rsPc'[a] = label
      /\ \A b \in RsActors : b # a => rsPc'[b] = rsPc[b]
  BY <1>1, <1>3, RsMoves
<1>5. rsPc[a] \in {"create", "fill", "check", "marker"}
  BY DEF RsCreate, RsFill, RsCheck, RsMark
<1>6. RsExclusive'
  BY <1>1, <1>3, <1>4 DEF RsInv, RsExclusive
<1>7. RsOwned'
  <2>1. rsManifest' = rsManifest \/ rsManifest \in {"absent", "torn"}
    BY <1>3 DEF RsInv, RsExclusive
  <2>2. rsPc["capture"] = "rename" \/ rsDir = "captures" => rsManifest \in RsFinal
    BY DEF RsInv, RsOwned
  <2>3. rsPc["capture"] = "rename" \/ rsDir = "captures" => rsManifest' = rsManifest
    BY <2>1, <2>2 DEF RsFinal
  <2>4. a = "capture" => rsDir # "captures"
    BY <1>5 DEF RsInv, RsOwned
  <2>5. CASE a = "capture"
    BY <1>2, <1>3, <1>4, <2>4, <2>5 DEF RsOwned
  <2>6. CASE a # "capture"
    <3>1. rsPc'["capture"] = rsPc["capture"]
      BY <1>1, <1>4, <2>6
    <3> QED
      BY <1>2, <2>3, <3>1 DEF RsInv, RsOwned
  <2> QED
    BY <2>5, <2>6
<1>8. RsSeen'
  BY <1>1, <1>2, <1>4 DEF RsInv, RsSeen, RsViewers
<1> QED
  BY <1>2, <1>4, <1>6, <1>7, <1>8 DEF RsInv

(* A recovery's glob, readers and ingestions write nothing but their own   *)
(* answer and the observation.                                             *)
LEMMA RsViewerInv ==
    ASSUME RsInv,
           \/ \E r \in RsRecoverers : RsGlob(r)
           \/ \E a \in RsViewers : RsResolve(a) \/ RsResolvePartial(a) \/ RsLoad(a) \/ RsVerify(a)
           \/ \E o \in RsObservers : RsExists(o) \/ RsReplace(o)
    PROVE  RsInv'
<1>1. "capture" \in RsActors /\ RsRecoverers \subseteq RsActors /\ RsViewers \subseteq RsActors
      /\ RsRecoverers \cap RsViewers = {} /\ "capture" \notin RsRecoverers \cup RsViewers
      /\ RsObservers \subseteq RsViewers /\ RsWriters \subseteq RsActors
      /\ RsWriters \cap RsViewers = {}
  BY RsConstants DEF RsActors, RsViewers, RsWriters
<1>2. UNCHANGED <<rsDir, rsManifest, rsMarker, rsRaw, rsOutcome>>
  BY DEF RsGlob, RsResolve, RsResolvePartial, RsLoad, RsVerify, RsExists, RsReplace, rsFiles
<1>3. ASSUME NEW a \in RsRecoverers \cup RsViewers, NEW label, RsGoto(a, label), label # "fill"
      PROVE  /\ rsPc' = [b \in RsActors |-> rsPc'[b]] /\ DOMAIN rsPc' = RsActors
             /\ rsPc'[a] = label /\ \A b \in RsActors : b # a => rsPc'[b] = rsPc[b]
             /\ RsExclusive' /\ RsOwned'
  <2>1. /\ rsPc' = [b \in RsActors |-> rsPc'[b]] /\ DOMAIN rsPc' = RsActors
        /\ rsPc'[a] = label /\ \A b \in RsActors : b # a => rsPc'[b] = rsPc[b]
    BY <1>1, <1>3, RsMoves
  <2>2. rsPc'["capture"] = rsPc["capture"]
    BY <1>1, <2>1
  <2>3. RsOwned'
    BY <1>2, <2>2 DEF RsInv, RsOwned
  <2>4. RsExclusive'
    BY <1>1, <1>2, <1>3, <2>1 DEF RsInv, RsExclusive
  <2> QED
    BY <2>1, <2>3, <2>4
<1>4. CASE \E r \in RsRecoverers : RsGlob(r)
  <2>1. PICK r \in RsRecoverers : RsGlob(r)
    BY <1>4
  <2>2. PICK label : RsGoto(r, label) /\ label # "fill"
    BY <2>1 DEF RsGlob
  <2>3. UNCHANGED <<rsSaw, rsStored, rsTold>>
    BY <2>1 DEF RsGlob, rsViews
  <2>4. RsSeen'
    BY <1>1, <1>2, <1>3, <2>2, <2>3 DEF RsInv, RsSeen
  <2> QED
    BY <1>3, <2>2, <2>3, <2>4 DEF RsInv
<1>5. CASE \E a \in RsViewers : RsResolve(a) \/ RsResolvePartial(a) \/ RsLoad(a) \/ RsVerify(a)
  <2>1. PICK a \in RsViewers : RsResolve(a) \/ RsResolvePartial(a) \/ RsLoad(a) \/ RsVerify(a)
    BY <1>5
  <2>2. UNCHANGED <<rsStored, rsTold>>
    BY <2>1 DEF RsResolve, RsResolvePartial, RsLoad, RsVerify, rsViews
  <2>3. PICK label, status :
           /\ RsGoto(a, label) /\ label # "fill"
           /\ label \in {"load", "verify"} => rsDir = "captures"
           /\ label \in {"exists", "replace"} \/ status = "AVAILABLE" =>
                  rsDir = "captures" /\ rsRaw = "match"
           /\ rsSaw' = [rsSaw EXCEPT ![a] = status]
    <3>1. rsPc[a] \in {"load", "verify"} => rsDir = "captures"
      BY DEF RsInv, RsSeen
    <3>2. rsSaw[a] = "AVAILABLE" => rsDir = "captures" /\ rsRaw = "match"
      BY DEF RsInv, RsSeen
    <3>3. rsSaw = [rsSaw EXCEPT ![a] = rsSaw[a]]
      BY DEF RsInv
    <3>4. CASE RsResolve(a)
      BY <3>2, <3>3, <3>4 DEF RsResolve, rsViews
    <3>5. CASE RsResolvePartial(a)
      BY <3>5 DEF RsResolvePartial, RsEnd
    <3>6. CASE RsLoad(a)
      <4>1. \/ RsGoto(a, "verify") /\ UNCHANGED rsSaw
            \/ \E status \in {"INCOMPLETE", "TAMPERED"} : RsEnd(a, status)
        BY <3>6 DEF RsLoad
      <4>2. rsDir = "captures"
        BY <3>1, <3>6 DEF RsLoad
      <4> QED
        BY <3>2, <3>3, <4>1, <4>2 DEF RsEnd
    <3>7. CASE RsVerify(a)
      <4>1. rsDir = "captures"
        BY <3>1, <3>7 DEF RsVerify
      <4>2. \/ RsEnd(a, "TAMPERED")
            \/ /\ rsRaw = "match" /\ rsSaw' = [rsSaw EXCEPT ![a] = "AVAILABLE"]
               /\ RsGoto(a, "exists") \/ RsGoto(a, "ended")
        BY <3>7 DEF RsVerify, RsVerifies, RsEnd
      <4> QED
        BY <4>1, <4>2 DEF RsEnd
    <3> QED
      BY <2>1, <3>4, <3>5, <3>6, <3>7
  <2>4. /\ rsSaw' = [b \in RsViewers |-> rsSaw'[b]] /\ rsSaw'[a] = status
        /\ \A b \in RsViewers : b # a => rsSaw'[b] = rsSaw[b]
    BY <2>3 DEF RsInv
  <2>5. /\ rsPc' = [b \in RsActors |-> rsPc'[b]] /\ DOMAIN rsPc' = RsActors
        /\ rsPc'[a] = label /\ \A b \in RsActors : b # a => rsPc'[b] = rsPc[b]
        /\ RsExclusive' /\ RsOwned'
    BY <1>3, <2>3
  <2>6. RsSeen'
    BY <1>1, <1>2, <2>2, <2>3, <2>4, <2>5 DEF RsInv, RsSeen
  <2> QED
    BY <2>2, <2>4, <2>5, <2>6 DEF RsInv
<1>6. CASE \E o \in RsObservers : RsExists(o) \/ RsReplace(o)
  <2>1. PICK o \in RsObservers : RsExists(o) \/ RsReplace(o)
    BY <1>6
  <2>2. UNCHANGED rsSaw /\ rsDir = "captures" /\ rsRaw = "match"
    BY <1>1, <2>1 DEF RsExists, RsReplace, RsInv, RsSeen
  <2>3. PICK label : RsGoto(o, label) /\ label \in {"replace", "ended"}
    BY <2>1 DEF RsExists, RsReplace
  <2>4. /\ rsTold' = [p \in RsObservers |-> rsTold'[p]]
        /\ rsStored # "none" => rsStored' # "none"
        /\ \A p \in RsObservers : rsTold'[p] # "none" => rsStored' # "none"
    <3>1. \/ UNCHANGED <<rsStored, rsTold>>
          \/ rsStored # "none" /\ UNCHANGED rsStored
             /\ rsTold' = [rsTold EXCEPT ![o] = rsStored]
          \/ rsStored' = o /\ rsTold' = [rsTold EXCEPT ![o] = o]
      BY <2>1 DEF RsExists, RsReplace
    <3>2. o # "none"
      BY RsConstants
    <3> QED
      BY <3>1, <3>2 DEF RsInv, RsSeen
  <2>5. /\ rsPc' = [b \in RsActors |-> rsPc'[b]] /\ DOMAIN rsPc' = RsActors
        /\ rsPc'[o] = label /\ \A b \in RsActors : b # o => rsPc'[b] = rsPc[b]
        /\ RsExclusive' /\ RsOwned'
    BY <1>1, <1>3, <2>3
  <2>6. RsSeen'
    BY <1>1, <1>2, <2>2, <2>3, <2>4, <2>5 DEF RsInv, RsSeen
  <2> QED
    BY <2>2, <2>4, <2>5, <2>6 DEF RsInv
<1> QED
  BY <1>4, <1>5, <1>6

LEMMA RsNextInv == RsInv /\ [RsNext]_rsVars => RsInv'
<1> SUFFICES ASSUME RsInv, [RsNext]_rsVars PROVE RsInv'
  OBVIOUS
<1>1. CASE RsReturned \/ UNCHANGED rsVars
  BY <1>1 DEF RsReturned, rsVars, RsInv, RsExclusive, RsOwned, RsSeen
<1> QED
  BY <1>1, RsCaptureInv, RsWriterInv, RsViewerInv DEF RsNext, RsWriters, RsViewers

(* The invariant of the directory of one capture, for any number of        *)
(* recover_partials, verify_capture and ingestions over it.                *)
THEOREM ReferenceInvariance == RsSpec => []RsInv
<1>1. RsInit => RsInv
  BY RsInitInv
<1>2. RsInv /\ [RsNext]_rsVars => RsInv'
  BY RsNextInv
<1> QED
  BY <1>1, <1>2, PTL DEF RsSpec

(* captures/ holds only captures that their own capture_command finished,  *)
(* with its whole manifest, however many recoveries race it.               *)
THEOREM PublishedByOwner == RsSpec => []PublishedByItsCapture
<1>1. RsInv => PublishedByItsCapture
  BY DEF RsInv, RsOwned, PublishedByItsCapture
<1> QED
  BY <1>1, ReferenceInvariance, PTL

(* AVAILABLE from verify_capture and a stored observation stay backed by   *)
(* a published capture whose files match, whoever else is at work.         *)
THEOREM AvailableStaysBacked == RsSpec => []AvailableIsBacked
<1>1. RsInv => AvailableIsBacked
  BY DEF RsInv, RsOwned, RsSeen, RsViewers, AvailableIsBacked
<1> QED
  BY <1>1, ReferenceInvariance, PTL

\* The outcome is decided before a manifest is begun.
RsDecided == rsOutcome = "none" => rsPc["capture"] \in {"start", "run", "dead"}

(* The values the state of a capture directory takes; the types are not    *)
(* inductive alone, since the manifest is filled with the outcome.         *)
THEOREM RsTypes == RsSpec => []RsTypeOK
<1>1. RsInit => RsTypeOK
  BY DEF RsInit, RsTypeOK, RsStatuses
<1>2. RsInit => RsDecided
  BY DEF RsInit, RsDecided, RsActors
<1>3. RsTypeOK /\ RsDecided /\ [RsNext]_rsVars => RsTypeOK'
  <2> SUFFICES ASSUME RsTypeOK, RsDecided, [RsNext]_rsVars PROVE RsTypeOK'
    OBVIOUS
  <2>1. CASE RsMkdir \/ RsClose \/ RsRename \/ RsCrash
    BY <2>1 DEF RsMkdir, RsClose, RsRename, RsCrash, RsGoto, RsTypeOK, rsViews
  <2>2. ASSUME NEW a \in {"capture"} \cup RsRecoverers,
               RsCreate(a) \/ RsFill(a) \/ RsCheck(a) \/ RsMark(a)
        PROVE  RsTypeOK'
    <3>1. /\ UNCHANGED <<rsDir, rsRaw, rsOutcome, rsViews>>
          /\ rsMarker' \in {rsMarker, TRUE}
          /\ \E label : RsGoto(a, label)
      BY <2>2 DEF RsCreate, RsCreateNew, RsFill, RsCheck, RsMark, rsFiles
    <3>2. rsManifest' \in {"absent", "torn", "INCOMPLETE"} \cup RsFinal
      <4>1. CASE RsFill(a)
        BY <4>1 DEF RsFill, RsTypeOK, RsDecided
      <4>2. CASE RsCreate(a) \/ RsCheck(a) \/ RsMark(a)
        <5>1. rsManifest' \in {rsManifest, "torn"}
          BY <4>2 DEF RsCreate, RsCreateNew, RsCheck, RsMark, rsFiles
        <5> QED
          BY <5>1 DEF RsTypeOK
      <4> QED
        BY <2>2, <4>1, <4>2
    <3> QED
      BY <3>1, <3>2 DEF RsGoto, RsTypeOK, rsViews
  <2>3. ASSUME NEW r \in RsRecoverers, RsGlob(r) PROVE RsTypeOK'
    BY <2>3 DEF RsGlob, RsGoto, RsTypeOK, rsFiles, rsViews
  <2>4. ASSUME NEW a \in RsReaders \cup RsObservers,
               RsResolve(a) \/ RsResolvePartial(a) \/ RsLoad(a) \/ RsVerify(a)
        PROVE  RsTypeOK'
    <3>1. /\ UNCHANGED <<rsFiles, rsOutcome, rsStored, rsTold>> /\ \E label : RsGoto(a, label)
          /\ \/ UNCHANGED rsSaw
             \/ \E status \in RsStatuses : rsSaw' = [rsSaw EXCEPT ![a] = status]
      BY <2>4 DEF RsResolve, RsResolvePartial, RsLoad, RsVerify, RsEnd, RsStatuses, rsViews
    <3> QED
      BY <3>1 DEF RsGoto, RsTypeOK, rsFiles
  <2>5. ASSUME NEW o \in RsObservers, RsExists(o) \/ RsReplace(o) PROVE RsTypeOK'
    BY <2>5 DEF RsExists, RsReplace, RsGoto, RsTypeOK, rsFiles
  <2>6. CASE RsReturned \/ UNCHANGED rsVars
    BY <2>6 DEF RsReturned, rsVars, RsTypeOK
  <2> QED
    BY <2>1, <2>2, <2>3, <2>4, <2>5, <2>6 DEF RsNext
<1>4. RsTypeOK /\ RsDecided /\ [RsNext]_rsVars => RsDecided'
  <2> SUFFICES ASSUME RsTypeOK, RsDecided, [RsNext]_rsVars, rsOutcome' = "none"
               PROVE  rsPc'["capture"] \in {"start", "run", "dead"}
    BY DEF RsDecided
  <2>1. DOMAIN rsPc = RsActors /\ "capture" \in RsActors
    BY DEF RsTypeOK, RsActors
  <2>2. CASE RsMkdir \/ RsClose \/ RsRename \/ RsCrash
    BY <2>1, <2>2 DEF RsMkdir, RsClose, RsRename, RsCrash, RsGoto, RsDecided, RsFinal
  <2>3. ASSUME NEW a \in {"capture"} \cup RsRecoverers,
               RsCreate(a) \/ RsFill(a) \/ RsCheck(a) \/ RsMark(a)
        PROVE  rsPc'["capture"] \in {"start", "run", "dead"}
    <3>1. UNCHANGED rsOutcome /\ rsPc[a] \in {"create", "fill", "check", "marker"}
          /\ \E label : RsGoto(a, label)
      BY <2>3 DEF RsCreate, RsCreateNew, RsFill, RsCheck, RsMark
    <3> QED
      BY <2>1, <3>1 DEF RsGoto, RsDecided
  <2>4. ASSUME NEW a \in RsRecoverers \cup RsReaders \cup RsObservers, UNCHANGED rsOutcome,
               \E label : RsGoto(a, label)
        PROVE  rsPc'["capture"] \in {"start", "run", "dead"}
    BY <2>1, <2>4, RsConstants DEF RsGoto, RsDecided
  <2>5. ASSUME NEW r \in RsRecoverers, RsGlob(r)
        PROVE  rsPc'["capture"] \in {"start", "run", "dead"}
    BY <2>4, <2>5 DEF RsGlob
  <2>6. ASSUME NEW a \in RsReaders \cup RsObservers,
               RsResolve(a) \/ RsResolvePartial(a) \/ RsLoad(a) \/ RsVerify(a)
        PROVE  rsPc'["capture"] \in {"start", "run", "dead"}
    <3>1. UNCHANGED rsOutcome /\ \E label : RsGoto(a, label)
      BY <2>6 DEF RsResolve, RsResolvePartial, RsLoad, RsVerify, RsEnd
    <3> QED
      BY <2>4, <3>1
  <2>7. ASSUME NEW o \in RsObservers, RsExists(o) \/ RsReplace(o)
        PROVE  rsPc'["capture"] \in {"start", "run", "dead"}
    BY <2>4, <2>7 DEF RsExists, RsReplace
  <2>8. CASE RsReturned \/ UNCHANGED rsVars
    BY <2>8 DEF RsReturned, rsVars, RsDecided
  <2> QED
    BY <2>2, <2>3, <2>5, <2>6, <2>7, <2>8 DEF RsNext
<1> QED
  BY <1>1, <1>2, <1>3, <1>4, PTL DEF RsSpec

\* Before its files are closed a capture has no outcome.
RsUndecided == rsPc["capture"] \in {"start", "run"} => rsOutcome = "none"

(* Nobody but RsClose decides, and nobody returns to before it.            *)
LEMMA RsDecidesOnce == RsInv /\ RsUndecided /\ [RsNext]_rsVars => RsUndecided'
<1> SUFFICES ASSUME RsInv, RsUndecided, [RsNext]_rsVars,
                    rsPc'["capture"] \in {"start", "run"}
             PROVE  rsOutcome' = "none"
  BY DEF RsUndecided
<1>1. DOMAIN rsPc = RsActors /\ "capture" \in RsActors
  BY DEF RsInv, RsActors
<1>2. CASE RsMkdir \/ RsClose \/ RsRename \/ RsCrash
  BY <1>1, <1>2 DEF RsMkdir, RsClose, RsRename, RsCrash, RsGoto, RsUndecided
<1>3. ASSUME NEW a \in RsWriters, RsCreate(a) \/ RsFill(a) \/ RsCheck(a) \/ RsMark(a)
      PROVE  rsOutcome' = "none"
  <2>1. /\ UNCHANGED rsOutcome
        /\ \E label \in {"fill", "raised", "rename", "marker", "create", "ended"} :
               RsGoto(a, label)
    BY <1>3 DEF RsCreate, RsCreateNew, RsFill, RsCheck, RsMark
  <2> QED
    BY <1>1, <2>1 DEF RsGoto, RsUndecided
<1>4. ASSUME NEW a \in RsRecoverers \cup RsViewers, UNCHANGED rsOutcome,
             \E label : RsGoto(a, label)
      PROVE  rsOutcome' = "none"
  BY <1>1, <1>4, RsConstants DEF RsGoto, RsUndecided, RsViewers
<1>5. ASSUME NEW r \in RsRecoverers, RsGlob(r) PROVE rsOutcome' = "none"
  BY <1>4, <1>5 DEF RsGlob
<1>6. ASSUME NEW a \in RsViewers,
             RsResolve(a) \/ RsResolvePartial(a) \/ RsLoad(a) \/ RsVerify(a)
      PROVE  rsOutcome' = "none"
  <2>1. UNCHANGED rsOutcome /\ \E label : RsGoto(a, label)
    BY <1>6 DEF RsResolve, RsResolvePartial, RsLoad, RsVerify, RsEnd
  <2> QED
    BY <1>4, <2>1
<1>7. ASSUME NEW o \in RsObservers, RsExists(o) \/ RsReplace(o) PROVE rsOutcome' = "none"
  BY <1>4, <1>7 DEF RsExists, RsReplace, RsViewers
<1>8. CASE RsReturned \/ UNCHANGED rsVars
  BY <1>8 DEF RsReturned, rsVars, RsUndecided
<1> QED
  BY <1>2, <1>3, <1>5, <1>6, <1>7, <1>8 DEF RsNext, RsWriters, RsViewers

\* Somebody was told exactly when the capture is published.
RsToldInFull ==
    /\ RsPromised = (rsDir = "captures")
    /\ rsDir = "captures" => rsOutcome \in RsFinal /\ rsManifest = rsOutcome

(* The invariant says who was told.                                        *)
LEMMA RsToldIsPublished == RsInv => RsToldInFull
<1> SUFFICES ASSUME RsInv PROVE RsToldInFull
  OBVIOUS
<1>1. rsDir = "captures" => RsPromised /\ rsOutcome \in RsFinal /\ rsManifest = rsOutcome
  BY DEF RsInv, RsOwned, RsPromised
<1>2. ASSUME RsPromised PROVE rsDir = "captures"
  <2>1. CASE rsPc["capture"] = "ok" \/ rsStored # "none"
    BY <2>1 DEF RsInv, RsOwned, RsSeen
  <2>2. CASE \E a \in DOMAIN rsSaw : rsSaw[a] = "AVAILABLE"
    BY <2>2 DEF RsInv, RsSeen
  <2> QED
    BY <1>2, <2>1, <2>2 DEF RsPromised
<1>3. RsPromised \in BOOLEAN
  BY DEF RsPromised
<1> QED
  BY <1>1, <1>2, <1>3 DEF RsToldInFull

(* Every step of the reference engine's capture, recoveries, readers and   *)
(* ingestions is one of Publication, or leaves it alone.                   *)
THEOREM ReferenceImplementsPublication == RsSpec => ReferencePublishes
<1> DEFINE Decided == IF rsOutcome \in RsFinal THEN rsOutcome ELSE "none"
<1>1. ASSUME RsInit PROVE RsContract!Init
  <2>1. RsPromised = FALSE
    BY <1>1 DEF RsInit, RsPromised, RsActors
  <2>2. RsKept = "nothing"
    BY <1>1 DEF RsInit, RsKept
  <2>3. rsOutcome \notin RsFinal
    BY <1>1 DEF RsInit, RsFinal
  <2> QED
    BY <2>1, <2>2, <2>3 DEF RsContract!Init
<1>2. ASSUME RsInv, RsUndecided, RsToldInFull, RsInv', RsToldInFull', [RsNext]_rsVars
      PROVE  [RsContract!Next]_<<FALSE, Decided, RsKept, RsPromised>>
  <2>1. CASE RsClose
    <3>1. rsOutcome = "none" /\ rsDir # "captures" /\ rsDir' = rsDir
      BY <1>2, <2>1 DEF RsClose, RsUndecided, RsInv, RsOwned
    <3>2. RsKept' = RsKept /\ RsPromised' = RsPromised /\ Decided = "none"
      BY <1>2, <3>1 DEF RsKept, RsToldInFull, RsFinal
    <3>3. Decided' \in RsFinal \/ Decided' = Decided
      BY <3>2
    <3> QED
      BY <3>2, <3>3 DEF RsContract!Next, RsContract!Decide
  <2>2. CASE RsRename
    <3>1. /\ rsDir # "captures" /\ rsOutcome \in RsFinal /\ rsManifest = rsOutcome
          /\ rsDir' = "captures" /\ UNCHANGED <<rsManifest, rsOutcome>>
      BY <1>2, <2>2 DEF RsRename, RsInv, RsOwned
    <3>2. RsKept = "nothing" /\ RsKept' = Decided /\ Decided' = Decided /\ Decided # "none"
      BY <3>1 DEF RsKept, RsFinal
    <3>3. RsPromised' \in BOOLEAN
      BY <1>2 DEF RsToldInFull
    <3> QED
      BY <3>2, <3>3 DEF RsContract!Next, RsContract!Publish
  <2>3. CASE ~RsClose /\ ~RsRename
    <3>1. rsOutcome' = rsOutcome /\ rsDir' \in {rsDir, "partial"}
      BY <1>2, <2>3 DEF RsNext, rsVars, rsFiles, RsMkdir, RsCrash, RsReturned, RsCreate, RsFill,
         RsCheck, RsMark, RsGlob, RsResolve, RsResolvePartial, RsLoad, RsVerify, RsExists,
         RsReplace
    <3>2. rsDir' # rsDir => rsPc["capture"] = "start"
      BY <1>2, <2>3 DEF RsNext, rsVars, rsFiles, RsMkdir, RsCrash, RsReturned, RsCreate, RsFill,
         RsCheck, RsMark, RsGlob, RsResolve, RsResolvePartial, RsLoad, RsVerify, RsExists,
         RsReplace
    <3>3. rsDir = "captures" <=> rsDir' = "captures"
      BY <1>2, <3>1, <3>2 DEF RsInv, RsOwned
    <3> QED
      BY <1>2, <3>1, <3>3 DEF RsKept, RsToldInFull
  <2> QED
    BY <2>1, <2>2, <2>3
<1>3. RsInit => RsUndecided
  BY DEF RsInit, RsUndecided
<1> QED
  BY <1>1, <1>2, <1>3, ReferenceInvariance, RsDecidesOnce, RsToldIsPublished, PTL
  DEF RsSpec, ReferencePublishes, RsContract!Spec

-----------------------------------------------------------------------------
(* An extension call.                                                      *)

ExShape ==
    /\ exPc \in {"called", "loop", "reap", "conclude", "contribute", "ended"}
    /\ exWorker \in {"none", "read", "plugin", "write", "exited"}
    /\ exFlags \subseteq {"timed_out", "overflowed"}
    /\ exSent \in 0..ExBody
    /\ exPipe \in [ExStreams -> 0..ExPipe]
    /\ exGot \in [ExOutputs -> 0..(ExLimit + 1)]
    /\ exMade \in [ExOutputs -> 0..ExWritten]

\* Without an overflow no byte is lost between the worker and the buffer.
ExConserved ==
    exFlags = {} => /\ exGot["stdout"] + exPipe["stdout"] = exMade["stdout"]
                    /\ exGot["stdout"] <= ExLimit

\* A stream is unregistered, without a flag, only at its end of file.
ExDrained ==
    exFlags = {} /\ "stdout" \notin exOpen =>
        exPipe["stdout"] = 0 /\ "stdout" \notin exHeld

\* Plugin code runs, and the worker exits with 0, only after a whole request.
ExAsked == (exWorker \in {"plugin", "write"} \/ exCode = "0") => exSent = ExBody

\* Where the caller is and what it left behind.
ExControl ==
    /\ exPc \in {"called", "loop"} => exFlags = {}
    /\ exPc # "loop" => exOpen = {}
    /\ exWorker = "none" => exPc \in {"called", "ended"}
    /\ exPc \in {"called", "conclude", "contribute", "ended"} =>
           exWorker \in {"none", "exited"}
    /\ exVerdict # "none" => exPc \in {"contribute", "ended"}

\* What a verdict stands on.
ExGrounds ==
    /\ exReply # "none" => exMade["stdout"] > 0
    /\ exVerdict = "ACCEPTED" => exFlags = {} /\ exCode = "0" /\ exReply = "ACCEPTED"
    /\ exRecord = "ACCEPTED" => exVerdict = "ACCEPTED"

ExInv == ExShape /\ ExConserved /\ ExDrained /\ ExAsked /\ ExControl /\ ExGrounds

-----------------------------------------------------------------------------
LEMMA ExInitInv == ExInit => ExInv
<1> SUFFICES ASSUME ExInit PROVE ExInv
  OBVIOUS
<1>1. exGot["stdout"] = 0 /\ exPipe["stdout"] = 0 /\ exMade["stdout"] = 0
  BY DEF ExInit, ExZero, ExStreams, ExOutputs
<1>2. ExShape
  BY ExConstants DEF ExInit, ExShape, ExZero
<1> QED
  BY <1>1, <1>2, ExConstants
  DEF ExInit, ExInv, ExConserved, ExDrained, ExAsked, ExControl, ExGrounds

(* The facts about the counters that every step rests on.                  *)
LEMMA ExCounters ==
    ASSUME ExShape
    PROVE  /\ exSent \in Nat /\ ExBody \in Nat /\ ExLimit \in Nat /\ ExPipe \in Nat
           /\ \A s \in ExOutputs : exGot[s] \in Nat /\ exMade[s] \in Nat /\ exPipe[s] \in Nat
           /\ \A s \in ExStreams : exPipe[s] \in Nat /\ exPipe[s] <= ExPipe
  BY ExConstants DEF ExShape, ExStreams, ExOutputs

(* invoke_extension is called.                                             *)
LEMMA ExPrepareInv == ExInv /\ ExPrepare => ExInv'
<1> SUFFICES ASSUME ExInv, ExPrepare PROVE ExInv'
  OBVIOUS
<1>1. /\ exPc = "called" /\ exOpen = {} /\ exVerdict = "none"
      /\ exWorker \in {"none", "exited"}
  BY DEF ExInv, ExPrepare, ExControl
<1>2. UNCHANGED <<exSent, exPipe, exGot, exLate, exFlags, exMade, exReply, exCode, exRecord>>
  BY DEF ExPrepare
<1>3. \/ /\ exPc' = "ended" /\ exVerdict' = "UNAVAILABLE"
         /\ UNCHANGED <<exOpen, exWorker, exHeld>>
      \/ /\ exPc' = "loop" /\ exOpen' = ExStreams
         /\ exWorker' = "read" /\ exHeld' = ExStreams
         /\ UNCHANGED exVerdict
  BY DEF ExPrepare
<1>4. CASE exPc' = "ended"
  BY <1>1, <1>2, <1>3, <1>4
  DEF ExInv, ExShape, ExConserved, ExDrained, ExAsked, ExControl, ExGrounds
<1>5. CASE exPc' = "loop"
  BY <1>1, <1>2, <1>3, <1>5
  DEF ExInv, ExShape, ExConserved, ExDrained, ExAsked, ExControl, ExGrounds, ExStreams
<1> QED
  BY <1>3, <1>4, <1>5

(* The worker's own steps; the caller's state stays as it is.              *)
LEMMA ExWorkerInv ==
    ASSUME ExInv, ExWorkerRead \/ ExWorkerSetup \/ ExPlugin \/ ExWorkerWrite PROVE ExInv'
<1>1. UNCHANGED <<exPhase, exPc, exOpen, exSent, exGot, exFlags, exVerdict, exRecord>>
  BY DEF ExWorkerRead, ExWorkerSetup, ExPlugin, ExWorkerWrite, exParent
<1>2. exWorker \in {"read", "plugin", "write"} /\ exVerdict = "none" /\ exRecord # "ACCEPTED"
      /\ exPc \in {"loop", "reap"}
  BY DEF ExWorkerRead, ExWorkerSetup, ExPlugin, ExWorkerWrite, ExInv, ExControl, ExGrounds,
         ExShape
<1>3. CASE ExWorkerRead
  <2>1. exPipe' = [exPipe EXCEPT !["stdin"] = 0] /\ UNCHANGED exChild
    BY <1>3 DEF ExWorkerRead
  <2>2. exPipe' \in [ExStreams -> 0..ExPipe] /\ exPipe'["stdout"] = exPipe["stdout"]
    BY <2>1, ExConstants DEF ExInv, ExShape, ExStreams, ExOutputs
  <2> QED
    BY <1>1, <2>1, <2>2
    DEF ExInv, ExShape, ExConserved, ExDrained, ExAsked, ExControl, ExGrounds, exChild
<1>4. CASE ExWorkerSetup
  <2>1. UNCHANGED <<exPipe, exMade, exReply>>
    BY <1>4 DEF ExWorkerSetup
  <2>2. \/ exSent = ExBody /\ exWorker' = "plugin" /\ UNCHANGED <<exHeld, exCode>>
        \/ exWorker' = "exited" /\ exHeld' = {} /\ exCode' = "70"
    BY <1>4 DEF ExWorkerSetup, ExFromBytes, ExExit
  <2> QED
    BY <1>1, <1>2, <2>1, <2>2
    DEF ExInv, ExShape, ExConserved, ExDrained, ExAsked, ExControl, ExGrounds
<1>5. ASSUME NEW s \in ExOutputs, s \in exHeld, exPipe[s] < ExPipe, exMade[s] < ExWritten,
             exPipe' = [exPipe EXCEPT ![s] = @ + 1],
             exMade' = [exMade EXCEPT ![s] = @ + 1],
             s # "stdout" => UNCHANGED exReply
      PROVE  /\ exPipe' \in [ExStreams -> 0..ExPipe] /\ exMade' \in [ExOutputs -> 0..ExWritten]
             /\ ExConserved' /\ (exReply' # "none" => exMade'["stdout"] > 0)
             /\ exFlags = {} /\ "stdout" \notin exOpen =>
                    exPipe'["stdout"] = 0 /\ "stdout" \notin exHeld
  <2>1. exPipe' \in [ExStreams -> 0..ExPipe] /\ exMade' \in [ExOutputs -> 0..ExWritten]
    BY <1>5, ExConstants DEF ExInv, ExShape, ExStreams
  <2>2. CASE s = "stdout"
    <3>1. exPipe'[s] = exPipe[s] + 1 /\ exMade'[s] = exMade[s] + 1
      BY <1>5 DEF ExInv, ExShape, ExStreams
    <3>2. exPipe[s] \in Nat /\ exMade[s] \in Nat /\ exGot[s] \in Nat
      BY ExCounters DEF ExInv
    <3> QED
      BY <1>1, <1>5, <2>1, <2>2, <3>1, <3>2, SMTT(30) DEF ExInv, ExConserved, ExDrained
  <2>3. CASE s # "stdout"
    <3>1. exPipe'["stdout"] = exPipe["stdout"] /\ exMade'["stdout"] = exMade["stdout"]
      BY <1>5, <2>3 DEF ExInv, ExShape, ExStreams, ExOutputs
    <3> QED
      BY <1>1, <1>5, <2>1, <2>3, <3>1 DEF ExInv, ExConserved, ExDrained, ExGrounds
  <2> QED
    BY <2>2, <2>3
<1>6. CASE ExPlugin
  <2>1. exSent = ExBody /\ exWorker = "plugin"
    BY <1>6 DEF ExPlugin, ExInv, ExAsked
  <2>2. CASE \E s \in ExOutputs :
                /\ s \in exHeld /\ exPipe[s] < ExPipe /\ exMade[s] < ExWritten
                /\ exPipe' = [exPipe EXCEPT ![s] = @ + 1]
                /\ exMade' = [exMade EXCEPT ![s] = @ + 1]
                /\ s # "stdout" => UNCHANGED exReply
                /\ UNCHANGED <<exWorker, exHeld, exCode>>
    <3>1. /\ exPipe' \in [ExStreams -> 0..ExPipe] /\ exMade' \in [ExOutputs -> 0..ExWritten]
          /\ ExConserved' /\ (exReply' # "none" => exMade'["stdout"] > 0)
          /\ exFlags = {} /\ "stdout" \notin exOpen =>
                    exPipe'["stdout"] = 0 /\ "stdout" \notin exHeld
      BY <1>5, <2>2
    <3> QED
      BY <1>1, <1>2, <2>1, <2>2, <3>1
      DEF ExInv, ExShape, ExDrained, ExAsked, ExControl, ExGrounds
  <2>3. CASE /\ UNCHANGED <<exPipe, exMade, exReply>>
             /\ exHeld' \subseteq exHeld
             /\ \/ UNCHANGED <<exWorker, exCode>>
                \/ exWorker' \in {"exited", "write"}
    BY <1>1, <1>2, <2>1, <2>3
    DEF ExInv, ExShape, ExConserved, ExDrained, ExAsked, ExControl, ExGrounds
  <2> QED
    BY <1>6, <2>2, <2>3 DEF ExPlugin, ExExit
<1>7. CASE ExWorkerWrite
  <2>1. exSent = ExBody
    BY <1>7 DEF ExWorkerWrite, ExInv, ExAsked
  <2>2. exWorker' = "exited" /\ exHeld' = {}
    BY <1>7 DEF ExWorkerWrite, ExExit
  <2>3. CASE UNCHANGED <<exPipe, exMade, exReply>>
    BY <1>1, <1>2, <2>1, <2>2, <2>3
    DEF ExInv, ExShape, ExConserved, ExDrained, ExAsked, ExControl, ExGrounds
  <2>4. CASE /\ "stdout" \in exHeld /\ exPipe["stdout"] < ExPipe
             /\ exMade["stdout"] < ExWritten
             /\ exPipe' = [exPipe EXCEPT !["stdout"] = @ + 1]
             /\ exMade' = [exMade EXCEPT !["stdout"] = @ + 1]
    <3>1. /\ exPipe' \in [ExStreams -> 0..ExPipe] /\ exMade' \in [ExOutputs -> 0..ExWritten]
          /\ ExConserved' /\ (exReply' # "none" => exMade'["stdout"] > 0)
          /\ exFlags = {} /\ "stdout" \notin exOpen =>
                    exPipe'["stdout"] = 0 /\ "stdout" \notin exHeld
      BY <1>5, <2>4 DEF ExOutputs
    <3> QED
      BY <1>1, <1>2, <2>1, <2>2, <3>1
      DEF ExInv, ExShape, ExDrained, ExAsked, ExControl, ExGrounds
  <2> QED
    BY <1>7, <2>3, <2>4 DEF ExWorkerWrite
<1> QED
  BY <1>3, <1>4, <1>6, <1>7

(* _kill_group leaves no worker behind, and touches no byte.               *)
LEMMA ExKilled ==
    ASSUME ExInv, exWorker # "none", ExKill
    PROVE  /\ exWorker' = "exited" /\ UNCHANGED <<exMade, exReply>>
           /\ exCode' = "0" => exSent = ExBody
  BY DEF ExKill, ExExit, exChild, ExInv, ExAsked

(* The select loop of _exchange: sending, the deadline, an end of file.    *)
LEMMA ExLoopInv ==
    ASSUME ExInv, ExLoopLate \/ ExSend \/ ExLeaveLoop \/ \E s \in ExOutputs : ExEof(s)
    PROVE  ExInv'
<1>1. exPc = "loop" /\ exFlags = {} /\ exWorker # "none" /\ exVerdict = "none"
      /\ exRecord # "ACCEPTED"
  BY DEF ExLoopLate, ExSend, ExLeaveLoop, ExEof, ExInLoop, ExInv, ExControl, ExGrounds
<1>2. UNCHANGED <<exGot, exVerdict, exRecord>>
  BY DEF ExLoopLate, ExSend, ExLeaveLoop, ExEof
<1>3. CASE ExLoopLate
  <2>1. /\ exFlags' = exFlags \cup {"timed_out"} /\ exPc' = "reap" /\ exOpen' = {}
        /\ UNCHANGED <<exSent, exPipe>> /\ ExKill
    BY <1>3 DEF ExLoopLate
  <2>2. /\ exWorker' = "exited" /\ UNCHANGED <<exMade, exReply>>
        /\ exCode' = "0" => exSent = ExBody
    BY <1>1, <2>1, ExKilled
  <2> QED
    BY <1>1, <1>2, <2>1, <2>2
    DEF ExInv, ExShape, ExConserved, ExDrained, ExAsked, ExControl, ExGrounds
<1>4. CASE ExSend
  <2>1. /\ UNCHANGED <<exPc, exFlags, exChild>> /\ exOpen' \in {exOpen, exOpen \ {"stdin"}}
        /\ \/ UNCHANGED <<exSent, exPipe>>
           \/ \E n \in 1..ExChunk :
                 /\ n <= ExBody - exSent /\ n <= ExPipe - exPipe["stdin"]
                 /\ exSent' = exSent + n
                 /\ exPipe' = [exPipe EXCEPT !["stdin"] = @ + n]
    BY <1>4 DEF ExSend
  <2>2. /\ exSent' \in 0..ExBody /\ exPipe' \in [ExStreams -> 0..ExPipe]
        /\ exPipe'["stdout"] = exPipe["stdout"]
        /\ exSent = ExBody => exSent' = ExBody
    <3>1. exSent \in 0..ExBody /\ exPipe \in [ExStreams -> 0..ExPipe]
          /\ "stdin" \in ExStreams /\ "stdout" \in ExStreams
      BY DEF ExInv, ExShape, ExStreams, ExOutputs
    <3>2. CASE UNCHANGED <<exSent, exPipe>>
      BY <3>1, <3>2
    <3>3. CASE \E n \in 1..ExChunk :
                 /\ n <= ExBody - exSent /\ n <= ExPipe - exPipe["stdin"]
                 /\ exSent' = exSent + n
                 /\ exPipe' = [exPipe EXCEPT !["stdin"] = @ + n]
      BY <3>1, <3>3, ExConstants
    <3> QED
      BY <2>1, <3>2, <3>3
  <2>3. "stdout" \in exOpen' <=> "stdout" \in exOpen
    BY <2>1
  <2> QED
    BY <1>1, <1>2, <2>1, <2>2, <2>3
    DEF ExInv, ExShape, ExConserved, ExDrained, ExAsked, ExControl, ExGrounds, exChild
<1>5. CASE ExLeaveLoop
  <2>1. /\ exPc' = "reap" /\ exOpen' = {} /\ "stdout" \notin exOpen
        /\ UNCHANGED <<exSent, exPipe, exFlags, exChild>>
    BY <1>5 DEF ExLeaveLoop
  <2> QED
    BY <1>1, <1>2, <2>1
    DEF ExInv, ExShape, ExConserved, ExDrained, ExAsked, ExControl, ExGrounds, exChild
<1>6. CASE \E s \in ExOutputs : ExEof(s)
  <2>1. PICK s \in ExOutputs : ExEof(s)
    BY <1>6
  <2>2. /\ exPipe[s] = 0 /\ s \notin exHeld /\ exOpen' = exOpen \ {s}
        /\ UNCHANGED <<exPc, exSent, exPipe, exFlags, exChild>>
    BY <2>1 DEF ExEof
  <2> QED
    BY <1>1, <1>2, <2>2
    DEF ExInv, ExShape, ExConserved, ExDrained, ExAsked, ExControl, ExGrounds, exChild
<1> QED
  BY <1>3, <1>4, <1>5, <1>6

(* A read either keeps all it took, or overflows and kills.                *)
LEMMA ExReceiveInv ==
    ASSUME ExInv, NEW s \in ExOutputs, ExReceive(s) PROVE ExInv'
<1>1. exPc = "loop" /\ exFlags = {} /\ exWorker # "none" /\ exVerdict = "none"
      /\ exRecord # "ACCEPTED" /\ s \in exOpen
  BY DEF ExReceive, ExInLoop, ExInv, ExControl, ExGrounds
<1>2. UNCHANGED <<exSent, exVerdict, exRecord>>
  BY DEF ExReceive
<1>3. PICK n \in 1..ExChunk :
        /\ n <= exPipe[s]
        /\ exPipe' = [exPipe EXCEPT ![s] = @ - n]
        /\ LET room == ExLimit + 1 - exGot[s]
               got == exGot[s] + (IF n < room THEN n ELSE room)
           IN  /\ exGot' = [exGot EXCEPT ![s] = got]
               /\ IF ExOver(got)
                  THEN /\ exFlags' = exFlags \cup {"overflowed"}
                       /\ ExKill /\ exPc' = "reap" /\ exOpen' = {}
                  ELSE UNCHANGED <<exFlags, exChild, exPc, exOpen>>
  BY DEF ExReceive
<1> DEFINE room == ExLimit + 1 - exGot[s]
           got == exGot[s] + (IF n < room THEN n ELSE room)
<1>4. /\ exPipe[s] \in 0..ExPipe /\ exGot[s] \in 0..ExLimit + 1 /\ s \in ExStreams
      /\ "stdout" \in ExStreams /\ "stdout" \in ExOutputs
  BY DEF ExInv, ExShape, ExStreams, ExOutputs
<1>5. /\ got \in 0..ExLimit + 1 /\ exPipe[s] - n \in 0..ExPipe
      /\ ~ExOver(got) => got = exGot[s] + n /\ got <= ExLimit
  BY <1>3, <1>4, ExConstants, SMTT(30) DEF ExOver
<1>6. exPipe' \in [ExStreams -> 0..ExPipe] /\ exGot' \in [ExOutputs -> 0..ExLimit + 1]
  BY <1>3, <1>4, <1>5 DEF ExInv, ExShape
<1>7. exPipe'[s] = exPipe[s] - n /\ exGot'[s] = got
  BY <1>3, <1>4 DEF ExInv, ExShape
<1>8. s # "stdout" => exPipe'["stdout"] = exPipe["stdout"] /\ exGot'["stdout"] = exGot["stdout"]
  BY <1>3, <1>4 DEF ExInv, ExShape
<1>9. CASE ExOver(got)
  <2>1. /\ exFlags' = {"overflowed"} /\ ExKill /\ exPc' = "reap" /\ exOpen' = {}
    BY <1>1, <1>3, <1>9
  <2>2. /\ exWorker' = "exited" /\ UNCHANGED <<exMade, exReply>>
        /\ exCode' = "0" => exSent = ExBody
    BY <1>1, <2>1, ExKilled
  <2> QED
    BY <1>1, <1>2, <1>6, <2>1, <2>2
    DEF ExInv, ExShape, ExConserved, ExDrained, ExAsked, ExControl, ExGrounds
<1>10. CASE ~ExOver(got)
  <2>1. UNCHANGED <<exFlags, exChild, exPc, exOpen>>
    BY <1>3, <1>10
  <2>2. exMade["stdout"] \in Nat
    BY ExCounters, <1>4 DEF ExInv
  <2>3. ExConserved'
    <3>1. CASE s = "stdout"
      <4>1. exGot[s] + exPipe[s] = exMade[s]
        BY <1>1, <3>1 DEF ExInv, ExConserved
      <4>2. exGot'[s] + exPipe'[s] = exMade[s] /\ exGot'[s] <= ExLimit
        BY <1>4, <1>5, <1>7, <1>10, <4>1, ExConstants, SMTT(30)
      <4> QED
        BY <2>1, <3>1, <4>2 DEF ExConserved, exChild
    <3>2. CASE s # "stdout"
      BY <1>8, <2>1, <3>2 DEF ExInv, ExConserved, exChild
    <3> QED
      BY <3>1, <3>2
  <2>4. ExDrained'
    BY <1>1, <1>8, <2>1 DEF ExInv, ExDrained, exChild
  <2> QED
    BY <1>1, <1>2, <1>6, <2>1, <2>3, <2>4
    DEF ExInv, ExShape, ExAsked, ExControl, ExGrounds, exChild
<1> QED
  BY <1>9, <1>10

(* The wait after the loop, the verdict and the contribution record.       *)
LEMMA ExEndInv ==
    ASSUME ExInv, ExReap \/ ExConclude \/ ExContribute PROVE ExInv'
<1>1. UNCHANGED <<exOpen, exSent, exPipe, exGot>>
  BY DEF ExReap, ExConclude, ExContribute
<1>2. CASE ExReap
  <2>1. /\ exPc = "reap" /\ exPc' = "conclude" /\ UNCHANGED <<exVerdict, exRecord>>
        /\ \/ exWorker = "exited" /\ UNCHANGED <<exFlags, exChild>>
           \/ exFlags' = {"timed_out"} /\ ExKill
    BY <1>2 DEF ExReap
  <2>2. exWorker # "none" /\ exVerdict = "none" /\ exRecord # "ACCEPTED"
    BY <2>1 DEF ExInv, ExControl, ExGrounds
  <2>3. CASE exWorker = "exited" /\ UNCHANGED <<exFlags, exChild>>
    BY <1>1, <2>1, <2>2, <2>3
    DEF ExInv, ExShape, ExConserved, ExDrained, ExAsked, ExControl, ExGrounds, exChild
  <2>4. CASE exFlags' = {"timed_out"} /\ ExKill
    <3>1. /\ exWorker' = "exited" /\ UNCHANGED <<exMade, exReply>>
          /\ exCode' = "0" => exSent = ExBody
      BY <2>2, <2>4, ExKilled
    <3> QED
      BY <1>1, <2>1, <2>2, <2>4, <3>1
      DEF ExInv, ExShape, ExConserved, ExDrained, ExAsked, ExControl, ExGrounds
  <2> QED
    BY <2>1, <2>3, <2>4
<1>3. CASE ExConclude
  <2>1. /\ exPc = "conclude" /\ exPc' \in {"contribute", "ended"}
        /\ exVerdict' = ExConclusion /\ UNCHANGED <<exFlags, exChild, exRecord>>
    BY <1>3 DEF ExConclude
  <2>2. ExConclusion = "ACCEPTED" => exFlags = {} /\ exCode = "0" /\ exReply = "ACCEPTED"
    BY DEF ExConclusion, ExRead, ExInv, ExShape
  <2>3. exVerdict = "none" /\ exRecord # "ACCEPTED" /\ exWorker = "exited"
    BY <2>1 DEF ExInv, ExControl, ExGrounds
  <2> QED
    BY <1>1, <2>1, <2>2, <2>3
    DEF ExInv, ExShape, ExConserved, ExDrained, ExAsked, ExControl, ExGrounds, exChild
<1>4. CASE ExContribute
  <2>1. /\ exPc = "contribute" /\ exPc' = "ended"
        /\ exRecord' = "ACCEPTED" => exVerdict = "ACCEPTED"
        /\ UNCHANGED <<exFlags, exChild, exVerdict>>
    BY <1>4 DEF ExContribute
  <2> QED
    BY <1>1, <2>1
    DEF ExInv, ExShape, ExConserved, ExDrained, ExAsked, ExControl, ExGrounds, exChild
<1> QED
  BY <1>2, <1>3, <1>4

LEMMA ExNextInv == ExInv /\ [ExNext]_exVars => ExInv'
<1> SUFFICES ASSUME ExInv, [ExNext]_exVars PROVE ExInv'
  OBVIOUS
<1>1. CASE ExDeadline
  BY <1>1
  DEF ExDeadline, exParent, exChild,
      ExInv, ExShape, ExConserved, ExDrained, ExAsked, ExControl, ExGrounds
<1>2. CASE UNCHANGED exVars
  BY <1>2
  DEF exVars, exParent, exChild,
      ExInv, ExShape, ExConserved, ExDrained, ExAsked, ExControl, ExGrounds
<1>3. CASE ExReturned
  BY <1>2, <1>3 DEF ExReturned
<1> QED
  BY <1>1, <1>2, <1>3, ExPrepareInv, ExWorkerInv, ExLoopInv, ExReceiveInv, ExEndInv DEF ExNext, ExCaller

(* invoke_extension accepts only the whole reply of a worker that had the  *)
(* whole request and exited with status 0, and never returns before its    *)
(* worker is gone: for every size of request, reply, pipe and limit.       *)
THEOREM ReplyIsWhole == ExSpec => []AcceptedReplyIsWhole
<1>1. ExInit => ExInv
  BY ExInitInv
<1>2. ExInv /\ [ExNext]_exVars => ExInv'
  BY ExNextInv
<1>3. ExInv => AcceptedReplyIsWhole
  <2> SUFFICES ASSUME ExInv PROVE AcceptedReplyIsWhole
    OBVIOUS
  <2>1. exVerdict # "none" => exPc # "loop" /\ exWorker \in {"none", "exited"}
    BY DEF ExInv, ExControl
  <2>2. ASSUME exVerdict = "ACCEPTED"
        PROVE  /\ exReply = "ACCEPTED" /\ exCode = "0" /\ exSent = ExBody
               /\ exGot["stdout"] = exMade["stdout"] /\ exPipe["stdout"] = 0
               /\ exGot["stdout"] \in 1..ExLimit
    <3>1. exFlags = {} /\ exCode = "0" /\ exReply = "ACCEPTED" /\ exOpen = {}
      BY <2>1, <2>2 DEF ExInv, ExGrounds, ExControl
    <3>2. exSent = ExBody /\ exPipe["stdout"] = 0
      BY <3>1 DEF ExInv, ExAsked, ExDrained
    <3>3. exGot["stdout"] \in Nat /\ exMade["stdout"] \in Nat
      BY ExCounters DEF ExInv, ExOutputs
    <3>4. exGot["stdout"] = exMade["stdout"] /\ exGot["stdout"] <= ExLimit
      BY <3>1, <3>2, <3>3 DEF ExInv, ExConserved
    <3>5. exMade["stdout"] > 0
      BY <3>1 DEF ExInv, ExGrounds
    <3> QED
      BY <3>1, <3>2, <3>3, <3>4, <3>5, ExConstants
  <2> QED
    BY <2>1, <2>2 DEF AcceptedReplyIsWhole, ExInv, ExGrounds
<1> QED
  BY <1>1, <1>2, <1>3, PTL DEF ExSpec

-----------------------------------------------------------------------------
(* What the protocol's readers answer.                                     *)
LEMMA ExReadingsOf ==
    ASSUME NEW phase \in ExPhases
    PROVE  ExForged[phase] \subseteq ExReadings /\ ExAnswered[phase] \subseteq ExReadings
<1>1. ASSUME NEW d \in ExDocuments PROVE ExParse(phase, d) \in ExReadings
  BY <1>1 DEF ExParse, ExDocuments, ExReadings, ExStatuses
<1>2. ASSUME NEW r \in ExResults PROVE ExResultDocument(phase, r) \in ExReadings
  BY <1>2 DEF ExResultDocument, ExResults, ExReadings, ExStatuses
<1>3. ExForged[phase] = {ExParse(phase, d) : d \in ExDocuments}
  BY DEF ExForged
<1>4. ExAnswered[phase] = {"FAILED"} \cup {ExResultDocument(phase, r) : r \in ExResults}
  BY DEF ExAnswered
<1>5. "FAILED" \in ExReadings
  BY DEF ExReadings, ExStatuses
<1> QED
  BY <1>1, <1>2, <1>3, <1>4, <1>5

\* What ExShape leaves out of ExTypeOK.
ExLabels ==
    /\ exPhase \in ExPhases
    /\ exOpen \subseteq ExStreams /\ exHeld \subseteq ExStreams
    /\ exLate \in BOOLEAN
    /\ exReply \in {"none"} \cup ExReadings
    /\ exCode \in {"none", "0", "70", "killed"}
    /\ exVerdict \in {"none"} \cup ExVerdicts
    /\ exRecord \in {"none", "ACCEPTED", "other"}

(* A step keeps the values of an extension call within their types.        *)
LEMMA ExLabelsNext == ASSUME ExLabels, [ExNext]_exVars PROVE ExLabels'
<1>1. exPhase' \in ExPhases
  <2>1. CASE ExPrepare
    BY <2>1 DEF ExPrepare, ExInvocations
  <2> QED
    BY <2>1 DEF ExNext, ExCaller, ExLoopLate, ExSend, ExLeaveLoop, ExReap, ExReceive, ExEof,
                ExConclude, ExContribute, ExDeadline, ExWorkerRead, ExWorkerSetup, ExPlugin,
                ExWorkerWrite, ExReturned, exVars, exParent, ExLabels
<1>2. exOpen' \subseteq ExStreams
  BY DEF ExNext, ExCaller, ExPrepare, ExLoopLate, ExSend, ExLeaveLoop, ExReap, ExReceive, ExEof,
         ExConclude, ExContribute, ExDeadline, ExWorkerRead, ExWorkerSetup, ExPlugin,
         ExWorkerWrite, ExReturned, exVars, exParent, ExLabels
<1>3. /\ exHeld' \subseteq ExStreams
      /\ exCode' \in {"none", "0", "70", "killed"}
  <2>1. ASSUME ExKill PROVE exHeld' \subseteq exHeld /\ exCode' \in {exCode, "killed"}
    BY <2>1 DEF ExKill, ExExit, exChild
  <2>2. CASE ExPrepare \/ ExSend \/ ExLeaveLoop \/ ExConclude \/ ExContribute \/ ExDeadline
             \/ ExReturned \/ UNCHANGED exVars \/ \E s \in ExOutputs : ExEof(s)
    BY <2>2 DEF ExPrepare, ExSend, ExLeaveLoop, ExConclude, ExContribute, ExDeadline,
                ExReturned, ExEof, exVars, exChild, ExLabels
  <2>3. CASE ExLoopLate \/ ExReap \/ \E s \in ExOutputs : ExReceive(s)
    <3>1. ExKill \/ UNCHANGED exChild
      BY <2>3 DEF ExLoopLate, ExReap, ExReceive
    <3> QED
      BY <2>1, <3>1 DEF ExLabels, exChild
  <2>4. CASE ExWorkerRead \/ ExWorkerSetup \/ ExPlugin \/ ExWorkerWrite
    BY <2>4 DEF ExWorkerRead, ExWorkerSetup, ExPlugin, ExWorkerWrite, ExExit, exChild, ExLabels
  <2> QED
    BY <2>2, <2>3, <2>4 DEF ExNext, ExCaller
<1>4. exReply' \in {"none"} \cup ExReadings
  <2>1. ExForged[exPhase] \subseteq ExReadings /\ ExAnswered[exPhase] \subseteq ExReadings
    BY ExReadingsOf DEF ExLabels
  <2>2. "MALFORMED" \in ExReadings
    BY DEF ExReadings, ExStatuses
  <2>3. CASE ExPlugin
    BY <2>1, <2>2, <2>3 DEF ExPlugin, ExLabels
  <2>4. CASE ExWorkerWrite
    BY <2>1, <2>2, <2>4 DEF ExWorkerWrite, ExLabels
  <2>5. ASSUME ExKill PROVE exReply' = exReply
    BY <2>5 DEF ExKill, exChild
  <2>6. CASE ~ExPlugin /\ ~ExWorkerWrite
    <3>1. exReply' = exReply
      BY <2>5, <2>6 DEF ExNext, ExCaller, ExPrepare, ExLoopLate, ExSend, ExLeaveLoop, ExReap,
           ExReceive, ExEof, ExConclude, ExContribute, ExDeadline, ExWorkerRead, ExWorkerSetup,
           ExReturned, exVars, exChild
    <3> QED
      BY <3>1 DEF ExLabels
  <2> QED
    BY <2>3, <2>4, <2>6
<1>5. exVerdict' \in {"none"} \cup ExVerdicts
  <2>1. ExConclusion \in ExVerdicts
    BY DEF ExConclusion, ExRead, ExVerdicts, ExReadings, ExStatuses, ExLabels
  <2>2. CASE ExConclude
    BY <2>1, <2>2 DEF ExConclude
  <2>3. CASE ExPrepare
    BY <2>3 DEF ExPrepare, ExVerdicts, ExLabels
  <2>4. CASE ~ExConclude /\ ~ExPrepare
    <3>1. exVerdict' = exVerdict
      BY <2>4 DEF ExNext, ExCaller, ExLoopLate, ExSend, ExLeaveLoop, ExReap,
           ExReceive, ExEof, ExContribute, ExDeadline, ExWorkerRead, ExWorkerSetup, ExPlugin,
           ExWorkerWrite, ExReturned, exVars, exParent
    <3> QED
      BY <3>1 DEF ExLabels
  <2> QED
    BY <2>2, <2>3, <2>4
<1>6. exLate' \in BOOLEAN /\ exRecord' \in {"none", "ACCEPTED", "other"}
  <2>1. exLate' \in {exLate, TRUE}
    BY DEF ExNext, ExCaller, ExPrepare, ExLoopLate, ExSend, ExLeaveLoop, ExReap, ExReceive,
           ExEof, ExConclude, ExContribute, ExDeadline, ExWorkerRead, ExWorkerSetup, ExPlugin,
           ExWorkerWrite, ExReturned, exVars, exParent
  <2>2. exRecord' \in {exRecord, "none", "ACCEPTED", "other"}
    BY DEF ExNext, ExCaller, ExPrepare, ExLoopLate, ExSend, ExLeaveLoop, ExReap, ExReceive,
           ExEof, ExConclude, ExContribute, ExDeadline, ExWorkerRead, ExWorkerSetup, ExPlugin,
           ExWorkerWrite, ExReturned, exVars, exParent
  <2> QED
    BY <2>1, <2>2 DEF ExLabels
<1> QED
  BY <1>1, <1>2, <1>3, <1>4, <1>5, <1>6 DEF ExLabels

(* The values the state of an extension call takes.                        *)
THEOREM ExTypes == ExSpec => []ExTypeOK
<1>1. ExInit => ExInv /\ ExLabels
  <2>1. ExInit => ExLabels
    BY DEF ExInit, ExLabels, ExPhases
  <2> QED
    BY <2>1, ExInitInv
<1>2. ExInv /\ ExLabels /\ [ExNext]_exVars => (ExInv /\ ExLabels)'
  BY ExNextInv, ExLabelsNext
<1>3. ExInv /\ ExLabels => ExTypeOK
  BY DEF ExInv, ExShape, ExLabels, ExTypeOK
<1> QED
  BY <1>1, <1>2, <1>3, PTL DEF ExSpec

-----------------------------------------------------------------------------
(* Every part of the plane behaves as it does alone: a step of another     *)
(* part leaves it where it is.                                             *)
LEMMA PlaneParts == Init /\ [][Next]_vars => RcSpec /\ RsSpec /\ ExSpec
<1>1. Init => RcInit /\ RsInit /\ ExInit
  BY DEF Init
<1>2. [Next]_vars => [RcNext]_rcVars /\ [RsNext]_rsVars /\ [ExNext]_exVars
  BY DEF Next, vars
<1> QED
  BY <1>1, <1>2, PTL DEF RcSpec, RsSpec, ExSpec

(* The type invariant of the Python plane.                                 *)
THEOREM PythonPlaneTypes == Spec => []TypeOK
<1>1. RcInv => RcTypeOK
  BY DEF RcInv
<1>2. Spec => Init /\ [][Next]_vars
  BY DEF Spec
<1> QED
  BY <1>1, <1>2, PlaneParts, RcInvariance, RsTypes, ExTypes, PTL DEF TypeOK

(* The reference engine keeps both contracts of the Rust engine: what its  *)
(* runner collects and concludes, and what its spool publishes.            *)
THEOREM PlaneConforms == Spec => ReferenceConforms
<1>1. Spec => Init /\ [][Next]_vars
  BY DEF Spec
<1> QED
  BY <1>1, PlaneParts, ReferenceImplementsCollection, ReferenceImplementsPublication, PTL
  DEF ReferenceConforms

=============================================================================
