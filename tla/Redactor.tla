------------------------------ MODULE Redactor ------------------------------
(***************************************************************************)
(* The exact-value redactor of project_bytes (src/outctl/projection.py):   *)
(* _ExactRedactor, fed chunk by chunk and flushed at the end.  Bytes are   *)
(* the members of a small alphabet; the replacement is one symbol apart    *)
(* from them, so what its text may share with a value is left out.         *)
(***************************************************************************)
EXTENDS Naturals, Sequences, FiniteSetsExt

CONSTANTS
    PjBytes,     \* alphabet of the redactor's input
    PjSecrets,   \* exact values, sequences over PjBytes
    PjMaxChunk,  \* _PROCESSING_CHUNK_BYTES
    PjMaxInput   \* bound on the bytes fed to the redactor

\* Values are not empty and there are finitely many: one of them is longest.
ASSUME PjValues ==
    /\ PjSecrets \subseteq Seq(PjBytes) \ {<<>>}
    /\ PjSecrets # {} => \E v \in PjSecrets : \A w \in PjSecrets : Len(w) <= Len(v)
    /\ "R" \notin PjBytes
    /\ PjMaxChunk \in Nat

VARIABLES
    pjStage,    \* redact, redacted, decoded
    pjFed,      \* bytes fed to the redactor
    pjPending,  \* _pending
    pjOut       \* its output, "R" for a replacement

rdVars == <<pjStage, pjFed, pjPending, pjOut>>

RdTypeOK ==
    /\ pjStage \in {"redact", "redacted", "decoded"}
    /\ pjFed \in Seq(PjBytes) /\ pjPending \in Seq(PjBytes)
    /\ pjOut \in Seq(PjBytes \cup {"R"})

RdInit == pjStage = "redact" /\ pjFed = <<>> /\ pjPending = <<>> /\ pjOut = <<>>

-----------------------------------------------------------------------------
\* _max_length: that of the longest value, 1 by default.
PjHold == Max({1} \cup {Len(v) : v \in PjSecrets})

PjOccursAt(value, data, at) ==
    /\ at + Len(value) - 1 <= Len(data)
    /\ SubSeq(data, at, at + Len(value) - 1) = value

\* The values that start here, and the longest of them.
PjMatches(data, at) == {v \in PjSecrets : PjOccursAt(v, data, at)}
PjLongest(matches) == CHOOSE v \in matches : \A w \in matches : Len(w) <= Len(v)

\* A slip: a match is looked for as soon as there is a byte.
PjReadyAtOnce(data, at, final) == at <= Len(data)

\* The loop condition of feed: hold back what may still grow into a value.
PjReady(data, at, final) ==
    at <= Len(data) /\ (final \/ Len(data) - at + 1 >= PjHold)

\* One turn of the loop: what the cursor advances by, what it puts out.
PjAdvance(data, at) ==
    LET matches == PjMatches(data, at)
    IN IF matches = {} THEN 1 ELSE Len(PjLongest(matches))
PjShown(data, at) == IF PjMatches(data, at) = {} THEN data[at] ELSE "R"

\* The loop from every cursor: the output, and where it stops.
PjScanFrom(data, final) ==
    LET scan[at \in 1..Len(data) + 1] ==
            IF PjReady(data, at, final)
            THEN [out |-> <<PjShown(data, at)>> \o scan[at + PjAdvance(data, at)].out,
                  stop |-> scan[at + PjAdvance(data, at)].stop]
            ELSE [out |-> <<>>, stop |-> at]
    IN scan

\* _ExactRedactor.feed over pending + chunk.
PjScan(data, final) == PjScanFrom(data, final)[1]

\* One supplied chunk.
PjFeed(chunk) ==
    LET data == pjPending \o chunk
        read == PjScan(data, FALSE) IN
    /\ pjStage = "redact" /\ Len(pjFed) + Len(chunk) <= PjMaxInput
    /\ pjFed' = pjFed \o chunk
    /\ pjOut' = pjOut \o read.out
    /\ pjPending' = SubSeq(data, read.stop, Len(data))
    /\ UNCHANGED pjStage

\* feed(b"", final=True).
PjFlush ==
    /\ pjStage = "redact"
    /\ pjOut' = pjOut \o PjScan(pjPending, TRUE).out /\ pjPending' = <<>>
    /\ pjStage' = "redacted"
    /\ UNCHANGED pjFed

\* The decoder has taken the redacted bytes.
PjDecode ==
    /\ pjStage = "redacted" /\ pjStage' = "decoded"
    /\ pjFed' = <<>> /\ pjOut' = <<>>
    /\ UNCHANGED pjPending

RdNext ==
    \/ \E n \in 1..PjMaxChunk : \E chunk \in [1..n -> PjBytes] : PjFeed(chunk)
    \/ PjFlush \/ PjDecode

RdSpec == RdInit /\ [][RdNext]_rdVars

-----------------------------------------------------------------------------
(* Redaction is complete and does not depend on chunks (_ExactRedactor):    *)
(* however the input was cut, no exact value is in the output, and once it  *)
(* is flushed the output is that of the input in one piece.                 *)
RedactionIsComplete ==
    /\ \A at \in DOMAIN pjOut : PjMatches(pjOut, at) = {}
    /\ pjStage = "redacted" => pjOut = PjScan(pjFed, TRUE).out

=============================================================================
