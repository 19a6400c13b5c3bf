----------------------------- MODULE Projection -----------------------------
(***************************************************************************)
(* project_bytes (src/outctl/projection.py) as the streaming pipeline it   *)
(* is.  First the exact-value redactor (module Redactor); then the         *)
(* normalizer and the failure collector, fed record by record.  Text is    *)
(* kept only as far as the limits see it: a record is its length in bytes  *)
(* and whether it holds a failure anchor, a text is a sequence of "c" (one *)
(* byte of a line) and "n" (a newline).                                    *)
(***************************************************************************)
EXTENDS Redactor, FiniteSets

CONSTANTS
    PjContents,  \* contents of records: [id, len, anchor]
    PjMaxRecords,\* bound on the records
    PjLimits,    \* ProjectionLimits: [bytes, lines, tokens]
    PjClip,      \* representative bytes of one record
    PjBefore,    \* _FAILURE_CONTEXT_BEFORE
    PjAfter      \* _FAILURE_CONTEXT_AFTER

\* ProjectionLimits.__post_init__ refuses a limit that is not positive.
ASSUME PjConstants ==
    /\ PjContents \subseteq [id : STRING, len : Nat, anchor : BOOLEAN]
    /\ PjLimits \in [bytes : Nat \ {0}, lines : Nat \ {0}, tokens : Nat \ {0}]
    /\ PjMaxRecords \in Nat /\ PjClip \in Nat /\ PjBefore \in Nat /\ PjAfter \in Nat

VARIABLES
    pjEnded,    \* project_bytes has returned
    pjRecords,  \* number of records read by the normalizer
    pjRepeat,   \* [of, count]: the repeated line
    pjProgress, \* [first, last, count]: carriage-return updates
    pjClipped,  \* line_clipped
    pjCol,      \* the collector
    pjText      \* what project_bytes returned

pjNormalizer == <<pjRecords, pjRepeat, pjProgress, pjClipped>>
pjVars == <<rdVars, pjEnded, pjNormalizer, pjCol, pjText>>

PjNoRecord == [id |-> "none", len |-> 0, anchor |-> FALSE]
PjNoRepeat == [of |-> PjNoRecord, count |-> 0]
PjNoProgress == [first |-> PjNoRecord, last |-> PjNoRecord, count |-> 0]

\* A record as the collector gets it: its bytes, the newline included.
PjRecord(len, anchor, ended) == [len |-> len, anchor |-> anchor, ended |-> ended]
PjRecords == {record \in [len : Nat, anchor : BOOLEAN, ended : BOOLEAN] :
                 record.ended => record.len > 0}

\* _FailureCollector: the prefix, and once it is full the context before an
\* anchor, the records still to keep after one, the anchor and tail buffers.
PjCollector == [prefix |-> <<>>, truncated |-> FALSE, active |-> FALSE, found |-> FALSE,
                before |-> <<>>, after |-> 0, anchors |-> <<>>, tail |-> <<>>]

PjTexts == Seq({"c", "n"})
PjCollectors ==
    [prefix : PjTexts, truncated : BOOLEAN, active : BOOLEAN, found : BOOLEAN,
     before : Seq(PjRecords), after : 0..PjAfter, anchors : PjTexts, tail : PjTexts]
PjPending == PjContents \cup {PjNoRecord}

PjTypeOK ==
    /\ RdTypeOK /\ pjEnded \in BOOLEAN
    /\ pjRecords \in 0..PjMaxRecords /\ pjClipped \in BOOLEAN
    /\ pjRepeat \in [of : PjPending, count : 0..PjMaxRecords]
    /\ pjProgress \in [first : PjPending, last : PjPending, count : 0..PjMaxRecords]
    /\ pjCol \in PjCollectors /\ Len(pjCol.before) <= PjBefore
    /\ pjText \in PjTexts

PjInit ==
    /\ RdInit /\ pjEnded = FALSE
    /\ pjRecords = 0 /\ pjRepeat = PjNoRepeat /\ pjProgress = PjNoProgress
    /\ pjClipped = FALSE /\ pjCol = PjCollector /\ pjText = <<>>

-----------------------------------------------------------------------------
PjChars(n) == [i \in 1..n |-> "c"]
PjLine(n) == Append(PjChars(n), "n")
PjMarker == PjChars(1)

\* _line_count, _fits.
PjLines(text) ==
    Cardinality({i \in DOMAIN text : text[i] = "n"})
        + (IF text # <<>> /\ text[Len(text)] # "n" THEN 1 ELSE 0)
PjFits(text, limits) ==
    /\ Len(text) <= limits.bytes
    /\ PjLines(text) <= limits.lines
    /\ (Len(text) + 3) \div 4 <= limits.tokens

\* Adding character by character until one does not fit, and trim_to.
PjFitting(text, limits) ==
    SubSeq(text, 1, Max({k \in 0..Len(text) : PjFits(SubSeq(text, 1, k), limits)}))

PjSeparated(text) ==
    IF text # <<>> /\ text[Len(text)] # "n" THEN Append(text, "n") ELSE text

\* _PrefixCollector.finish: the longest prefix that leaves room for a marker.
PjMarked(prefix) ==
    LET fits == {k \in 0..Len(prefix) :
                    PjFits(PjSeparated(SubSeq(prefix, 1, k)) \o PjMarker, PjLimits)}
    IN PjSeparated(SubSeq(prefix, 1, Max(fits))) \o PjMarker

\* The shares of _activate_selection.
PjBudget == [bytes |-> Min({PjLimits.bytes, 4 * PjLimits.tokens}) - 2 * (Len(PjMarker) + 1),
             lines |-> PjLimits.lines - 2]
PjShare(bytes, lines) ==
    [bytes |-> bytes, lines |-> lines, tokens |-> Max({1, bytes \div 4})]
PjHead == PjShare(PjBudget.bytes \div 4, PjBudget.lines \div 4)
PjMiddle == PjShare(PjBudget.bytes \div 2, PjBudget.lines \div 2)
PjRest == PjShare(PjBudget.bytes - PjHead.bytes - PjMiddle.bytes,
                  PjBudget.lines - PjHead.lines - PjMiddle.lines)
PjSelectable ==
    /\ PjBudget.bytes >= 3 /\ PjBudget.lines >= 3
    /\ \A share \in {PjHead, PjMiddle, PjRest} : share.bytes > 0 /\ share.lines > 0

PjTextOf(record) == IF record.ended THEN PjLine(record.len - 1) ELSE PjChars(record.len)

\* _BoundedRecordBuffer of records that are one line each, kept as its text:
\* the fixed one, and the rolling one that drops whole records at its front.
PjRoom(text, record, share) ==
    Len(text) + record.len <= share.bytes /\ PjLines(text) < share.lines
PjKeep(text, record) ==
    IF PjRoom(text, record, PjMiddle) THEN text \o PjTextOf(record) ELSE text
PjKeepAll(text, records) ==
    LET kept[i \in 0..Len(records)] ==
            IF i = 0 THEN text ELSE PjKeep(kept[i - 1], records[i])
    IN kept[Len(records)]
PjRoll(text, record) ==
    LET rest(k) == SubSeq(text, k, Len(text))
        starts == {k \in 1..Len(text) + 1 : k \in {1, Len(text) + 1} \/ text[k - 1] = "n"}
    IN IF record.len > PjRest.bytes THEN text
       ELSE rest(Min({k \in starts : PjRoom(rest(k), record, PjRest)})) \o PjTextOf(record)

\* The prefix part of add, and _activate_selection when it fills up.
PjAddPrefix(col, record) ==
    LET all == col.prefix \o PjTextOf(record)
        full == [col EXCEPT !.prefix = PjFitting(all, PjLimits), !.truncated = TRUE] IN
    IF col.truncated THEN col
    ELSE IF PjFits(all, PjLimits) THEN [col EXCEPT !.prefix = all]
    ELSE IF ~PjSelectable THEN full
    ELSE [full EXCEPT !.prefix = PjFitting(@, PjHead), !.active = TRUE]

\* _FailureCollector.add.
PjAdd(col, record) ==
    LET added == PjAddPrefix(col, record)
        last == Append(col.before, record)
        context == IF col.after = 0 THEN col.before ELSE <<>> IN
    IF ~added.active THEN added
    ELSE [added EXCEPT
            !.tail = PjRoll(@, record),
            !.anchors = CASE record.anchor -> PjKeep(PjKeepAll(@, context), record)
                          [] ~record.anchor /\ col.after > 0 -> PjKeep(@, record)
                          [] OTHER -> @,
            !.found = @ \/ record.anchor,
            !.after = IF record.anchor THEN PjAfter ELSE IF @ > 0 THEN @ - 1 ELSE 0,
            !.before = IF Len(last) > PjBefore THEN Tail(last) ELSE last]

\* A slip: the shares are taken to leave room for the newlines that are added.
PjSelectionAsReserved(col) ==
    PjSeparated(col.prefix) \o PjMarker \o <<"n">> \o PjSeparated(col.anchors)
        \o PjMarker \o <<"n">> \o PjSeparated(col.tail)

\* _FailureCollector.finish with a failure: head, anchors, tail, two markers;
\* the bounded fallback when the newlines added make it too long.
PjSelection(col) ==
    LET text == PjSeparated(col.prefix) \o PjMarker \o <<"n">> \o PjSeparated(col.anchors)
                  \o PjMarker \o <<"n">> \o PjSeparated(col.tail)
    IN IF PjFits(text, PjLimits) THEN text ELSE PjMarked(PjFitting(text, PjLimits))

PjCollected(col) ==
    CASE col.active /\ col.found -> PjSelection(col)
      [] ~(col.active /\ col.found) /\ col.truncated -> PjMarked(col.prefix)
      [] OTHER -> col.prefix

-----------------------------------------------------------------------------
\* render: clipped to its representative bytes and marked so.
PjRender(content) == IF content.len > PjClip THEN PjClip + 1 ELSE content.len
PjIsClipped(content) == content.len > PjClip

\* _flush_repetition; the note on the count is one byte.
PjFlushRepetition(col) ==
    LET note == IF pjRepeat.count > 1 THEN 1 ELSE 0 IN
    IF pjRepeat.count = 0 THEN col
    ELSE PjAdd(col, PjRecord(PjRender(pjRepeat.of) + note + 1, pjRepeat.of.anchor, TRUE))

\* _flush_progress: the repetition, then the first update, a note, the last.
PjFlushProgress(col) ==
    LET update(content) == PjRecord(PjRender(content) + 1, content.anchor, TRUE)
        first == PjAdd(PjFlushRepetition(col), update(pjProgress.first))
        noted == IF pjProgress.count > 2 THEN PjAdd(first, PjRecord(2, FALSE, TRUE)) ELSE first
    IN IF pjProgress.count > 1 THEN PjAdd(noted, update(pjProgress.last)) ELSE noted

PjFlushed == IF pjProgress.count > 0 THEN PjFlushProgress(pjCol) ELSE PjFlushRepetition(pjCol)

PjPendingClipped == \/ pjRepeat.count > 0 /\ PjIsClipped(pjRepeat.of)
                    \/ pjProgress.count > 0 /\ PjIsClipped(pjProgress.first)
                    \/ pjProgress.count > 0 /\ PjIsClipped(pjProgress.last)

PjRead == pjStage = "decoded" /\ ~pjEnded /\ pjRecords < PjMaxRecords /\ pjRecords' = pjRecords + 1

\* A carriage return ends a non-empty record: _finish_progress.
PjCarriage(content) ==
    /\ PjRead /\ content.len > 0
    /\ pjProgress' = [first |-> IF pjProgress.count = 0 THEN content ELSE pjProgress.first,
                      last |-> content, count |-> pjProgress.count + 1]
    /\ UNCHANGED <<rdVars, pjEnded, pjRepeat, pjClipped, pjCol, pjText>>

\* A newline: _finish_line.  Updates before it are flushed, and with them the
\* repetition; an equal line only counts.
PjNewline(content) ==
    LET repeats == pjProgress.count = 0 /\ pjRepeat.count > 0 /\ pjRepeat.of = content IN
    /\ PjRead
    /\ pjRepeat' = [of |-> content, count |-> IF repeats THEN pjRepeat.count + 1 ELSE 1]
    /\ pjProgress' = PjNoProgress
    /\ pjClipped' = (pjClipped \/ (~repeats /\ PjPendingClipped))
    /\ pjCol' = IF repeats THEN pjCol ELSE PjFlushed
    /\ UNCHANGED <<rdVars, pjEnded, pjText>>

\* finish of the normalizer, with an unterminated record or none, and of the
\* collector.  A clipped line alone makes the text a truncated one.
PjFinish ==
    /\ pjStage = "decoded" /\ ~pjEnded /\ pjEnded' = TRUE
    /\ \E content \in PjPending :
           LET last == PjRecord(PjRender(content), content.anchor, FALSE)
               col == IF content.len = 0 THEN PjFlushed ELSE PjAdd(PjFlushed, last)
               clipped == pjClipped \/ PjPendingClipped \/ PjIsClipped(content) IN
           /\ pjClipped' = clipped
           /\ pjCol' = [col EXCEPT !.truncated = @ \/ clipped]
           /\ pjText' = PjCollected(pjCol')
    /\ pjRepeat' = PjNoRepeat /\ pjProgress' = PjNoProgress
    /\ UNCHANGED <<rdVars, pjRecords>>

PjReturned == pjEnded /\ UNCHANGED pjVars

PjNext ==
    \/ RdNext /\ UNCHANGED <<pjEnded, pjNormalizer, pjCol, pjText>>
    \/ PjFinish \/ PjReturned
    \/ \E content \in PjContents : PjCarriage(content) \/ PjNewline(content)

PjSpec == PjInit /\ [][PjNext]_pjVars

-----------------------------------------------------------------------------
(* The projection is bounded (project_bytes): whichever way lines repeat,   *)
(* are overwritten, clipped or selected around failures, the text returned  *)
(* is within the byte, line and token limits.                               *)
ProjectionFits == PjFits(pjText, PjLimits)

=============================================================================
