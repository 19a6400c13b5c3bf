---------------------------- MODULE Publication ----------------------------
(***************************************************************************)
(* What an engine promises of one capture's evidence, without files,       *)
(* processes or power: its outcome is decided once, evidence appears under *)
(* the capture's name with that outcome and no other, and from the moment  *)
(* somebody was told of it, it is there for good.                          *)
(***************************************************************************)
CONSTANT Outcomes  \* what a drained capture may be

VARIABLES
    taken,    \* the capture's name belongs to something else
    decided,  \* the outcome, or none
    kept,     \* what a reader of captures/ finds: a status, or nothing
    told      \* somebody was told that the evidence is there

Init ==
    /\ taken \in BOOLEAN
    /\ decided = "none" /\ kept = "nothing" /\ told = FALSE

Decide ==
    /\ decided = "none" /\ decided' \in Outcomes
    /\ UNCHANGED <<taken, kept, told>>

\* The evidence appears; whoever published it may say so in the same step.
Publish ==
    /\ kept = "nothing" /\ decided # "none" /\ ~taken
    /\ kept' = decided /\ told' \in BOOLEAN
    /\ UNCHANGED <<taken, decided>>

Tell ==
    /\ kept # "nothing" /\ told' = TRUE
    /\ UNCHANGED <<taken, decided, kept>>

\* Evidence nobody was told of may go away again.
Retract ==
    /\ kept # "nothing" /\ ~told
    /\ kept' = "nothing"
    /\ UNCHANGED <<taken, decided, told>>

Next == Decide \/ Publish \/ Tell \/ Retract

Spec == Init /\ [][Next]_<<taken, decided, kept, told>>

=============================================================================
