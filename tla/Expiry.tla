------------------------------- MODULE Expiry -------------------------------
(***************************************************************************)
(* What retention promises of one capture, without its files: expiry is    *)
(* begun, then committed, and only then are raw bytes discarded.  Nothing  *)
(* but a power loss takes a phase back.                                    *)
(***************************************************************************)
EXTENDS Naturals

VARIABLES
    phase,   \* kept, pending (readers are refused), expired
    whole,   \* every raw file is there
    losses   \* power losses so far

Phases == {"kept", "pending", "expired"}

Init == phase = "kept" /\ whole = TRUE /\ losses = 0

Begin == phase = "kept" /\ phase' = "pending" /\ UNCHANGED <<whole, losses>>

Commit == phase = "pending" /\ phase' = "expired" /\ UNCHANGED <<whole, losses>>

Discard == phase = "expired" /\ whole' = FALSE /\ UNCHANGED <<phase, losses>>

\* A power loss undoes what was not durable; it never completes an expiry.
Lose ==
    /\ losses' = losses + 1
    /\ phase' \in Phases /\ whole' \in BOOLEAN
    /\ phase' = "expired" => phase = "expired"

Next == Begin \/ Commit \/ Discard \/ Lose

Spec == Init /\ [][Next]_<<phase, whole, losses>>

=============================================================================
