--------------------------- MODULE MCToolsPlane ---------------------------
(***************************************************************************)
(* The parts of the Python plane that decide what runs, what is shown and  *)
(* what counts as evidence, on small instances.  They share no state, so a *)
(* behaviour is one of one part, named by turn, while the others stay in   *)
(* their initial state.                                                    *)
(***************************************************************************)
EXTENDS TLC, Pilot, Launch, Bundle, Rollout, Projection, Acceptance, PolicyFlow

VARIABLE turn

vars == <<turn, plVars, lhVars, bdVars, roVars, pjVars, acVars, pfVars>>

\* One value is a prefix of the other, so the longest match matters.
MCSecrets == {<<"a", "b">>, <<"a", "b", "a">>}

\* A short line, one that is clipped, and one with a failure anchor.
MCContents == {[id |-> "x", len |-> 1, anchor |-> FALSE],
               [id |-> "long", len |-> 3, anchor |-> FALSE],
               [id |-> "fail", len |-> 2, anchor |-> TRUE]}

\* The builders are alike, and every property is an invariant.
MCSymmetry == Permutations(BdBuilders)

MCLimits == [bytes |-> 12, lines |-> 6, tokens |-> 3]

Init ==
    /\ turn \in {"pilot", "launch", "bundle", "rollout", "projection",
                 "acceptance", "policy"}
    /\ PlInit /\ LhInit /\ BdInit /\ RoInit /\ PjInit /\ AcInit /\ PfInit

Next ==
    \/ /\ turn = "pilot" /\ PlNext
       /\ UNCHANGED <<turn, lhVars, bdVars, roVars, pjVars, acVars, pfVars>>
    \/ /\ turn = "launch" /\ LhNext
       /\ UNCHANGED <<turn, plVars, bdVars, roVars, pjVars, acVars, pfVars>>
    \/ /\ turn = "bundle" /\ BdNext
       /\ UNCHANGED <<turn, plVars, lhVars, roVars, pjVars, acVars, pfVars>>
    \/ /\ turn = "rollout" /\ RoNext
       /\ UNCHANGED <<turn, plVars, lhVars, bdVars, pjVars, acVars, pfVars>>
    \/ /\ turn = "projection" /\ PjNext
       /\ UNCHANGED <<turn, plVars, lhVars, bdVars, roVars, acVars, pfVars>>
    \/ /\ turn = "acceptance" /\ AcNext
       /\ UNCHANGED <<turn, plVars, lhVars, bdVars, roVars, pjVars, pfVars>>
    \/ /\ turn = "policy" /\ PfNext
       /\ UNCHANGED <<turn, plVars, lhVars, bdVars, roVars, pjVars, acVars>>

Spec == Init /\ [][Next]_vars

TypeOK ==
    /\ PlTypeOK /\ LhTypeOK /\ BdTypeOK /\ RoTypeOK /\ PjTypeOK /\ AcTypeOK
    /\ PfTypeOK

=============================================================================
