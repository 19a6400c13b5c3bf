--------------------------- MODULE MCPythonPlane ---------------------------
(***************************************************************************)
(* Three parts of the Python plane that wait for another process, on small *)
(* instances: the reference runner, its spool and its readers, and an      *)
(* extension call.  They share no state, so a behaviour is one of one      *)
(* part, named by turn, while the others stay in their initial state.      *)
(***************************************************************************)
EXTENDS ReferenceCapture, ReferenceSpool, Extension

VARIABLE turn

vars == <<turn, rcVars, rsVars, exVars>>

Init == /\ turn \in {"runner", "spool", "extension"}
        /\ RcInit /\ RsInit /\ ExInit

Next ==
    \/ turn = "runner" /\ RcNext /\ UNCHANGED <<turn, rsVars, exVars>>
    \/ turn = "spool" /\ RsNext /\ UNCHANGED <<turn, rcVars, exVars>>
    \/ turn = "extension" /\ ExNext /\ UNCHANGED <<turn, rcVars, rsVars>>

\* The event loop runs every ready task and fires its timers; nothing makes
\* the command write or exit.
RunnerIsFair ==
    /\ \A s \in RcStreams : WF_rcVars(turn = "runner" /\ RcDrainer(s))
    /\ WF_rcVars(turn = "runner" /\ RcTimeout)
    /\ WF_rcVars(turn = "runner" /\ RcCoroutine)

\* The caller's thread is scheduled and its clock advances; the worker need
\* do nothing.
CallerIsFair ==
    /\ WF_exVars(turn = "extension" /\ ExCaller)
    /\ WF_exVars(turn = "extension" /\ ExDeadline)

Spec == Init /\ [][Next]_vars /\ RunnerIsFair /\ CallerIsFair

TypeOK == RcTypeOK /\ RsTypeOK /\ ExTypeOK

(***************************************************************************)
(* The reference engine is a second implementation of what the Rust engine *)
(* promises: its runner collects as the drain threads do (Collection) and  *)
(* its spool publishes as the capture store does (Publication).            *)
(***************************************************************************)
ReferenceConforms == ReferenceCollects /\ ReferencePublishes

=============================================================================
