---------------------------- MODULE MCRetention ----------------------------
(* Retention on small instances.                                           *)
EXTENDS Retention
=============================================================================
