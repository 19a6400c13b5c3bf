--------------------------- MODULE MCCaptureDrain ---------------------------
(* CaptureDrain on small instances.                                        *)
EXTENDS CaptureDrain
=============================================================================
