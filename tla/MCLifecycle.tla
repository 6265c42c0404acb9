----------------------------- MODULE MCLifecycle -----------------------------
(***************************************************************************)
(* Three starts, so that a folder that was created, and one that came or   *)
(* went, is met again.                                                     *)
(***************************************************************************)
EXTENDS Lifecycle
==============================================================================
