----------------------------- MODULE MCRthTasks -----------------------------
(***************************************************************************)
(* Two ONUs and an ANI, whose path starts with that of its ONU.             *)
(***************************************************************************)
EXTENDS RthTasks

CONSTANTS o1, o2, a3

MCPathPrefix == {<<o, o>> : o \in {o1, o2, a3}} \cup {<<o2, a3>>}
=============================================================================
