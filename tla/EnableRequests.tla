--------------------------- MODULE EnableRequests ---------------------------
(***************************************************************************)
(* What restore_to_hal.c promises to the rest of the plugin: an object     *)
(* whose enabling was requested is told to the vendor module once, unless  *)
(* the request is withdrawn before.  How requests are kept, when they are  *)
(* looked at, and in which order, is left open.                            *)
(***************************************************************************)
CONSTANT Object

VARIABLES
  requested,  \* objects still to be enabled in the vendor module
  told        \* objects the vendor module was last told to enable

vars == <<requested, told>>

Init == requested = {} /\ told = {}

Request(o) == requested' = requested \cup {o} /\ UNCHANGED told

\* Enable is set to false: a request that still waits is withdrawn.
Disable(o) == requested' = requested \ {o} /\ told' = told \ {o}

Tell(o) ==
  /\ o \in requested
  /\ requested' = requested \ {o}
  /\ told' = told \cup {o}

Next == \E o \in Object : Request(o) \/ Disable(o) \/ Tell(o)

Safe == Init /\ [][Next]_vars

\* A request that is not withdrawn is carried out.
Spec == Safe /\ \A o \in Object : WF_vars(Tell(o))
=============================================================================
