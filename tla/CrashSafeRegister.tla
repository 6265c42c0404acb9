-------------------------- MODULE CrashSafeRegister --------------------------
(***************************************************************************)
(* What upgrade_persistency.c promises to who sets a password: a register  *)
(* whose value changes at one moment of each setting, from the old to the  *)
(* new value, and survives crashes.  A value is acknowledged only when a   *)
(* crash can no longer bring back an older one.                            *)
(***************************************************************************)
CONSTANTS
  Value,    \* what the register can hold
  Nothing   \* the value of a register that was never set

VARIABLES
  saved,    \* what a reader would find, also after a crash
  pending,  \* the value that is being set, if any
  acked,    \* the value acknowledged last, if any
  damaged   \* a failure outside the register excuses it

vars == <<saved, pending, acked, damaged>>

Init == saved = Nothing /\ pending = {} /\ acked = {} /\ damaged = FALSE

\* Failures are forgotten when a new value is set.
Set(v) ==
  /\ pending = {}
  /\ pending' = {v}
  /\ damaged' \in {damaged, FALSE}
  /\ UNCHANGED <<saved, acked>>

Take ==
  /\ saved' \in pending
  /\ UNCHANGED <<pending, acked, damaged>>

Acknowledge ==
  /\ pending # {}
  /\ damaged \/ pending = {saved}
  /\ acked' = pending
  /\ pending' = {}
  /\ UNCHANGED <<saved, damaged>>

\* Who was acknowledged is gone, or starts anew.
Forget ==
  /\ acked' = {}
  /\ damaged' \in {damaged, TRUE}
  /\ UNCHANGED <<saved, pending>>

\* A setting that fails may leave anything.
Damage ==
  /\ pending # {}
  /\ damaged' = TRUE
  /\ saved' \in Value
  /\ UNCHANGED <<pending, acked>>

Crash ==
  /\ pending' = {} /\ acked' = {} /\ damaged' = FALSE
  /\ UNCHANGED saved

Next == (\E v \in Value : Set(v)) \/ Take \/ Acknowledge \/ Forget \/ Damage \/ Crash

Spec == Init /\ [][Next]_vars
=============================================================================
