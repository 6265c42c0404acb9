--------------------------- MODULE MCEnableRestore ---------------------------
(***************************************************************************)
(* Small instances of EnableRestore: at most two ONUs, each with one ANI.  *)
(***************************************************************************)
EXTENDS EnableRestore

CONSTANTS o1, o2, a1, a2, u1

\* XPON.ONU.1 with an ANI and an EthernetUNI, XPON.ONU.2 with an ANI.
MCOnuOf == [c \in Ani \cup Uni |-> IF c = a2 THEN o2 ELSE o1]

\* The text of an ONU path starts the text of the paths of its ANIs.
MCPathPrefix ==
  {<<o, o>> : o \in Switchable} \cup {<<OnuOf[a], a>> : a \in Ani}
=============================================================================
