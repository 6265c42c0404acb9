---------------------------- MODULE MCLastChange ----------------------------
(***************************************************************************)
(* A small instance of LastChange: an EthernetUNI and an ANI.              *)
(***************************************************************************)
EXTENDS LastChange

CONSTANTS uni, ani
=============================================================================
