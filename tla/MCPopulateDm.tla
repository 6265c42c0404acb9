---------------------------- MODULE MCPopulateDm ----------------------------
(***************************************************************************)
(* One or two ONUs; the first has one EthernetUNI and one ANI, and the ANI *)
(* has a singleton and one GEM port.                                       *)
(***************************************************************************)
EXTENDS PopulateDm

CONSTANTS o1, o2, far, uni, ani, gem,
          XponOnu, EthernetUNI, ANI, GemPort, Alarms

MCTemplateOf ==
  [i \in Inst |-> CASE i = uni -> EthernetUNI
                    [] i = ani -> ANI
                    [] i = gem -> GemPort
                    [] OTHER   -> XponOnu]

MCOwner ==
  [x \in Single \cup Templ |-> IF x \in {EthernetUNI, ANI} THEN o1 ELSE ani]

MCSingletons ==
  [i \in Inst |-> IF i = ani THEN <<Alarms>> ELSE <<>>]

MCTemplates ==
  [i \in Inst |-> CASE i = o1  -> <<EthernetUNI, ANI>>
                    [] i = ani -> <<GemPort>>
                    [] OTHER   -> <<>>]
=============================================================================
