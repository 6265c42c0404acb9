----------------------------- MODULE MCDataModel -----------------------------
(***************************************************************************)
(* One ONU, which has an EthernetUNI and two ANIs, each with a GEM port,   *)
(* and one with a transceiver.  Some of the names lead nowhere.            *)
(***************************************************************************)
EXTENDS DataModel

\* Nothing the walk of populate_dm_startup.c goes down to is unknown.
ASSUME ChildrenKnown == ChildrenListed

XponOnu == <<"XPON", "ONU">>
Ani(i) == XponOnu \o <<"1", "ANI", i>>

MCNames ==
  {<<XponOnu, "1">>, <<XponOnu \o <<"1", "ANI">>, "0">>,
   <<XponOnu \o <<"1">>, Absent>>,
   <<XponOnu \o <<"1", "EthernetUNI">>, "1">>,
   <<XponOnu \o <<"1", "ANI">>, "1">>, <<XponOnu \o <<"1", "ANI">>, "2">>,
   <<Ani("1") \o <<"TC", "GEM", "Port">>, "1">>,
   <<Ani("2") \o <<"TC", "GEM", "Port">>, "1">>,
   <<Ani("1") \o <<"Transceiver">>, "1">>,
   <<Ani("1") \o <<"TC", "Alarms">>, Absent>>,
   <<Ani("1") \o <<"TC", "Alarms">>, "1">>,
   <<Ani("1") \o <<"TC">>, Absent>>,
   <<XponOnu \o <<"0", "ANI">>, "1">>, <<XponOnu \o <<"x", "ANI">>, "1">>,
   <<Ani("1"), "1">>}
==============================================================================
