------------------------------- MODULE DmInfo -------------------------------
(***************************************************************************)
(* What is known at compile time about the objects of the XPON data model  *)
(* (dm_info.c), and how the path of an object leads to that information.   *)
(*                                                                         *)
(* A path is the sequence of its parts: "XPON.ONU.1.ANI" is                *)
(* <<"XPON", "ONU", "1", "ANI">>.                                          *)
(***************************************************************************)
EXTENDS Naturals, Sequences, SequencesExt

CONSTANT Index  \* the indexes an instance can have

Numeric == Index \cup {"0"}  \* the parts of a path that are numeric

Unknown == "unknown"  \* obj_id_unknown
NoKey == "no_key"     \* key_name of an object that is no template

\* The parts from an ANI instance down to the objects of its TC.
AniPath == <<"XPON", "ONU", "x", "ANI">>
Tc(name) == AniPath \o <<"x", "TC", name>>

\* object_info_t: generic_path, key_name, singletons and templates.
Info(path, key, singletons, templates) ==
  [path |-> path, key |-> key, singletons |-> singletons,
   templates |-> templates]

OBJECT_INFO ==
  [onu |->
     Info(<<"XPON", "ONU">>, "Name", {},
          {<<"SoftwareImage">>, <<"EthernetUNI">>, <<"ANI">>}),
   software_image |->
     Info(<<"XPON", "ONU", "x", "SoftwareImage">>, "ID", {}, {}),
   ethernet_uni |->
     Info(<<"XPON", "ONU", "x", "EthernetUNI">>, "Name", {}, {}),
   ani |->
     Info(AniPath, "Name",
          {<<"TC", "ONUActivation">>, <<"TC", "PerformanceThresholds">>,
           <<"TC", "Alarms">>},
          {<<"TC", "GEM", "Port">>, <<"Transceiver">>}),
   gem_port |-> Info(Tc("GEM") \o <<"Port">>, "PortID", {}, {}),
   transceiver |-> Info(AniPath \o <<"x", "Transceiver">>, "ID", {}, {}),
   ani_tc_onu_activation |-> Info(Tc("ONUActivation"), NoKey, {}, {}),
   ani_tc_authentication |-> Info(Tc("Authentication"), NoKey, {}, {}),
   ani_tc_performance_thresholds |->
     Info(Tc("PerformanceThresholds"), NoKey, {}, {}),
   ani_tc_alarms |-> Info(Tc("Alarms"), NoKey, {}, {})]

object_id == DOMAIN OBJECT_INFO

\* No part of a generic path is a number.
ASSUME IndexAssumption ==
  /\ Index \subseteq STRING \ {"0"}
  /\ \A id \in object_id : ToSet(OBJECT_INFO[id].path) \cap Numeric = {}

\* The objects whose table of parameters holds Status.
WithStatus == {"ethernet_uni", "ani"}

\* All numbers in a path become "x".
Generalised(path) ==
  [k \in DOMAIN path |-> IF path[k] \in Numeric THEN "x" ELSE path[k]]

\* Mutant: an index at the end becomes "x" like the others.
dm_convert_to_generic_path_kept(path) == Generalised(path)

\* The index of an instance is dropped, the others become "x".
dm_convert_to_generic_path(path) ==
  Generalised(IF path # <<>> /\ path[Len(path)] \in Numeric
              THEN Front(path) ELSE path)

\* The objects with this generic path: one, or none.
dm_get_object_id(path) ==
  LET generic == dm_convert_to_generic_path(path)
      ids == {id \in object_id : OBJECT_INFO[id].path = generic}
  IN IF path = <<>> \/ ids = {} THEN Unknown ELSE CHOOSE id \in ids : TRUE
-----------------------------------------------------------------------------
\* The paths an object may have: the generic one, with or without numbers in
\* it, and in the case of a template one number more for an instance.
Denotes(path, id) ==
  LET g == OBJECT_INFO[id].path
      Is(p) == /\ Len(p) = Len(g)
               /\ \A k \in DOMAIN g :
                    IF g[k] = "x" THEN p[k] \in Numeric \cup {"x"} ELSE p[k] = g[k]
  IN Is(path) \/ (\E i \in Numeric : path = Append(Front(path), i) /\ Is(Front(path)))

\* The children listed for an object have an entry of their own: templates
\* with a key, singletons without, so that the walk of populate_dm_startup.c
\* finds what to do with them.
ChildrenListed ==
  \A id \in object_id :
    /\ \A t \in OBJECT_INFO[id].templates :
         LET c == dm_get_object_id(OBJECT_INFO[id].path \o <<"x">> \o t)
         IN c # Unknown /\ OBJECT_INFO[c].key # NoKey
    /\ \A s \in OBJECT_INFO[id].singletons :
         LET c == dm_get_object_id(OBJECT_INFO[id].path \o <<"x">> \o s)
         IN c # Unknown /\ OBJECT_INFO[c].key = NoKey
=============================================================================
