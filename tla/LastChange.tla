----------------------------- MODULE LastChange -----------------------------
(***************************************************************************)
(* The LastChange parameter of the interface objects of an ONU, its        *)
(* EthernetUNIs and its ANIs: "the accumulated time in seconds since the   *)
(* interface entered its current operational state".  The time of the last *)
(* change of Status is kept in private data attached to the instance       *)
(* (object_intf_priv.c).  It is attached and updated by event handlers,    *)
(* which run some time after the change and look the instance up again.    *)
(***************************************************************************)
EXTENDS Naturals, Sequences

CONSTANTS
  Intf,       \* instance paths of the interface objects
  Uni,        \* those that are EthernetUNIs
  Statuses,   \* values of Status in use
  Never,      \* in place of a time stamp: no private data is attached
  MaxTime,    \* bound on the uptime
  MaxEvents   \* bound on the queue of events

Absent == "Absent"

ASSUME LastChangeAssumption ==
  /\ Uni \subseteq Intf
  /\ Absent \notin Statuses /\ {"Up", "Down"} \subseteq Statuses
  /\ Never \notin Nat
  /\ MaxTime \in Nat /\ MaxEvents \in Nat \ {0}

VARIABLES
  uptime,     \* time_get_system_uptime()
  status,     \* Status of each instance, Absent if it does not exist
  priv,       \* object_intf_priv_t.last_change of each, or Never
  events,     \* instance-added and Status-changed events still queued
  since,      \* history: when the instance got its Status
  overtaken,  \* history: removed while an event was still queued
  unseen,     \* history: Status set by an OMCI reset MIB, without an event
  leaked      \* history: private data lost without being freed

hist == <<since, overtaken, unseen, leaked>>
vars == <<uptime, status, priv, events, hist>>

Exists(i) == status[i] # Absent
Pending(i) == \E k \in DOMAIN events : events[k].obj = i
Queue(kind, i) ==
  /\ Len(events) < MaxEvents
  /\ events' = Append(events, [kind |-> kind, obj |-> i])
-----------------------------------------------------------------------------
(***************************************************************************)
(* Changes of the data model.                                              *)
(***************************************************************************)

\* A new Status that lasts from now on.
SetStatus(i, s) ==
  /\ status' = [status EXCEPT ![i] = s]
  /\ since' = [since EXCEPT ![i] = uptime]
  /\ unseen' = unseen \ {i}

\* Creating an instance queues one event, also if it comes with a Status.
dm_add_instance(i, s) ==
  /\ ~Exists(i)
  /\ SetStatus(i, s)
  /\ Queue("added", i)
  /\ UNCHANGED <<uptime, priv, overtaken, leaked>>

dm_change_object(i, s) ==
  /\ Exists(i)
  /\ s # status[i]
  /\ SetStatus(i, s)
  /\ Queue("changed", i)
  /\ UNCHANGED <<uptime, priv, overtaken, leaked>>

\* Mutant: the instance goes, its private data is not released.
object_destroyed_common_kept(i) ==
  /\ leaked' = leaked \cup {j \in {i} : priv[j] # Never}
  /\ priv' = [priv EXCEPT ![i] = Never]

\* The destroy action releases the private data, if there is any.
object_destroyed_common(i) ==
  /\ priv' = [priv EXCEPT ![i] = Never]
  /\ UNCHANGED leaked

dm_remove_instance(i) ==
  /\ Exists(i)
  /\ status' = [status EXCEPT ![i] = Absent]
  /\ object_destroyed_common(i)
  /\ overtaken' = IF Pending(i) THEN overtaken \cup {i} ELSE overtaken
  /\ unseen' = unseen \ {i}
  /\ UNCHANGED <<uptime, events, since>>

\* Every EthernetUNI that is Up goes Down.  It is no transaction: the value is
\* set in the object and no event is queued.
dm_omci_reset_mib ==
  LET up == {i \in Uni : status[i] = "Up"} IN
  /\ up # {}
  /\ status' = [i \in Intf |-> IF i \in up THEN "Down" ELSE status[i]]
  /\ since' = [i \in Intf |-> IF i \in up THEN uptime ELSE since[i]]
  /\ unseen' = unseen \cup up
  /\ UNCHANGED <<uptime, priv, events, overtaken, leaked>>
-----------------------------------------------------------------------------
(***************************************************************************)
(* The event handlers.                                                     *)
(***************************************************************************)

\* Mutant: the handler is registered for EthernetUNIs only.
oipriv_attach_private_data_uni(i) ==
  IF Exists(i) /\ i \in Uni
  THEN priv' = [priv EXCEPT ![i] = uptime] /\ UNCHANGED leaked
  ELSE UNCHANGED <<priv, leaked>>

\* The private data an instance has is overwritten, not freed.
oipriv_attach_private_data(i) ==
  IF Exists(i)
  THEN /\ priv' = [priv EXCEPT ![i] = uptime]
       /\ leaked' = leaked \cup {j \in {i} : priv[j] # Never}
  ELSE UNCHANGED <<priv, leaked>>

\* Mutant: only an instance without a time stamp gets one.
oipriv_update_last_change_once(i) ==
  /\ priv' = [priv EXCEPT ![i] = IF @ = Never THEN uptime ELSE @]
  /\ UNCHANGED leaked

oipriv_update_last_change(i) ==
  /\ priv' = [priv EXCEPT ![i] = IF @ = Never THEN Never ELSE uptime]
  /\ UNCHANGED leaked

\* Every instance, event and time stamp is gone; the uptime goes on.
Fresh ==
  /\ status' = [i \in Intf |-> Absent]
  /\ priv' = [i \in Intf |-> Never]
  /\ events' = <<>>
  /\ since' = [i \in Intf |-> 0]
  /\ overtaken' = {} /\ unseen' = {} /\ leaked' = {}
  /\ UNCHANGED uptime

interface_object_added ==
  /\ events # <<>>
  /\ Head(events).kind = "added"
  /\ oipriv_attach_private_data(Head(events).obj)
  /\ events' = Tail(events)
  /\ UNCHANGED <<uptime, status, since, overtaken, unseen>>

\* The handler follows the object it looks up without a check: if the
\* instance was removed, there is none, and the process stops.
status_changed ==
  /\ events # <<>>
  /\ Head(events).kind = "changed"
  /\ IF Exists(Head(events).obj)
     THEN /\ oipriv_update_last_change(Head(events).obj)
          /\ events' = Tail(events)
          /\ UNCHANGED <<uptime, status, since, overtaken, unseen>>
     ELSE Fresh

\* The value read, 0 if there is no private data yet.
lastchange_on_read(i) ==
  IF priv[i] = Never \/ uptime < priv[i] THEN 0 ELSE uptime - priv[i]

Tick ==
  /\ uptime < MaxTime
  /\ uptime' = uptime + 1
  /\ UNCHANGED <<status, priv, events, hist>>

Restart == Fresh

Init ==
  /\ uptime = 0
  /\ status = [i \in Intf |-> Absent]
  /\ priv = [i \in Intf |-> Never]
  /\ events = <<>>
  /\ since = [i \in Intf |-> 0]
  /\ overtaken = {} /\ unseen = {} /\ leaked = {}

Next ==
  \/ \E i \in Intf, s \in Statuses :
       dm_add_instance(i, s) \/ dm_change_object(i, s)
  \/ \E i \in Intf : dm_remove_instance(i)
  \/ dm_omci_reset_mib
  \/ interface_object_added
  \/ status_changed
  \/ Tick
  \/ Restart

Spec == Init /\ [][Next]_vars
-----------------------------------------------------------------------------
(***************************************************************************)
(* Properties.                                                             *)
(***************************************************************************)

\* Every variable stays in its range; only instances have private data, and no
\* time stamp is of the future.
TypeOK ==
  /\ uptime \in 0 .. MaxTime
  /\ status \in [Intf -> Statuses \cup {Absent}]
  /\ priv \in [Intf -> (0 .. MaxTime) \cup {Never}]
  /\ \A i \in Intf : priv[i] # Never => Exists(i) /\ priv[i] <= uptime
  /\ events \in Seq([kind : {"added", "changed"}, obj : Intf])
  /\ Len(events) <= MaxEvents
  /\ since \in [Intf -> 0 .. MaxTime]
  /\ \A i \in Intf : since[i] <= uptime
  /\ overtaken \subseteq Intf /\ unseen \subseteq Intf /\ leaked \subseteq Intf

\* LastChange never shows more than the time the interface has had its Status,
\* once the events of the interface are handled.  (An OMCI reset MIB queues
\* none: after it LastChange still counts from the previous change.)
NeverOverstated ==
  \A i \in Intf :
    Exists(i) /\ ~Pending(i) /\ i \notin unseen
      => lastchange_on_read(i) <= uptime - since[i]

\* Once the events of an interface are handled, it has private data: otherwise
\* later changes of its Status would be ignored.
Attached == \A i \in Intf : Exists(i) /\ ~Pending(i) => priv[i] # Never

\* Private data is lost only for an interface that was removed while an event of
\* it was still queued.
OnlyOvertakenLeaks == leaked \subseteq overtaken
=============================================================================
