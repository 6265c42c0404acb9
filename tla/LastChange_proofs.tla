-------------------------- MODULE LastChange_proofs --------------------------
(***************************************************************************)
(* Proofs about LastChange, for any number of interface objects, any       *)
(* values of Status and any bounds.                                        *)
(***************************************************************************)
EXTENDS LastChange, SequenceTheorems, TLAPS

Event == [kind : {"added", "changed"}, obj : Intf]

\* The event that will attach the private data of i.
AddedAt(k, i) ==
  k \in DOMAIN events /\ events[k].kind = "added" /\ events[k].obj = i
Added(i) == \E k \in DOMAIN events : AddedAt(k, i)

\* What a queued event does to the queue and to the objects it is about.
LEMMA QueueTypes ==
  ASSUME events \in Seq(Event), NEW i \in Intf,
         NEW kind \in {"added", "changed"}, Queue(kind, i)
  PROVE  /\ events' \in Seq(Event)
         /\ Len(events') <= MaxEvents
         /\ Pending(i)'
         /\ \A j \in Intf : j # i => (Pending(j)' <=> Pending(j))
         /\ \A k, j : AddedAt(k, j)'
              <=> \/ AddedAt(k, j)
                  \/ k = Len(events) + 1 /\ kind = "added" /\ j = i
         /\ \A k : k \in DOMAIN events => k # Len(events) + 1
<1> DEFINE e == [kind |-> kind, obj |-> i]
<1>1. /\ e \in Event /\ events' = Append(events, e)
      /\ Len(events) \in Nat /\ Len(events) < MaxEvents
  BY LenProperties DEF Queue, Event
<1>2. /\ events' \in Seq(Event) /\ Len(events') = Len(events) + 1
      /\ \A k \in 1 .. Len(events) : events'[k] = events[k]
      /\ events'[Len(events) + 1] = e
  BY <1>1, AppendProperties
<1>3. /\ DOMAIN events = 1 .. Len(events)
      /\ DOMAIN events' = 1 .. Len(events) + 1
  BY <1>1, <1>2, LenProperties
<1>4. Pending(i)'
  BY <1>1, <1>2, <1>3 DEF Pending
<1>5. ASSUME NEW j \in Intf, j # i
      PROVE  Pending(j)' <=> Pending(j)
  BY <1>1, <1>2, <1>3, <1>5 DEF Pending
<1>6. /\ \A k, j : AddedAt(k, j)'
           <=> \/ AddedAt(k, j)
               \/ k = Len(events) + 1 /\ kind = "added" /\ j = i
      /\ \A k : k \in DOMAIN events => k # Len(events) + 1
  BY <1>1, <1>2, <1>3 DEF AddedAt
<1> QED
  BY <1>1, <1>2, <1>4, <1>5, <1>6, LastChangeAssumption DEF LastChangeAssumption

\* Taking the oldest event from the queue.
LEMMA TailTypes ==
  ASSUME events \in Seq(Event), events # <<>>, events' = Tail(events)
  PROVE  /\ Head(events) \in Event
         /\ events' \in Seq(Event) /\ Len(events') < Len(events)
         /\ \A i \in Intf : i # Head(events).obj => (Pending(i)' <=> Pending(i))
         /\ \A i \in Intf : Pending(i)' => Pending(i)
         /\ \A k, i : AddedAt(k, i)' => k + 1 \in Nat /\ AddedAt(k + 1, i)
         /\ \A k, i : AddedAt(k, i) =>
              \/ k - 1 \in Nat \ {0} /\ AddedAt(k - 1, i)'
              \/ k = 1 /\ Head(events).kind = "added" /\ Head(events).obj = i
<1>1. /\ Head(events) \in Event /\ events' \in Seq(Event)
      /\ Len(events) \in Nat \ {0} /\ Len(events') = Len(events) - 1
      /\ \A k \in 1 .. Len(events') : events'[k] = events[k + 1]
      /\ Head(events) = events[1]
  BY HeadTailProperties, EmptySeq, LenProperties
<1>2. DOMAIN events = 1 .. Len(events) /\ DOMAIN events' = 1 .. Len(events')
  BY <1>1, LenProperties
<1>3. ASSUME NEW i \in Intf, Pending(i)' PROVE Pending(i)
  BY <1>1, <1>2, <1>3 DEF Pending
<1>4. ASSUME NEW i \in Intf, i # Head(events).obj, Pending(i)
      PROVE  Pending(i)'
  <2> PICK k \in DOMAIN events : events[k].obj = i
    BY <1>4 DEF Pending
  <2>1. k - 1 \in DOMAIN events' /\ events'[k - 1] = events[k]
    BY <1>1, <1>2, <1>4
  <2> QED BY <2>1 DEF Pending
<1>5. \A k, i : AddedAt(k, i)' => k + 1 \in Nat /\ AddedAt(k + 1, i)
  BY <1>1, <1>2 DEF AddedAt
<1>6. \A k, i : AddedAt(k, i) =>
        \/ k - 1 \in Nat \ {0} /\ AddedAt(k - 1, i)'
        \/ k = 1 /\ Head(events).kind = "added" /\ Head(events).obj = i
  BY <1>1, <1>2 DEF AddedAt
<1> QED BY <1>1, <1>3, <1>4, <1>5, <1>6

\* What is queued is of the right type, and the steps that touch the queue
\* leave everything in its range.
LEMMA TypeInit == Init => TypeOK
<1>1. Init => events \in Seq([kind : {"added", "changed"}, obj : Intf])
              /\ Len(events) = 0
  BY EmptySeq DEF Init
<1> QED
  BY <1>1, LastChangeAssumption, SMT
  DEF Init, TypeOK, LastChangeAssumption

LEMMA TypeFresh == ASSUME TypeOK, Fresh PROVE TypeOK'
<1>1. /\ events' \in Seq([kind : {"added", "changed"}, obj : Intf])
      /\ Len(events') = 0
  BY EmptySeq DEF Fresh
<1> QED
  BY <1>1, LastChangeAssumption, SMT DEF Fresh, TypeOK, LastChangeAssumption

\* An instance that exists gets the present time as its time stamp.
LEMMA Stamped ==
  ASSUME TypeOK, NEW i \in Intf, Exists(i), priv' = [priv EXCEPT ![i] = uptime]
  PROVE  /\ priv' \in [Intf -> (0 .. MaxTime) \cup {Never}]
         /\ \A j \in Intf : priv'[j] = IF j = i THEN uptime ELSE priv[j]
         /\ \A j \in Intf : priv'[j] # Never => Exists(j) /\ priv'[j] <= uptime
<1> DEFINE T == (0 .. MaxTime) \cup {Never}
<1>1. /\ priv \in [Intf -> T] /\ uptime \in T /\ uptime <= uptime
      /\ \A j \in Intf : priv[j] # Never => Exists(j) /\ priv[j] <= uptime
  BY LastChangeAssumption DEF TypeOK, LastChangeAssumption
<1> HIDE DEF T
<1>2. priv' \in [Intf -> T]
  BY <1>1
<1>3. \A j \in Intf : priv'[j] = IF j = i THEN uptime ELSE priv[j]
  BY <1>1
<1> QED BY <1>1, <1>2, <1>3 DEF T

\* Every variable stays in its range: only existing instances carry private
\* data, and no time stamp is of the future.
THEOREM TypeCorrect == Spec => []TypeOK
<1> USE LastChangeAssumption DEF LastChangeAssumption
<1>1. TypeOK /\ [Next]_vars => TypeOK'
  <2> SUFFICES ASSUME TypeOK, [Next]_vars PROVE TypeOK'
    OBVIOUS
  <2>1. ASSUME NEW i \in Intf, NEW s \in Statuses, dm_add_instance(i, s)
        PROVE  TypeOK'
    <3>1. events' \in Seq(Event) /\ Len(events') <= MaxEvents
      BY <2>1, QueueTypes DEF dm_add_instance, TypeOK, Event
    <3> QED
      BY <2>1, <3>1 DEF dm_add_instance, SetStatus, TypeOK, Exists, Event, hist
  <2>2. ASSUME NEW i \in Intf, NEW s \in Statuses, dm_change_object(i, s)
        PROVE  TypeOK'
    <3>1. events' \in Seq(Event) /\ Len(events') <= MaxEvents
      BY <2>2, QueueTypes DEF dm_change_object, TypeOK, Event
    <3> QED
      BY <2>2, <3>1 DEF dm_change_object, SetStatus, TypeOK, Exists, Event, hist
  <2>3. ASSUME NEW i \in Intf, dm_remove_instance(i) PROVE TypeOK'
    BY <2>3 DEF dm_remove_instance, object_destroyed_common, TypeOK, Exists
  <2>4. CASE dm_omci_reset_mib
    BY <2>4 DEF dm_omci_reset_mib, TypeOK, Exists
  <2>5. CASE interface_object_added
    <3>1. /\ Head(events).obj \in Intf
          /\ events' \in Seq(Event) /\ Len(events') < Len(events)
          /\ Len(events) \in Nat /\ Len(events') \in Nat
      BY <2>5, TailTypes, LenProperties DEF interface_object_added, TypeOK, Event
    <3> DEFINE i == Head(events).obj
    <3>2. /\ uptime' = uptime /\ status' = status /\ since' = since
          /\ overtaken' = overtaken /\ unseen' = unseen
      BY <2>5 DEF interface_object_added, Exists
    <3>3. /\ leaked' = leaked \/ leaked' = leaked \cup {j \in {i} : priv[j] # Never}
          /\ \/ priv' = priv
             \/ priv' = [priv EXCEPT ![i] = uptime] /\ Exists(i)
      BY <2>5, <3>1 DEF interface_object_added, oipriv_attach_private_data, TypeOK
    <3>4. leaked' \subseteq Intf
      BY <3>1, <3>3 DEF TypeOK
    <3>5. /\ priv' \in [Intf -> (0 .. MaxTime) \cup {Never}]
          /\ \A j \in Intf : priv'[j] # Never => Exists(j) /\ priv'[j] <= uptime
      <4>1. CASE priv' = priv
        BY <4>1 DEF TypeOK
      <4>2. CASE priv' = [priv EXCEPT ![i] = uptime] /\ Exists(i)
        BY <3>1, <4>2, Stamped
      <4> QED BY <3>3, <4>1, <4>2
    <3> QED
      BY <3>1, <3>2, <3>4, <3>5 DEF TypeOK, Exists, Event
  <2>6. CASE status_changed /\ Exists(Head(events).obj)
    <3>1. /\ Head(events).obj \in Intf
          /\ events' \in Seq(Event) /\ Len(events') < Len(events)
          /\ Len(events) \in Nat /\ Len(events') \in Nat
      BY <2>6, TailTypes, LenProperties DEF status_changed, TypeOK, Event
    <3> DEFINE i == Head(events).obj
    <3>2. /\ uptime' = uptime /\ status' = status /\ since' = since
          /\ overtaken' = overtaken /\ unseen' = unseen
      BY <2>6 DEF status_changed, Exists
    <3>3. /\ leaked' = leaked \/ leaked' = leaked \cup {j \in {i} : priv[j] # Never}
          /\ \/ priv' = priv
             \/ priv' = [priv EXCEPT ![i] = uptime] /\ Exists(i)
      BY <2>6, <3>1 DEF status_changed, oipriv_update_last_change, TypeOK
    <3>4. leaked' \subseteq Intf
      BY <3>1, <3>3 DEF TypeOK
    <3>5. /\ priv' \in [Intf -> (0 .. MaxTime) \cup {Never}]
          /\ \A j \in Intf : priv'[j] # Never => Exists(j) /\ priv'[j] <= uptime
      <4>1. CASE priv' = priv
        BY <4>1 DEF TypeOK
      <4>2. CASE priv' = [priv EXCEPT ![i] = uptime] /\ Exists(i)
        BY <3>1, <4>2, Stamped
      <4> QED BY <3>3, <4>1, <4>2
    <3> QED
      BY <3>1, <3>2, <3>4, <3>5 DEF TypeOK, Exists, Event
  <2>7. CASE Fresh
    BY <2>7, TypeFresh
  <2>8. CASE Tick
    BY <2>8 DEF Tick, hist, TypeOK, Exists
  <2>9. CASE UNCHANGED vars
    BY <2>9 DEF vars, hist, TypeOK, Exists
  <2> QED
    BY <2>1, <2>2, <2>3, <2>4, <2>5, <2>6, <2>7, <2>8, <2>9
    DEF Next, Restart, status_changed
<1> QED BY <1>1, TypeInit, PTL DEF Spec
-----------------------------------------------------------------------------
\* An instance without private data still has its instance-added event to come.
AttachedOrComing ==
  \A i \in Intf : Exists(i) /\ priv[i] = Never => Added(i)

\* Once the events of an interface are handled it has private data, so that no
\* later change of its Status is ignored.
THEOREM AlwaysAttached == Spec => []Attached
<1>1. Init => AttachedOrComing
  BY DEF Init, AttachedOrComing, Exists
<1>2. TypeOK /\ AttachedOrComing /\ [Next]_vars => AttachedOrComing'
  <2> SUFFICES ASSUME TypeOK, AttachedOrComing, [Next]_vars
               PROVE  AttachedOrComing'
    OBVIOUS
  <2>1. ASSUME NEW i \in Intf, NEW s \in Statuses, dm_add_instance(i, s)
        PROVE  AttachedOrComing'
    <3>1. /\ Added(i)'
          /\ \A j \in Intf : Added(j) => Added(j)'
      BY <2>1, QueueTypes DEF dm_add_instance, TypeOK, Event, Added, AddedAt
    <3> QED
      BY <2>1, <3>1
      DEF dm_add_instance, SetStatus, AttachedOrComing, Exists, TypeOK
  <2>2. ASSUME NEW i \in Intf, NEW s \in Statuses, dm_change_object(i, s)
        PROVE  AttachedOrComing'
    <3>1. \A j \in Intf : Added(j) => Added(j)'
      BY <2>2, QueueTypes DEF dm_change_object, TypeOK, Event, Added, AddedAt
    <3> QED
      BY <2>2, <3>1
      DEF dm_change_object, SetStatus, AttachedOrComing, Exists, TypeOK
  <2>3. ASSUME NEW i \in Intf, dm_remove_instance(i) PROVE AttachedOrComing'
    BY <2>3 DEF dm_remove_instance, object_destroyed_common, TypeOK, Exists,
                AttachedOrComing, Added, AddedAt
  <2>4. CASE dm_omci_reset_mib
    <3>1. \A i \in Intf : Exists(i)' => Exists(i)
      BY <2>4, LastChangeAssumption
      DEF dm_omci_reset_mib, Exists, LastChangeAssumption
    <3> QED
      BY <2>4, <3>1 DEF dm_omci_reset_mib, AttachedOrComing, Added, AddedAt
  <2>5. CASE interface_object_added
    <3>1. /\ Head(events).obj \in Intf
          /\ \A i \in Intf : i # Head(events).obj /\ Added(i) => Added(i)'
      BY <2>5, TailTypes DEF interface_object_added, TypeOK, Event, Added, AddedAt
    <3> QED
      BY <2>5, <3>1, LastChangeAssumption
      DEF interface_object_added, oipriv_attach_private_data, TypeOK, Exists,
          AttachedOrComing, LastChangeAssumption
  <2>6. CASE status_changed /\ Exists(Head(events).obj)
    <3>1. /\ Head(events).obj \in Intf
          /\ \A i \in Intf : Added(i) => Added(i)'
      BY <2>6, TailTypes DEF status_changed, TypeOK, Event, Added, AddedAt
    <3> QED
      BY <2>6, <3>1, LastChangeAssumption
      DEF status_changed, oipriv_update_last_change, TypeOK, Exists,
          AttachedOrComing, LastChangeAssumption
  <2>7. CASE Fresh
    BY <2>7 DEF Fresh, AttachedOrComing, Exists
  <2>8. CASE Tick \/ UNCHANGED vars
    BY <2>8 DEF Tick, vars, hist, AttachedOrComing, Exists, Added, AddedAt
  <2> QED
    BY <2>1, <2>2, <2>3, <2>4, <2>5, <2>6, <2>7, <2>8
    DEF Next, Restart, status_changed
<1>3. AttachedOrComing => Attached
  BY DEF AttachedOrComing, Attached, Added, AddedAt, Pending
<1> QED BY <1>1, <1>2, <1>3, TypeCorrect, PTL DEF Spec
-----------------------------------------------------------------------------
\* Once the events of an interface are handled, its time stamp is not older
\* than its Status.
Current ==
  \A i \in Intf :
    Exists(i) /\ ~Pending(i) /\ i \notin unseen
      => priv[i] # Never /\ since[i] <= priv[i]

\* LastChange never shows more than the time the interface has had its Status,
\* however late the events are handled and whatever instance they were for.
THEOREM LastChangeNotTooLarge == Spec => []NeverOverstated
<1>1. Init => Current
  BY DEF Init, Current, Exists
<1>2. TypeOK /\ Attached' /\ Current /\ [Next]_vars => Current'
  <2> SUFFICES ASSUME TypeOK, Attached', Current, [Next]_vars
               PROVE  Current'
    OBVIOUS
  <2>1. ASSUME NEW i \in Intf, NEW s \in Statuses,
               dm_add_instance(i, s) \/ dm_change_object(i, s)
        PROVE  Current'
    <3>1. /\ Pending(i)'
          /\ \A j \in Intf : j # i => (Pending(j)' <=> Pending(j))
      BY <2>1, QueueTypes DEF dm_add_instance, dm_change_object, TypeOK, Event
    <3>2. \A j \in Intf : j # i =>
            /\ status'[j] = status[j] /\ since'[j] = since[j]
            /\ priv'[j] = priv[j] /\ (j \in unseen' <=> j \in unseen)
      BY <2>1 DEF dm_add_instance, dm_change_object, SetStatus, TypeOK
    <3> QED
      BY <3>1, <3>2 DEF Current, Exists
  <2>2. ASSUME NEW i \in Intf, dm_remove_instance(i) PROVE Current'
    BY <2>2 DEF dm_remove_instance, object_destroyed_common, TypeOK, Exists,
                Current, Pending
  <2>3. CASE dm_omci_reset_mib
    <3>1. \A i \in Intf : i \notin unseen' =>
            /\ i \notin unseen /\ status'[i] = status[i] /\ since'[i] = since[i]
      BY <2>3 DEF dm_omci_reset_mib, TypeOK
    <3> QED
      BY <2>3, <3>1 DEF dm_omci_reset_mib, Current, Exists, Pending
  <2>4. CASE \/ interface_object_added
             \/ status_changed /\ Exists(Head(events).obj)
    <3>0. Head(events).obj \in Intf
      BY <2>4, TailTypes DEF interface_object_added, status_changed, TypeOK, Event
    <3> PICK i \in Intf : i = Head(events).obj
      BY <3>0
    <3>1. \A j \in Intf : j # i => (Pending(j)' <=> Pending(j))
      BY <2>4, TailTypes DEF interface_object_added, status_changed, TypeOK, Event
    <3>2. /\ status' = status /\ since' = since /\ unseen' = unseen
          /\ \A j \in Intf : j # i => priv'[j] = priv[j]
          /\ Exists(i) => priv'[i] \in {uptime, Never}
      BY <2>4, <3>1
      DEF interface_object_added, oipriv_attach_private_data, status_changed,
          oipriv_update_last_change, TypeOK, Exists
    <3>3. Exists(i) /\ ~Pending(i)' => priv'[i] # Never
      BY <3>1, <3>2 DEF Attached, Exists
    <3>4. since[i] <= uptime
      BY <3>1 DEF TypeOK
    <3> QED
      BY <3>1, <3>2, <3>3, <3>4 DEF Current, Exists
  <2>5. CASE Fresh
    BY <2>5 DEF Fresh, Current, Exists
  <2>6. CASE Tick \/ UNCHANGED vars
    BY <2>6 DEF Tick, vars, hist, Current, Exists, Pending
  <2>7. status_changed => Fresh \/ Exists(Head(events).obj)
    BY DEF status_changed
  <2>8. CASE status_changed
    BY <2>4, <2>5, <2>7, <2>8
  <2>9. CASE interface_object_added
    BY <2>4, <2>9
  <2>10. CASE \E i \in Intf, s \in Statuses :
                dm_add_instance(i, s) \/ dm_change_object(i, s)
    BY <2>1, <2>10
  <2>11. CASE Tick
    BY <2>6, <2>11
  <2>12. CASE UNCHANGED vars
    BY <2>6, <2>12
  <2> QED
    BY <2>2, <2>3, <2>5, <2>8, <2>9, <2>10, <2>11, <2>12 DEF Next, Restart
<1>3. TypeOK /\ Current => NeverOverstated
  <2> SUFFICES ASSUME TypeOK, Current, NEW i \in Intf,
                      Exists(i), ~Pending(i), i \notin unseen
               PROVE  lastchange_on_read(i) <= uptime - since[i]
    BY DEF NeverOverstated
  <2>1. /\ priv[i] # Never /\ since[i] <= priv[i] /\ priv[i] <= uptime
        /\ priv[i] \in Nat /\ uptime \in Nat /\ since[i] \in Nat
    BY LastChangeAssumption DEF Current, TypeOK, LastChangeAssumption
  <2>2. lastchange_on_read(i) = uptime - priv[i]
    BY <2>1 DEF lastchange_on_read
  <2> QED BY <2>1, <2>2
<1> QED BY <1>1, <1>2, <1>3, TypeCorrect, AlwaysAttached, PTL DEF Spec
-----------------------------------------------------------------------------
\* Unless it was removed too early, an interface has at most one instance-added
\* event to come, and none once it has private data or is gone.
AddedOnce ==
  \A i \in Intf \ overtaken :
    /\ \A k, l \in Nat : AddedAt(k, i) /\ AddedAt(l, i) => k = l
    /\ ~Exists(i) \/ priv[i] # Never => \A k \in Nat : ~AddedAt(k, i)

\* Private data is lost only for an interface that was removed while an event of
\* it was still queued: no other order of additions, changes and removals leaks.
THEOREM LeaksAreOvertaken == Spec => []OnlyOvertakenLeaks
<1> DEFINE IInv == AddedOnce /\ OnlyOvertakenLeaks
<1>0. ASSUME TypeOK
      PROVE  \A k, i : AddedAt(k, i) =>
               k \in Nat /\ i \in Intf /\ Pending(i) /\ k \in 1 .. Len(events)
  <2> DEFINE E == [kind : {"added", "changed"}, obj : Intf]
  <2>1. /\ events \in Seq(E)
        /\ DOMAIN events = 1 .. Len(events) /\ Len(events) \in Nat
        /\ \A k \in DOMAIN events : events[k].obj \in Intf
    <3>1. events \in Seq(E)
      BY <1>0 DEF TypeOK
    <3>2. \A k \in DOMAIN events : events[k] \in E
      BY <3>1, ElementOfSeq, LenProperties
    <3> QED BY <3>1, <3>2, LenProperties
  <2> HIDE DEF E
  <2> QED BY <2>1 DEF AddedAt, Pending
<1>1. Init => IInv
  BY DEF Init, AddedOnce, AddedAt, OnlyOvertakenLeaks
<1>2. TypeOK /\ IInv /\ [Next]_vars => IInv'
  <2> SUFFICES ASSUME TypeOK, IInv, [Next]_vars PROVE IInv'
    OBVIOUS
  <2>1. ASSUME NEW i \in Intf, NEW s \in Statuses, dm_add_instance(i, s)
        PROVE  IInv'
    <3>1. /\ \A k, j : AddedAt(k, j)' <=>
               AddedAt(k, j) \/ (k = Len(events) + 1 /\ j = i)
          /\ \A k : k \in DOMAIN events => k # Len(events) + 1
      BY <2>1, QueueTypes DEF dm_add_instance, TypeOK, Event
    <3>2. /\ overtaken' = overtaken /\ leaked' = leaked /\ priv' = priv
          /\ ~Exists(i) /\ priv[i] = Never
          /\ \A j \in Intf : j # i => (Exists(j)' <=> Exists(j))
          /\ Exists(i)'
      BY <2>1, LastChangeAssumption
      DEF dm_add_instance, SetStatus, TypeOK, Exists, LastChangeAssumption
    <3>3. AddedOnce'
      BY <3>1, <3>2 DEF AddedOnce
    <3> QED BY <3>2, <3>3 DEF OnlyOvertakenLeaks
  <2>2. ASSUME NEW i \in Intf, NEW s \in Statuses, dm_change_object(i, s)
        PROVE  IInv'
    <3>1. \A k, j : AddedAt(k, j)' <=> AddedAt(k, j)
      BY <2>2, QueueTypes DEF dm_change_object, TypeOK, Event
    <3>2. /\ overtaken' = overtaken /\ leaked' = leaked /\ priv' = priv
          /\ \A j \in Intf : Exists(j) => Exists(j)'
      BY <2>2, LastChangeAssumption
      DEF dm_change_object, SetStatus, TypeOK, Exists, LastChangeAssumption
    <3> QED BY <3>1, <3>2 DEF AddedOnce, OnlyOvertakenLeaks
  <2>3. ASSUME NEW i \in Intf, dm_remove_instance(i) PROVE IInv'
    <3>1. /\ \A k, j : AddedAt(k, j)' <=> AddedAt(k, j)
          /\ overtaken \subseteq overtaken' /\ leaked' = leaked
          /\ i \notin overtaken' => ~Pending(i)
          /\ \A j \in Intf : j # i =>
               priv'[j] = priv[j] /\ (Exists(j)' <=> Exists(j))
      BY <2>3 DEF dm_remove_instance, object_destroyed_common, TypeOK, Exists,
                  AddedAt
    <3>2. i \notin overtaken' => \A k : ~AddedAt(k, i)
      BY <1>0, <3>1
    <3> QED BY <3>1, <3>2 DEF AddedOnce, OnlyOvertakenLeaks
  <2>4. CASE dm_omci_reset_mib
    <3>1. \A j \in Intf : Exists(j)' <=> Exists(j)
      BY <2>4, LastChangeAssumption
      DEF dm_omci_reset_mib, Exists, TypeOK, LastChangeAssumption
    <3> QED
      BY <2>4, <3>1 DEF dm_omci_reset_mib, AddedOnce, OnlyOvertakenLeaks, AddedAt
  <2>5. CASE interface_object_added
    <3>0. Head(events).obj \in Intf
      BY <2>5, TailTypes DEF interface_object_added, TypeOK, Event
    <3> PICK i \in Intf : i = Head(events).obj
      BY <3>0
    <3>1. /\ \A k, j : AddedAt(k, j)' => k + 1 \in Nat /\ AddedAt(k + 1, j)
          /\ AddedAt(1, i)
      <4>1. 1 \in DOMAIN events /\ events[1] = Head(events)
        BY <2>5, HeadTailProperties, EmptySeq, LenProperties
        DEF interface_object_added, TypeOK
      <4> QED
        BY <2>5, <4>1, TailTypes DEF interface_object_added, TypeOK, Event, AddedAt
    <3>2. \A k, j : AddedAt(k, j)' => k \in Nat \ {0}
      <4>1. events' \in Seq(Event)
        BY <2>5, TailTypes DEF interface_object_added, TypeOK, Event
      <4> QED BY <4>1, LenProperties DEF AddedAt
    <3>3. /\ status' = status /\ overtaken' = overtaken
          /\ \A j \in Intf : j # i => priv'[j] = priv[j]
          /\ leaked' = leaked \/ (leaked' = leaked \cup {i} /\ priv[i] # Never)
      <4>1. /\ status' = status /\ overtaken' = overtaken
            /\ \A j \in Intf : j # i => priv'[j] = priv[j]
            /\ leaked' = leaked \/ leaked' = leaked \cup {j \in {i} : priv[j] # Never}
        BY <2>5 DEF interface_object_added, oipriv_attach_private_data, TypeOK
      <4>2. {j \in {i} : priv[j] # Never} = IF priv[i] # Never THEN {i} ELSE {}
        OBVIOUS
      <4> QED BY <4>1, <4>2
    <3>4. i \notin overtaken => \A k \in Nat : ~AddedAt(k, i)'
      <4> SUFFICES ASSUME i \notin overtaken, NEW k \in Nat, AddedAt(k, i)'
                   PROVE  FALSE
        OBVIOUS
      <4>1. k + 1 \in Nat /\ AddedAt(k + 1, i) /\ k \in Nat \ {0}
        BY <3>1, <3>2
      <4> QED BY <3>1, <4>1 DEF AddedOnce
    <3>5. AddedOnce'
      BY <3>1, <3>2, <3>3, <3>4 DEF AddedOnce, Exists
    <3>6. OnlyOvertakenLeaks'
      BY <3>1, <3>3 DEF AddedOnce, OnlyOvertakenLeaks
    <3> QED BY <3>5, <3>6
  <2>6. CASE status_changed /\ Exists(Head(events).obj)
    <3>1. /\ Head(events).obj \in Intf
          /\ \A k, j : AddedAt(k, j)' => k + 1 \in Nat /\ AddedAt(k + 1, j)
          /\ \A k, j : AddedAt(k, j)' => k \in Nat
      <4>1. events' \in Seq(Event)
        BY <2>6, TailTypes DEF status_changed, TypeOK, Event
      <4> QED
        BY <2>6, <4>1, TailTypes, LenProperties
        DEF status_changed, TypeOK, Event, AddedAt
    <3>2. /\ status' = status /\ overtaken' = overtaken /\ leaked' = leaked
          /\ \A j \in Intf : priv'[j] # Never => priv[j] # Never
      BY <2>6, <3>1, LastChangeAssumption
      DEF status_changed, oipriv_update_last_change, TypeOK, LastChangeAssumption
    <3> QED BY <3>1, <3>2 DEF AddedOnce, OnlyOvertakenLeaks, Exists
  <2>7. CASE Fresh
    BY <2>7 DEF Fresh, AddedOnce, OnlyOvertakenLeaks, AddedAt
  <2>8. CASE Tick
    BY <2>8 DEF Tick, hist, AddedOnce, OnlyOvertakenLeaks, Exists, AddedAt
  <2>9. CASE UNCHANGED vars
    BY <2>9 DEF vars, hist, AddedOnce, OnlyOvertakenLeaks, Exists, AddedAt
  <2>10. status_changed => Fresh \/ Exists(Head(events).obj)
    BY DEF status_changed
  <2>11. CASE status_changed
    BY <2>6, <2>7, <2>10, <2>11
  <2> QED
    BY <2>1, <2>2, <2>3, <2>4, <2>5, <2>7, <2>8, <2>9, <2>11 DEF Next, Restart
<1> QED BY <1>1, <1>2, TypeCorrect, PTL DEF Spec
=============================================================================
