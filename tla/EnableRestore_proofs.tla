------------------------ MODULE EnableRestore_proofs ------------------------
(***************************************************************************)
(* Machine-checked proofs about EnableRestore, for any number of objects   *)
(* and any value of the bounds.                                            *)
(***************************************************************************)
EXTENDS EnableRestore, SequenceTheorems, TLAPS

\* A task for o itself counts as a task for o, so that without one the list
\* has no task with the path of o.
LEMMA OwnTaskIsScheduled ==
  ASSUME NEW o \in Switchable, HasTask(o)
  PROVE  Scheduled(o)
  BY PathAssumption DEF HasTask, Scheduled

\* Whatever it finds, rth_schedule_enable() keeps the list well formed.
LEMMA ScheduleType ==
  ASSUME TypeOK, NEW o \in Switched, rth_schedule_enable(o)
  PROVE  /\ tasks' \subseteq Task
         /\ \A t \in tasks' : t.path \in Switched
         /\ timer' \in BOOLEAN
<1> USE ObjectAssumption, BoundAssumption DEF TypeOK, Task
<1>1. CASE Scheduled(o)
  BY <1>1 DEF rth_schedule_enable
<1>2. CASE ~Scheduled(o)
  <2>1. tasks' = tasks \cup {[path |-> o, cntr |-> 0]} /\ timer' = TRUE
    BY <1>2 DEF rth_schedule_enable
  <2>2. o \in Switchable /\ 0 \in 0 .. MaxChecks + 1
    OBVIOUS
  <2> QED BY <2>1, <2>2
<1> QED BY <1>1, <1>2

\* What update_enable() does to the list, for an object it may restore.
LEMMA UpdateEnableType ==
  ASSUME TypeOK, NEW o, NEW restore \in BOOLEAN, restore => o \in Switched,
         update_enable(o, restore)
  PROVE  /\ tasks' \subseteq Task
         /\ \A t \in tasks' : t.path \in Switched
         /\ timer' \in BOOLEAN
<1>1. CASE restore
  BY <1>1, ScheduleType DEF update_enable
<1>2. CASE ~restore
  BY <1>2 DEF update_enable, TypeOK
<1> QED BY <1>1, <1>2

\* Only an object in use is ever enabled, so only such an object is queued.
LEMMA WriteEnableType ==
  ASSUME TypeOK, NEW o, NEW v \in BOOLEAN, o \in inst, v => o \in Switched,
         WriteEnable(o, v)
  PROVE  /\ dmEnable' \subseteq inst \cap Switched
         /\ events' \in Seq([obj : Switched, to : BOOLEAN])
         /\ Len(events') <= MaxEvents
<1> USE DEF TypeOK
<1>1. dmEnable' \subseteq inst \cap Switched
  BY DEF WriteEnable
<1>2. CASE v = (o \in dmEnable)
  BY <1>1, <1>2 DEF WriteEnable
<1>3. CASE v # (o \in dmEnable)
  <2>1. o \in Switched
    BY <1>3
  <2>2. Len(events) < MaxEvents /\ events' = Append(events, [obj |-> o, to |-> v])
    BY <1>3 DEF WriteEnable
  <2>3. [obj |-> o, to |-> v] \in [obj : Switched, to : BOOLEAN]
    BY <2>1
  <2>4. Len(events') = Len(events) + 1 /\ Len(events) \in Nat
    BY <2>2, <2>3
  <2> QED BY <1>1, <2>2, <2>3, <2>4, BoundAssumption
<1> QED BY <1>2, <1>3

-----------------------------------------------------------------------------
\* Type correctness: whatever users, vendor and crashes do, only objects in
\* use are enabled, scheduled or persisted, and no task outlives its checks.
LEMMA InitType == Init => TypeOK
<1> SUFFICES ASSUME Init PROVE TypeOK
  OBVIOUS
<1> USE DEF Init
<1>1. inst \subseteq Object
  BY ObjectAssumption DEF Object, Switchable
<1>2. events \in Seq([obj : Switched, to : BOOLEAN]) /\ Len(events) <= MaxEvents
  BY BoundAssumption
<1>3. stored \subseteq Switched
  OBVIOUS
<1> QED BY <1>1, <1>2, <1>3 DEF TypeOK

LEMMA UserType ==
  ASSUME TypeOK, NEW o \in Switched, NEW v \in BOOLEAN, UserSetEnable(o, v)
  PROVE  TypeOK'
<1>1. /\ dmEnable' \subseteq inst \cap Switched
      /\ events' \in Seq([obj : Switched, to : BOOLEAN])
      /\ Len(events') <= MaxEvents
  BY WriteEnableType DEF UserSetEnable
<1> QED BY <1>1 DEF UserSetEnable, TypeOK

LEMMA AddType ==
  ASSUME TypeOK, NEW o \in Object, dm_add_instance(o)
  PROVE  TypeOK'
<1> DEFINE restore == o \in Switchable /\ o \in stored
<1>1. /\ tasks' \subseteq Task
      /\ \A t \in tasks' : t.path \in Switched
      /\ timer' \in BOOLEAN
  BY UpdateEnableType DEF dm_add_instance, TypeOK
<1>2. \/ /\ inst' = inst \cup {o}
         /\ dmEnable' = IF restore THEN dmEnable \cup {o} ELSE dmEnable
         /\ priv' = IF o \in Onu THEN priv \cup {o} ELSE priv
      \/ UNCHANGED <<inst, dmEnable, priv>>
  BY DEF dm_add_instance
<1>3. inst' \subseteq Object /\ dmEnable' \subseteq inst' \cap Switched
      /\ priv' \subseteq inst' \cap Onu
  BY <1>2 DEF TypeOK
<1>4. hal' \subseteq Switched
  BY DEF dm_add_instance, TypeOK
<1>5. UNCHANGED <<events, stored, lagging>>
  BY DEF dm_add_instance
<1> QED BY <1>1, <1>3, <1>4, <1>5 DEF TypeOK

LEMMA RemoveType ==
  ASSUME TypeOK, NEW o \in Object, dm_remove_instance(o)
  PROVE  TypeOK'
  BY DEF dm_remove_instance, TypeOK

LEMMA ChangeType ==
  ASSUME TypeOK, NEW o \in Switchable, NEW s \in CallStyle, NEW r \in Reports,
         dm_change_object(o, s, r)
  PROVE  TypeOK'
<1> DEFINE first == o \in Onu /\ o \notin priv
           restore == first /\ s = "index" /\ o \in stored
<1>1. /\ tasks' \subseteq Task
      /\ \A t \in tasks' : t.path \in Switched
      /\ timer' \in BOOLEAN
  <2>1. restore \in BOOLEAN /\ (restore => o \in Switched) /\ update_enable(o, restore)
    BY DEF dm_change_object, TypeOK
  <2> QED BY <2>1, UpdateEnableType
<1>2. \/ WriteEnable(o, NewEnable(o, restore, r))
      \/ UNCHANGED <<dmEnable, events>>
  BY DEF dm_change_object
<1>3. NewEnable(o, restore, r) \in BOOLEAN
      /\ (NewEnable(o, restore, r) => o \in Switched)
  BY DEF NewEnable, TypeOK
<1>4. o \in inst
  BY DEF dm_change_object
<1>5. /\ dmEnable' \subseteq inst \cap Switched
      /\ events' \in Seq([obj : Switched, to : BOOLEAN])
      /\ Len(events') <= MaxEvents
  BY <1>2, <1>3, <1>4, WriteEnableType DEF TypeOK
<1>6. priv' \subseteq inst \cap Onu
  BY <1>4 DEF dm_change_object, TypeOK
<1>7. UNCHANGED <<inst, stored, hal, lagging>>
  BY DEF dm_change_object
<1> QED BY <1>1, <1>5, <1>6, <1>7 DEF TypeOK

\* The oldest queued event is about an object in use.
LEMMA HeadType ==
  ASSUME TypeOK, DispatchEvent
  PROVE  Head(events).obj \in Switched /\ Head(events).to \in BOOLEAN
<1>1. events # <<>> /\ events \in Seq([obj : Switched, to : BOOLEAN])
  BY DEF DispatchEvent, TypeOK
<1>2. Head(events) \in [obj : Switched, to : BOOLEAN]
  BY <1>1, HeadTailProperties
<1> QED BY <1>2

LEMMA DispatchType == TypeOK /\ DispatchEvent => TypeOK'
<1> SUFFICES ASSUME TypeOK, DispatchEvent PROVE TypeOK'
  OBVIOUS
<1> DEFINE o == Head(events).obj
           enable == Head(events).to
<1>1. o \in Switched /\ enable \in BOOLEAN
  BY HeadType
<1>2. onu_or_ani_enable_changed(o, enable)
  BY DEF DispatchEvent
<1>3. /\ events' \in Seq([obj : Switched, to : BOOLEAN])
      /\ Len(events') <= MaxEvents
  BY BoundAssumption DEF DispatchEvent, TypeOK
<1>4. /\ tasks' \subseteq Task
      /\ \A t \in tasks' : t.path \in Switched
      /\ timer' \in BOOLEAN
  <2>1. CASE enable /\ o \in Onu
    BY <1>1, <1>2, <2>1, ScheduleType DEF onu_or_ani_enable_changed
  <2>2. CASE ~(enable /\ o \in Onu)
    BY <1>2, <2>2 DEF onu_or_ani_enable_changed, rth_disable, TypeOK
  <2> QED BY <2>1, <2>2
<1>5. hal' \subseteq Switched
  BY <1>1, <1>2 DEF onu_or_ani_enable_changed, pon_ctrl_set_enable, TypeOK
<1>6. stored' \subseteq Switched
  BY <1>1, <1>2 DEF onu_or_ani_enable_changed, persistency_enable, TypeOK
<1> QED BY <1>3, <1>4, <1>5, <1>6 DEF DispatchEvent, TypeOK

LEMMA HandleType == TypeOK /\ handle_rth_tasks => TypeOK'
<1> SUFFICES ASSUME TypeOK, handle_rth_tasks PROVE TypeOK'
  OBVIOUS
<1>1. ASSUME NEW t \in tasks, Waiting(t)
      PROVE  Checked(t) \in Task /\ Checked(t).path = t.path
  <2>1. t \in Task /\ t.cntr <= MaxChecks
    BY <1>1 DEF Waiting, TypeOK
  <2> QED BY <2>1, BoundAssumption DEF Task, Checked
<1>2. tasks' = {Checked(t) : t \in {u \in tasks : Waiting(u)}}
  BY DEF handle_rth_tasks
<1>3. tasks' \subseteq Task /\ \A t \in tasks' : t.path \in Switched
  BY <1>1, <1>2 DEF TypeOK
<1>4. hal' \subseteq Switched /\ timer' \in BOOLEAN
  BY DEF handle_rth_tasks, TypeOK
<1> QED BY <1>3, <1>4 DEF handle_rth_tasks, TypeOK

LEMMA RestartType == TypeOK /\ Restart => TypeOK'
<1> SUFFICES ASSUME TypeOK, Restart PROVE TypeOK'
  OBVIOUS
<1> USE DEF Restart
<1>1. inst' \subseteq Object
  BY ObjectAssumption DEF Object, Switchable
<1>2. events' \in Seq([obj : Switched, to : BOOLEAN]) /\ Len(events') <= MaxEvents
  BY BoundAssumption
<1>3. stored' \subseteq Switched
  BY DEF TypeOK
<1> QED BY <1>1, <1>2, <1>3 DEF TypeOK

\* Type correctness: whatever users, the vendor module and crashes do, only
\* objects in use are enabled, scheduled or persisted, and no task waits past
\* its last check.
THEOREM TypeCorrect == Spec => []TypeOK
<1>1. Init => TypeOK
  BY InitType
<1>2. TypeOK /\ [Next]_vars => TypeOK'
  <2> SUFFICES ASSUME TypeOK, [Next]_vars PROVE TypeOK'
    OBVIOUS
  <2>1. CASE \E o \in Switched, v \in BOOLEAN : UserSetEnable(o, v)
    BY <2>1, UserType
  <2>2. CASE \E o \in Object : dm_add_instance(o)
    BY <2>2, AddType
  <2>3. CASE \E o \in Object : dm_remove_instance(o)
    BY <2>3, RemoveType
  <2>4. CASE \E o \in Switchable, s \in CallStyle, r \in Reports :
               dm_change_object(o, s, r)
    BY <2>4, ChangeType
  <2>5. CASE DispatchEvent
    BY <2>5, DispatchType
  <2>6. CASE handle_rth_tasks
    BY <2>6, HandleType
  <2>7. CASE Restart
    BY <2>7, RestartType
  <2>8. CASE UNCHANGED vars
    BY <2>8 DEF vars, TypeOK
  <2> QED
    BY <2>1, <2>2, <2>3, <2>4, <2>5, <2>6, <2>7, <2>8 DEF Next, Vendor
<1> QED BY <1>1, <1>2, PTL DEF Spec
-----------------------------------------------------------------------------
\* Scheduling an object arms the timer if it adds a task.
LEMMA ScheduleArms ==
  ASSUME TimerArmed, NEW o, rth_schedule_enable(o)
  PROVE  TimerArmed'
  BY DEF rth_schedule_enable, TimerArmed

\* No lost wake-up: no interleaving of user, vendor, event and timer steps
\* leaves a task of restore_to_hal.c waiting for a timer that is not running.
THEOREM TimerAlwaysArmed == Spec => []TimerArmed
<1>1. Init => TimerArmed
  BY DEF Init, TimerArmed
<1>2. TimerArmed /\ [Next]_vars => TimerArmed'
  <2> SUFFICES ASSUME TimerArmed, [Next]_vars PROVE TimerArmed'
    OBVIOUS
  <2>1. CASE \E o \in Switched, v \in BOOLEAN : UserSetEnable(o, v)
    BY <2>1 DEF UserSetEnable, TimerArmed
  <2>2. CASE \E o \in Object : dm_add_instance(o)
    BY <2>2, ScheduleArms DEF dm_add_instance, update_enable, TimerArmed
  <2>3. CASE \E o \in Object : dm_remove_instance(o)
    BY <2>3 DEF dm_remove_instance, TimerArmed
  <2>4. CASE \E o \in Switchable, s \in CallStyle, r \in Reports :
               dm_change_object(o, s, r)
    BY <2>4, ScheduleArms DEF dm_change_object, update_enable, TimerArmed
  <2>5. CASE DispatchEvent
    <3> DEFINE o == Head(events).obj
               enable == Head(events).to
    <3>1. onu_or_ani_enable_changed(o, enable)
      BY <2>5 DEF DispatchEvent
    <3>2. CASE enable /\ o \in Onu
      BY <3>1, <3>2, ScheduleArms DEF onu_or_ani_enable_changed
    <3>3. CASE ~(enable /\ o \in Onu)
      BY <3>1, <3>3 DEF onu_or_ani_enable_changed, rth_disable, TimerArmed
    <3> QED BY <3>2, <3>3
  <2>6. CASE handle_rth_tasks
    BY <2>6 DEF handle_rth_tasks, TimerArmed
  <2>7. CASE Restart
    BY <2>7 DEF Restart, TimerArmed
  <2>8. CASE UNCHANGED vars
    BY <2>8 DEF vars, TimerArmed
  <2> QED
    BY <2>1, <2>2, <2>3, <2>4, <2>5, <2>6, <2>7, <2>8 DEF Next, Vendor
<1> QED BY <1>1, <1>2, PTL DEF Spec
-----------------------------------------------------------------------------
\* Scheduling adds no second task for an object.
LEMMA ScheduleOnce ==
  ASSUME OneTaskPerObject, NEW o \in Switchable, rth_schedule_enable(o)
  PROVE  OneTaskPerObject'
<1>1. CASE Scheduled(o)
  BY <1>1 DEF rth_schedule_enable, OneTaskPerObject
<1>2. CASE ~Scheduled(o)
  <2>1. \A t \in tasks : t.path # o
    BY <1>2, OwnTaskIsScheduled DEF HasTask
  <2>2. tasks' = tasks \cup {[path |-> o, cntr |-> 0]}
    BY <1>2 DEF rth_schedule_enable
  <2> QED BY <2>1, <2>2 DEF OneTaskPerObject
<1> QED BY <1>1, <1>2

\* The bare comparison of list entries in rth_schedule_enable() is enough to
\* keep one task per object, which rth_disable() relies on.
THEOREM OneTask == Spec => []OneTaskPerObject
<1>1. Init => OneTaskPerObject
  BY DEF Init, OneTaskPerObject
<1>2. TypeOK /\ OneTaskPerObject /\ [Next]_vars => OneTaskPerObject'
  <2> SUFFICES ASSUME TypeOK, OneTaskPerObject, [Next]_vars
               PROVE  OneTaskPerObject'
    OBVIOUS
  <2>1. CASE \E o \in Switched, v \in BOOLEAN : UserSetEnable(o, v)
    BY <2>1 DEF UserSetEnable, OneTaskPerObject
  <2>2. CASE \E o \in Object : dm_add_instance(o)
    <3> PICK o \in Object : dm_add_instance(o)
      BY <2>2
    <3>1. update_enable(o, o \in Switchable /\ o \in stored)
      BY DEF dm_add_instance
    <3>2. CASE o \in Switchable /\ o \in stored
      BY <3>1, <3>2, ScheduleOnce DEF update_enable
    <3>3. CASE ~(o \in Switchable /\ o \in stored)
      BY <3>1, <3>3 DEF update_enable, OneTaskPerObject
    <3> QED BY <3>2, <3>3
  <2>3. CASE \E o \in Object : dm_remove_instance(o)
    BY <2>3 DEF dm_remove_instance, OneTaskPerObject
  <2>4. CASE \E o \in Switchable, s \in CallStyle, r \in Reports :
               dm_change_object(o, s, r)
    BY <2>4, ScheduleOnce DEF dm_change_object, update_enable, OneTaskPerObject
  <2>5. CASE DispatchEvent
    <3> DEFINE o == Head(events).obj
               enable == Head(events).to
    <3>1. onu_or_ani_enable_changed(o, enable) /\ o \in Switchable
      BY <2>5, HeadType, ObjectAssumption DEF DispatchEvent
    <3>2. CASE enable /\ o \in Onu
      BY <3>1, <3>2, ScheduleOnce DEF onu_or_ani_enable_changed
    <3>3. CASE ~(enable /\ o \in Onu)
      BY <3>1, <3>3 DEF onu_or_ani_enable_changed, rth_disable, OneTaskPerObject
    <3> QED BY <3>2, <3>3
  <2>6. CASE handle_rth_tasks
    <3>1. tasks' = {Checked(t) : t \in {u \in tasks : Waiting(u)}}
      BY <2>6 DEF handle_rth_tasks
    <3>2. \A t \in tasks : Checked(t).path = t.path
      BY DEF Checked, TypeOK, Task
    <3> QED BY <3>1, <3>2 DEF OneTaskPerObject
  <2>7. CASE Restart
    BY <2>7 DEF Restart, OneTaskPerObject
  <2>8. CASE UNCHANGED vars
    BY <2>8 DEF vars, OneTaskPerObject
  <2> QED
    BY <2>1, <2>2, <2>3, <2>4, <2>5, <2>6, <2>7, <2>8 DEF Next, Vendor
<1> QED BY <1>1, <1>2, TypeCorrect, PTL DEF Spec
-----------------------------------------------------------------------------

\* No Enable is lost by a crash between two steps of the event loop: what the
\* vendor module was told, or is about to be told, to enable is on disk.  The
\* case of a disabled object needs OneTaskPerObject, because rth_disable()
\* removes one task only.
THEOREM EnabledIsPersisted == Spec => []CrashSafe
<1>1. Init => CrashSafe
  BY DEF Init, CrashSafe
<1>2. TypeOK /\ OneTaskPerObject /\ CrashSafe /\ [Next]_vars => CrashSafe'
  <2> SUFFICES ASSUME TypeOK, OneTaskPerObject, CrashSafe, [Next]_vars
               PROVE  CrashSafe'
    OBVIOUS
  <2>1. CASE \E o \in Switched, v \in BOOLEAN : UserSetEnable(o, v)
    BY <2>1 DEF UserSetEnable, CrashSafe
  <2>2. CASE \E o \in Object : dm_add_instance(o)
    BY <2>2 DEF dm_add_instance, update_enable, rth_schedule_enable, CrashSafe
  <2>3. CASE \E o \in Object : dm_remove_instance(o)
    BY <2>3 DEF dm_remove_instance, CrashSafe
  <2>4. CASE \E o \in Switchable, s \in CallStyle, r \in Reports :
               dm_change_object(o, s, r)
    BY <2>4 DEF dm_change_object, update_enable, rth_schedule_enable, CrashSafe
  <2>5. CASE DispatchEvent
    <3> DEFINE o == Head(events).obj
               enable == Head(events).to
    <3> SUFFICES ASSUME "file" \notin Faults
                 PROVE  hal' \cup {t.path : t \in tasks'} \subseteq stored'
      BY DEF CrashSafe
    <3>1. onu_or_ani_enable_changed(o, enable)
      BY <2>5 DEF DispatchEvent
    <3>2. stored' = IF enable THEN stored \cup {o} ELSE stored \ {o}
      BY <3>1 DEF onu_or_ani_enable_changed, persistency_enable, Succeeds
    <3>3. hal \subseteq stored /\ \A t \in tasks : t.path \in stored
      BY DEF CrashSafe
    <3>4. CASE enable
      BY <3>1, <3>2, <3>3, <3>4
      DEF onu_or_ani_enable_changed, pon_ctrl_set_enable, rth_schedule_enable
    <3>5. CASE ~enable
      <4>1. hal' = hal \ {o} /\ rth_disable(o)
        BY <3>1, <3>5 DEF onu_or_ani_enable_changed, pon_ctrl_set_enable
      <4>2. tasks' \subseteq tasks /\ \A t \in tasks' : t.path # o
        BY <4>1 DEF rth_disable, HasTask, OneTaskPerObject
      <4> QED BY <3>2, <3>3, <3>5, <4>1, <4>2
    <3> QED BY <3>4, <3>5
  <2>6. CASE handle_rth_tasks
    <3>1. \A t \in tasks : Checked(t).path = t.path
      BY DEF Checked, TypeOK, Task
    <3> QED BY <2>6, <3>1 DEF handle_rth_tasks, CrashSafe
  <2>7. CASE Restart
    BY <2>7 DEF Restart, CrashSafe
  <2>8. CASE UNCHANGED vars
    BY <2>8 DEF vars, CrashSafe
  <2> QED
    BY <2>1, <2>2, <2>3, <2>4, <2>5, <2>6, <2>7, <2>8 DEF Next, Vendor
<1> QED BY <1>1, <1>2, TypeCorrect, OneTask, PTL DEF Spec
-----------------------------------------------------------------------------
\* An ONU is enabled only by the timer handler, for a task that need not wait:
\* no event, user or vendor call enables it before its EthernetUNIs and ANIs
\* were looked for.
THEOREM NoOnuTooEarly == Spec => NoPrematureOnuEnable
<1> DEFINE InTime ==
      \A o \in Onu :
        o \in hal' /\ o \notin hal =>
          Ready(o) \/ \E t \in tasks : t.path = o /\ t.cntr > MaxChecks
<1>1. TypeOK /\ [Next]_vars => InTime
  <2> SUFFICES ASSUME TypeOK, [Next]_vars,
                      NEW o \in Onu, o \in hal', o \notin hal
               PROVE  Ready(o) \/ \E t \in tasks : t.path = o /\ t.cntr > MaxChecks
    OBVIOUS
  <2>1. CASE handle_rth_tasks
    <3>1. PICK t \in tasks : t.path = o /\ ~Waiting(t)
      BY <2>1 DEF handle_rth_tasks
    <3>2. Ready(o) \/ ~(t.cntr <= MaxChecks)
      BY <3>1 DEF Waiting
    <3>3. t.cntr \in Nat /\ MaxChecks \in Nat
      BY BoundAssumption DEF TypeOK, Task
    <3> QED BY <3>1, <3>2, <3>3
  <2>2. CASE DispatchEvent
    BY <2>2 DEF DispatchEvent, onu_or_ani_enable_changed, pon_ctrl_set_enable
  <2>3. CASE ~handle_rth_tasks /\ ~DispatchEvent
    BY <2>3 DEF Next, Vendor, UserSetEnable, dm_add_instance, dm_remove_instance,
                dm_change_object, Restart, vars
  <2> QED BY <2>1, <2>2, <2>3
<1> QED BY <1>1, TypeCorrect, PTL DEF Spec, NoPrematureOnuEnable
=============================================================================
