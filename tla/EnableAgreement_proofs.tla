----------------------- MODULE EnableAgreement_proofs -----------------------
(***************************************************************************)
(* Proofs that the copies of Enable agree once every queued change has been*)
(* delivered: the vendor module and the data model (SettledEnable,         *)
(* SettledDisable), the files and the data model (PersistedIsRestored).    *)
(* All three rest on QueueTruthful.                                        *)
(***************************************************************************)
EXTENDS EnableRestore_proofs

\* A write of Enable keeps the queue truthful, and leaves a change of the
\* object pending unless the data model had the value already.
LEMMA WriteQueues ==
  ASSUME TypeOK, QueueTruthful, NEW o \in inst, NEW v \in BOOLEAN,
         v => o \in Switched, WriteEnable(o, v), UNCHANGED <<inst, lagging>>
  PROVE  /\ QueueTruthful'
         /\ \A p \in Switched : p # o => (Pending(p)' <=> Pending(p))
         /\ \/ Pending(o)'
            \/ UNCHANGED <<dmEnable, events>> /\ (v <=> o \in dmEnable)
<1>1. CASE v = (o \in dmEnable)
  <2>1. UNCHANGED <<dmEnable, events>>
    BY <1>1 DEF WriteEnable
  <2> QED BY <1>1, <2>1 DEF QueueTruthful, Latest, Pending
<1>2. CASE v # (o \in dmEnable)
  <2> DEFINE e == [obj |-> o, to |-> v]
             n == Len(events) + 1
  <2>1. o \in Switched
    BY <1>2 DEF TypeOK
  <2>2. events' = Append(events, e) /\ events \in Seq([obj : Switched, to : BOOLEAN])
    BY <1>2 DEF WriteEnable, TypeOK
  <2>3. /\ DOMAIN events = 1 .. Len(events)
        /\ DOMAIN events' = 1 .. n
        /\ Len(events) \in Nat
        /\ \A i \in 1 .. Len(events) : events'[i] = events[i]
        /\ events'[n] = e
    BY <2>1, <2>2
  <2>4. Pending(o)'
    BY <2>3 DEF Pending
  <2>5. \A p \in Switched : p # o => (Pending(p)' <=> Pending(p))
    BY <2>3 DEF Pending
  <2>6. QueueTruthful'
    <3> SUFFICES ASSUME NEW i \in DOMAIN events', events'[i].obj \notin lagging'
                 PROVE  /\ events'[i].obj \in inst'
                        /\ Latest(i)' =>
                             (events'[i].to <=> events'[i].obj \in dmEnable')
      BY DEF QueueTruthful
    <3>1. CASE i = n
      BY <2>3, <3>1 DEF WriteEnable
    <3>2. CASE i # n
      <4>1. i \in DOMAIN events /\ events'[i] = events[i]
        BY <2>3, <3>2
      <4>2. events[i].obj \in inst
        BY <4>1 DEF QueueTruthful
      <4>3. ASSUME Latest(i)' PROVE Latest(i) /\ events[i].obj # o
        BY <2>3, <3>2, <4>1, <4>3 DEF Latest
      <4>4. events[i].obj # o =>
              (events[i].obj \in dmEnable' <=> events[i].obj \in dmEnable)
        BY DEF WriteEnable
      <4> QED BY <4>1, <4>2, <4>3, <4>4 DEF QueueTruthful
    <3> QED BY <3>1, <3>2
  <2> QED BY <2>4, <2>5, <2>6
<1> QED BY <1>1, <1>2

\* Delivering the oldest change: it was the latest one of its object exactly
\* if the object has nothing pending afterwards, and then it was truthful.
LEMMA DispatchQueue ==
  ASSUME TypeOK, QueueTruthful, DispatchEvent, NEW o, o = Head(events).obj
  PROVE  /\ QueueTruthful'
         /\ \A p \in Switched : p # o => (Pending(p)' <=> Pending(p))
         /\ \/ Pending(o)'
            \/ o \in lagging
            \/ o \in inst /\ (Head(events).to <=> o \in dmEnable)
<1> DEFINE n == Len(events)
<1>1. /\ events # <<>>
      /\ events' = Tail(events)
      /\ events \in Seq([obj : Switched, to : BOOLEAN])
      /\ UNCHANGED <<inst, dmEnable, lagging>>
  BY DEF DispatchEvent, TypeOK
<1>2. /\ n \in Nat \ {0}
      /\ DOMAIN events = 1 .. n
      /\ DOMAIN events' = 1 .. n - 1
      /\ \A i \in 1 .. n - 1 : events'[i] = events[i + 1]
      /\ events[1] = Head(events)
  BY <1>1, HeadTailProperties
<1>3. ASSUME NEW p, p # o PROVE Pending(p)' <=> Pending(p)
  <2>1. ASSUME Pending(p) PROVE Pending(p)'
    <3>1. PICK i \in DOMAIN events : events[i].obj = p
      BY <2>1 DEF Pending
    <3>2. i # 1 /\ i - 1 \in 1 .. n - 1 /\ events'[i - 1] = events[i]
      BY <1>2, <1>3, <3>1
    <3> QED BY <1>2, <3>1, <3>2 DEF Pending
  <2>2. ASSUME Pending(p)' PROVE Pending(p)
    BY <1>2, <2>2 DEF Pending
  <2> QED BY <2>1, <2>2
<1>4. ASSUME ~Pending(o)' PROVE Latest(1)
  <2> SUFFICES ASSUME NEW j \in DOMAIN events, events[j].obj = events[1].obj
               PROVE  j <= 1
    BY DEF Latest
  <2>1. CASE j # 1
    <3>1. j - 1 \in 1 .. n - 1 /\ events'[j - 1] = events[j]
      BY <1>2, <2>1
    <3> QED BY <1>2, <1>4, <3>1 DEF Pending
  <2> QED BY <2>1
<1>5. QueueTruthful'
  <2> SUFFICES ASSUME NEW i \in DOMAIN events', events'[i].obj \notin lagging'
               PROVE  /\ events'[i].obj \in inst'
                      /\ Latest(i)' =>
                           (events'[i].to <=> events'[i].obj \in dmEnable')
    BY DEF QueueTruthful
  <2>1. i \in 1 .. n - 1 /\ i + 1 \in DOMAIN events /\ events'[i] = events[i + 1]
    BY <1>2
  <2>2. ASSUME Latest(i)' PROVE Latest(i + 1)
    <3> SUFFICES ASSUME NEW j \in DOMAIN events,
                        events[j].obj = events[i + 1].obj
                 PROVE  j <= i + 1
      BY DEF Latest
    <3>1. CASE j = 1
      BY <2>1, <3>1
    <3>2. CASE j # 1
      <4>1. j - 1 \in DOMAIN events' /\ events'[j - 1] = events[j]
        BY <1>2, <3>2
      <4>2. j - 1 <= i
        BY <2>1, <2>2, <4>1 DEF Latest
      <4> QED BY <1>2, <2>1, <4>2
    <3> QED BY <3>1, <3>2
  <2> QED BY <1>1, <2>1, <2>2 DEF QueueTruthful
<1> QED BY <1>2, <1>3, <1>4, <1>5 DEF QueueTruthful

\* What dm_change_object() may write is a value for an object in use.
LEMMA ChangeWrites ==
  ASSUME TypeOK, NEW o \in Switchable, NEW s, NEW r, dm_change_object(o, s, r)
  PROVE  /\ o \in inst
         /\ UNCHANGED <<inst, stored, hal, lagging>>
         /\ \/ UNCHANGED <<dmEnable, events>>
            \/ \E v \in BOOLEAN : (v => o \in Switched) /\ WriteEnable(o, v)
<1> DEFINE restore == (o \in Onu /\ o \notin priv) /\ s = "index" /\ o \in stored
<1>1. NewEnable(o, restore, r) \in BOOLEAN
      /\ (NewEnable(o, restore, r) => o \in Switched)
  BY DEF NewEnable, TypeOK
<1>2. \/ UNCHANGED <<dmEnable, events>>
      \/ WriteEnable(o, NewEnable(o, restore, r))
  BY DEF dm_change_object
<1>3. o \in inst /\ UNCHANGED <<inst, stored, hal, lagging>>
  BY DEF dm_change_object
<1> QED BY <1>1, <1>2, <1>3

\* An instance that appears had nothing pending that is not lagging, and one
\* that disappears takes its pending changes to lagging.
LEMMA AddKeepsQueue ==
  ASSUME TypeOK, QueueTruthful, NEW o \in Object, dm_add_instance(o)
  PROVE  QueueTruthful'
<1>1. o \notin inst /\ inst \subseteq inst' /\ UNCHANGED <<events, lagging>>
  BY DEF dm_add_instance
<1>2. \A p : p # o => (p \in dmEnable' <=> p \in dmEnable)
  BY DEF dm_add_instance
<1> QED BY <1>1, <1>2 DEF QueueTruthful, Latest

LEMMA RemoveKeepsQueue ==
  ASSUME TypeOK, QueueTruthful, NEW o \in Object, dm_remove_instance(o)
  PROVE  QueueTruthful'
<1> DEFINE gone == Subtree(o) \cap inst
<1>1. /\ inst' = inst \ gone /\ dmEnable' = dmEnable \ gone
      /\ lagging' = lagging \cup {c \in gone : Pending(c)}
      /\ UNCHANGED events
  BY DEF dm_remove_instance
<1>2. \A i \in DOMAIN events : Pending(events[i].obj)
  BY DEF Pending
<1> QED BY <1>1, <1>2 DEF QueueTruthful, Latest

\* However user writes, vendor calls, removals and deliveries interleave, the
\* last change in the queue tells the value of the data model.
THEOREM QueueAlwaysTruthful == Spec => []QueueTruthful
<1>1. Init => QueueTruthful
  BY DEF Init, QueueTruthful
<1>2. TypeOK /\ QueueTruthful /\ [Next]_vars => QueueTruthful'
  <2> SUFFICES ASSUME TypeOK, QueueTruthful, [Next]_vars PROVE QueueTruthful'
    OBVIOUS
  <2>1. CASE \E o \in Switched, v \in BOOLEAN : UserSetEnable(o, v)
    BY <2>1, WriteQueues DEF UserSetEnable
  <2>2. CASE \E o \in Object : dm_add_instance(o)
    BY <2>2, AddKeepsQueue
  <2>3. CASE \E o \in Object : dm_remove_instance(o)
    BY <2>3, RemoveKeepsQueue
  <2>4. CASE \E o \in Switchable, s \in CallStyle, r \in Reports :
               dm_change_object(o, s, r)
    <3> PICK o \in Switchable, s \in CallStyle, r \in Reports :
               dm_change_object(o, s, r)
      BY <2>4
    <3>1. CASE UNCHANGED <<dmEnable, events>>
      BY <3>1, ChangeWrites DEF QueueTruthful, Latest
    <3>2. CASE ~UNCHANGED <<dmEnable, events>>
      BY <3>2, ChangeWrites, WriteQueues
    <3> QED BY <3>1, <3>2
  <2>5. CASE DispatchEvent
    BY <2>5, DispatchQueue
  <2>6. CASE handle_rth_tasks
    BY <2>6 DEF handle_rth_tasks, QueueTruthful, Latest
  <2>7. CASE Restart
    BY <2>7 DEF Restart, QueueTruthful
  <2>8. CASE UNCHANGED vars
    BY <2>8 DEF vars, QueueTruthful, Latest
  <2> QED
    BY <2>1, <2>2, <2>3, <2>4, <2>5, <2>6, <2>7, <2>8 DEF Next, Vendor
<1> QED BY <1>1, <1>2, TypeCorrect, PTL DEF Spec
-----------------------------------------------------------------------------
\* rth_schedule_enable() keeps the tasks there are, and an object that no
\* other path in use starts with has one afterwards.
LEMMA ScheduleCovers ==
  ASSUME TypeOK, NEW o \in Switched, rth_schedule_enable(o)
  PROVE  /\ \A p : HasTask(p) => HasTask(p)'
         /\ Clear(o) => HasTask(o)'
<1>1. CASE Scheduled(o)
  <2>1. Clear(o) => HasTask(o)
    BY <1>1 DEF Scheduled, Clear, HasTask, TypeOK
  <2> QED BY <1>1, <2>1 DEF rth_schedule_enable, HasTask
<1>2. CASE ~Scheduled(o)
  <2> DEFINE new == [path |-> o, cntr |-> 0]
  <2>1. tasks' = tasks \cup {new} /\ new.path = o
    BY <1>2 DEF rth_schedule_enable
  <2>2. new \in tasks'
    BY <2>1
  <2>3. HasTask(o)'
    BY <2>1, <2>2 DEF HasTask
  <2>4. \A p : HasTask(p) => HasTask(p)'
    BY <2>1 DEF HasTask
  <2> QED BY <2>3, <2>4
<1> QED BY <1>1, <1>2

LEMMA UpdateCovers ==
  ASSUME TypeOK, NEW o, NEW restore \in BOOLEAN, restore => o \in Switched,
         update_enable(o, restore)
  PROVE  /\ \A p : HasTask(p) => HasTask(p)'
         /\ restore /\ Clear(o) => HasTask(o)'
<1>1. CASE restore
  BY <1>1, ScheduleCovers DEF update_enable
<1>2. CASE ~restore
  BY <1>2 DEF update_enable, HasTask
<1> QED BY <1>1, <1>2

\* A new instance is enabled only if it is restored, and then it has a task.
LEMMA AddForwards ==
  ASSUME TypeOK, SettledEnable, NEW o \in Object, dm_add_instance(o)
  PROVE  SettledEnable'
<1> DEFINE restore == o \in Switchable /\ o \in stored
<1>1. /\ \A p : HasTask(p) => HasTask(p)'
      /\ restore /\ Clear(o) => HasTask(o)'
  <2>1. update_enable(o, restore) /\ restore \in BOOLEAN /\ (restore => o \in Switched)
    BY DEF dm_add_instance, TypeOK
  <2> QED BY <2>1, UpdateCovers
<1>2. /\ o \notin inst /\ inst' \subseteq inst \cup {o}
      /\ hal' = hal \ {o}
      /\ dmEnable' = dmEnable \/ (restore /\ dmEnable' = dmEnable \cup {o})
      /\ UNCHANGED <<events, lagging>>
  BY DEF dm_add_instance
<1>3. SUFFICES ASSUME NEW p \in Switched, Clear(p), Settled(p)', p \in dmEnable'
               PROVE  p \in hal' \/ HasTask(p)'
  BY DEF SettledEnable, EnableForwarded, Clear
<1>4. CASE p = o
  BY <1>1, <1>2, <1>3, <1>4 DEF TypeOK
<1>5. CASE p # o
  <2>1. Settled(p) /\ p \in dmEnable
    BY <1>2, <1>3, <1>5 DEF Settled, Pending
  <2> QED BY <1>1, <1>2, <1>3, <1>5, <2>1 DEF SettledEnable, EnableForwarded
<1> QED BY <1>4, <1>5

\* A write leaves its object with a change pending, or changes nothing.
LEMMA WriteForwards ==
  ASSUME TypeOK, QueueTruthful, SettledEnable, NEW o \in inst, NEW v \in BOOLEAN,
         v => o \in Switched, WriteEnable(o, v), UNCHANGED <<inst, hal, lagging>>,
         \A p : HasTask(p) => HasTask(p)'
  PROVE  SettledEnable'
<1>1. SUFFICES ASSUME NEW p \in Switched, Clear(p), Settled(p)', p \in dmEnable'
               PROVE  p \in hal' \/ HasTask(p)'
  BY DEF SettledEnable, EnableForwarded, Clear
<1>2. /\ \A q \in Switched : q # o => (Pending(q)' <=> Pending(q))
      /\ \/ Pending(o)'
         \/ UNCHANGED <<dmEnable, events>>
  BY WriteQueues
<1>3. Settled(p) /\ p \in dmEnable
  <2>1. CASE p = o
    BY <1>1, <1>2, <2>1 DEF Settled, Pending
  <2>2. CASE p # o
    BY <1>1, <1>2, <2>2 DEF Settled, WriteEnable
  <2> QED BY <2>1, <2>2
<1> QED BY <1>1, <1>3 DEF SettledEnable, EnableForwarded

LEMMA ChangeForwards ==
  ASSUME TypeOK, QueueTruthful, SettledEnable, NEW o \in Switchable,
         NEW s, NEW r, dm_change_object(o, s, r)
  PROVE  SettledEnable'
<1> DEFINE restore == (o \in Onu /\ o \notin priv) /\ s = "index" /\ o \in stored
<1>1. update_enable(o, restore) /\ restore \in BOOLEAN /\ (restore => o \in Switched)
  BY DEF dm_change_object, TypeOK
<1>2. \A p : HasTask(p) => HasTask(p)'
  BY <1>1, UpdateCovers
<1>3. CASE UNCHANGED <<dmEnable, events>>
  BY <1>2, <1>3, ChangeWrites
  DEF SettledEnable, EnableForwarded, Clear, Settled, Pending
<1>4. CASE ~UNCHANGED <<dmEnable, events>>
  BY <1>2, <1>4, ChangeWrites, WriteForwards
<1> QED BY <1>3, <1>4

\* The change delivered last is the truthful one: an ONU it enables gets a
\* task, an ANI is enabled in the vendor module.
LEMMA DispatchForwards ==
  ASSUME TypeOK, QueueTruthful, SettledEnable, DispatchEvent
  PROVE  SettledEnable'
<1> DEFINE o == Head(events).obj
           enable == Head(events).to
<1>1. o \in Switched /\ onu_or_ani_enable_changed(o, enable)
      /\ UNCHANGED <<inst, dmEnable, lagging>>
  BY HeadType DEF DispatchEvent
<1>2. SUFFICES ASSUME NEW p \in Switched, Clear(p), Settled(p)', p \in dmEnable'
               PROVE  p \in hal' \/ HasTask(p)'
  BY DEF SettledEnable, EnableForwarded, Clear
<1>3. CASE p = o
  <2>1. enable
    BY <1>1, <1>2, <1>3, DispatchQueue DEF Settled
  <2> QED BY <1>1, <1>2, <1>3, <2>1, ScheduleCovers
          DEF onu_or_ani_enable_changed, pon_ctrl_set_enable
<1>4. CASE p # o
  <2>1. p \in hal \/ HasTask(p)
    BY <1>1, <1>2, <1>4, DispatchQueue
    DEF SettledEnable, EnableForwarded, Settled
  <2>2. p \in hal => p \in hal'
    BY <1>1, <1>4 DEF onu_or_ani_enable_changed, pon_ctrl_set_enable
  <2>3. HasTask(p) => HasTask(p)'
    <3>1. CASE enable /\ o \in Onu
      BY <1>1, <3>1, ScheduleCovers DEF onu_or_ani_enable_changed
    <3>2. CASE ~(enable /\ o \in Onu)
      BY <1>1, <1>4, <3>2 DEF onu_or_ani_enable_changed, rth_disable, HasTask
    <3> QED BY <3>1, <3>2
  <2> QED BY <2>1, <2>2, <2>3
<1> QED BY <1>3, <1>4

\* For objects no other path in use starts with, the data model never says
\* enabled while the vendor module was not, and will not be, told so.
THEOREM EnableNotLost == Spec => []SettledEnable
<1>1. Init => SettledEnable
  BY DEF Init, SettledEnable, EnableForwarded
<1>2. TypeOK /\ QueueTruthful /\ SettledEnable /\ [Next]_vars => SettledEnable'
  <2> SUFFICES ASSUME TypeOK, QueueTruthful, SettledEnable, [Next]_vars
               PROVE  SettledEnable'
    OBVIOUS
  <2>1. CASE \E o \in Switched, v \in BOOLEAN : UserSetEnable(o, v)
    BY <2>1, WriteForwards DEF UserSetEnable, HasTask
  <2>2. CASE \E o \in Object : dm_add_instance(o)
    BY <2>2, AddForwards
  <2>3. CASE \E o \in Object : dm_remove_instance(o)
    BY <2>3 DEF dm_remove_instance, SettledEnable, EnableForwarded, Clear,
                Settled, Pending, HasTask
  <2>4. CASE \E o \in Switchable, s \in CallStyle, r \in Reports :
               dm_change_object(o, s, r)
    BY <2>4, ChangeForwards
  <2>5. CASE DispatchEvent
    BY <2>5, DispatchForwards
  <2>6. CASE handle_rth_tasks
    <3>1. \A p : HasTask(p) => p \in hal' \/ HasTask(p)'
      <4>1. \A t \in tasks : Checked(t).path = t.path
        BY DEF Checked, TypeOK, Task
      <4> QED BY <2>6, <4>1 DEF handle_rth_tasks, HasTask
    <3> QED BY <2>6, <3>1 DEF handle_rth_tasks, SettledEnable, EnableForwarded,
                Clear, Settled, Pending
  <2>7. CASE Restart
    BY <2>7 DEF Restart, SettledEnable, EnableForwarded
  <2>8. CASE UNCHANGED vars
    BY <2>8 DEF vars, SettledEnable, EnableForwarded, Clear, Settled, Pending,
                HasTask
  <2> QED
    BY <2>1, <2>2, <2>3, <2>4, <2>5, <2>6, <2>7, <2>8 DEF Next, Vendor
<1> QED BY <1>1, <1>2, TypeCorrect, QueueAlwaysTruthful, PTL DEF Spec
-----------------------------------------------------------------------------
\* update_enable() gives no other object a task.
LEMMA UpdateOnly ==
  ASSUME TypeOK, NEW o, NEW restore \in BOOLEAN, update_enable(o, restore)
  PROVE  /\ \A p : p # o /\ HasTask(p)' => HasTask(p)
         /\ ~restore => UNCHANGED tasks
<1>1. CASE restore
  BY <1>1 DEF update_enable, rth_schedule_enable, HasTask
<1>2. CASE ~restore
  BY <1>2 DEF update_enable, HasTask
<1> QED BY <1>1, <1>2

\* A new instance that is not restored has no task left: what has a task is
\* on disk.
LEMMA AddDisables ==
  ASSUME TypeOK, CrashSafe, SettledDisable, NEW o \in Object, dm_add_instance(o)
  PROVE  SettledDisable'
<1> DEFINE restore == o \in Switchable /\ o \in stored
<1>1. SUFFICES ASSUME Faults = {}, NEW p \in Switched, Settled(p)', p \notin dmEnable'
               PROVE  p \notin hal' /\ ~HasTask(p)'
  BY DEF SettledDisable
<1>2. /\ update_enable(o, restore)
      /\ hal' = hal \ {o}
      /\ inst' = inst \cup {o}
      /\ dmEnable' = IF restore THEN dmEnable \cup {o} ELSE dmEnable
      /\ UNCHANGED <<events, lagging>>
  BY <1>1 DEF dm_add_instance, Succeeds
<1>3. /\ \A q : q # o /\ HasTask(q)' => HasTask(q)
      /\ ~restore => UNCHANGED tasks
  BY <1>2, UpdateOnly
<1>4. CASE p = o
  <2>1. o \notin stored /\ ~restore
    BY <1>1, <1>2, <1>4, ObjectAssumption
  <2>2. ~HasTask(o)'
    BY <1>1, <1>3, <2>1 DEF CrashSafe, HasTask
  <2> QED BY <1>2, <1>4, <2>2
<1>5. CASE p # o
  <2>1. Settled(p) /\ p \notin dmEnable
    BY <1>1, <1>2, <1>5 DEF Settled, Pending
  <2> QED BY <1>1, <1>2, <1>3, <1>5, <2>1 DEF SettledDisable
<1> QED BY <1>4, <1>5

LEMMA ChangeDisables ==
  ASSUME TypeOK, QueueTruthful, SettledDisable, NEW o \in Switchable,
         NEW s, NEW r, dm_change_object(o, s, r)
  PROVE  SettledDisable'
<1> DEFINE restore == (o \in Onu /\ o \notin priv) /\ s = "index" /\ o \in stored
           v == NewEnable(o, restore, r)
<1>1. SUFFICES ASSUME Faults = {}, NEW p \in Switched, Settled(p)', p \notin dmEnable'
               PROVE  p \notin hal' /\ ~HasTask(p)'
  BY DEF SettledDisable
<1>2. /\ update_enable(o, restore) /\ o \in inst
      /\ WriteEnable(o, v)
      /\ UNCHANGED <<inst, hal, lagging>>
  BY <1>1 DEF dm_change_object, Succeeds
<1>3. v \in BOOLEAN /\ (v => o \in Switched) /\ (restore => v)
  BY DEF NewEnable, TypeOK
<1>4. /\ \A q \in Switched : q # o => (Pending(q)' <=> Pending(q))
      /\ \/ Pending(o)'
         \/ UNCHANGED <<dmEnable, events>> /\ (v <=> o \in dmEnable)
  BY <1>2, <1>3, WriteQueues
<1>5. /\ \A q : q # o /\ HasTask(q)' => HasTask(q)
      /\ ~restore => UNCHANGED tasks
  BY <1>2, UpdateOnly
<1>6. CASE p = o
  <2>1. /\ Settled(o) /\ o \notin dmEnable /\ ~restore
    BY <1>1, <1>2, <1>3, <1>4, <1>6 DEF Settled, Pending
  <2>2. o \notin hal /\ ~HasTask(o)
    BY <1>1, <1>6, <2>1 DEF SettledDisable
  <2> QED BY <1>2, <1>5, <1>6, <2>1, <2>2 DEF HasTask
<1>7. CASE p # o
  <2>1. Settled(p) /\ p \notin dmEnable
    BY <1>1, <1>2, <1>4, <1>7 DEF Settled, WriteEnable
  <2> QED BY <1>1, <1>2, <1>5, <1>7, <2>1 DEF SettledDisable
<1> QED BY <1>6, <1>7

\* The change delivered last is the truthful one: if it disables its object
\* the vendor module is told, and the only task of the object goes.
LEMMA DispatchDisables ==
  ASSUME TypeOK, OneTaskPerObject, QueueTruthful, SettledDisable, DispatchEvent
  PROVE  SettledDisable'
<1> DEFINE o == Head(events).obj
           enable == Head(events).to
<1>1. o \in Switched /\ onu_or_ani_enable_changed(o, enable)
      /\ UNCHANGED <<inst, dmEnable, lagging>>
  BY HeadType DEF DispatchEvent
<1>2. SUFFICES ASSUME Faults = {}, NEW p \in Switched, Settled(p)', p \notin dmEnable'
               PROVE  p \notin hal' /\ ~HasTask(p)'
  BY DEF SettledDisable
<1>3. CASE p = o
  <2>1. ~enable
    BY <1>1, <1>2, <1>3, DispatchQueue DEF Settled
  <2>2. hal' = hal \ {o} /\ rth_disable(o)
    BY <1>1, <2>1 DEF onu_or_ani_enable_changed, pon_ctrl_set_enable
  <2>3. \A t \in tasks' : t.path # o
    BY <2>2 DEF rth_disable, HasTask, OneTaskPerObject
  <2> QED BY <1>3, <2>2, <2>3 DEF HasTask
<1>4. CASE p # o
  <2>1. p \notin hal /\ ~HasTask(p)
    BY <1>1, <1>2, <1>4, DispatchQueue DEF SettledDisable, Settled
  <2>2. p \notin hal'
    BY <1>1, <1>4, <2>1 DEF onu_or_ani_enable_changed, pon_ctrl_set_enable
  <2>3. ~HasTask(p)'
    <3>1. CASE enable /\ o \in Onu
      BY <1>1, <1>4, <2>1, <3>1
      DEF onu_or_ani_enable_changed, rth_schedule_enable, HasTask
    <3>2. CASE ~(enable /\ o \in Onu)
      BY <1>1, <2>1, <3>2 DEF onu_or_ani_enable_changed, rth_disable, HasTask
    <3> QED BY <3>1, <3>2
  <2> QED BY <2>2, <2>3
<1> QED BY <1>3, <1>4

\* As long as nothing fails, an object the data model shows disabled is
\* disabled in the vendor module, and no task left over from the startup phase
\* will enable it behind the user's back.
THEOREM DisableNotLost == Spec => []SettledDisable
<1>1. Init => SettledDisable
  BY DEF Init, SettledDisable, HasTask
<1>2. /\ TypeOK /\ OneTaskPerObject /\ CrashSafe /\ QueueTruthful
      /\ SettledDisable /\ [Next]_vars
      => SettledDisable'
  <2> SUFFICES ASSUME TypeOK, OneTaskPerObject, CrashSafe, QueueTruthful,
                      SettledDisable, [Next]_vars
               PROVE  SettledDisable'
    OBVIOUS
  <2>1. CASE \E o \in Switched, v \in BOOLEAN : UserSetEnable(o, v)
    <3> PICK o \in Switched, v \in BOOLEAN : UserSetEnable(o, v)
      BY <2>1
    <3>1. /\ \A q \in Switched : q # o => (Pending(q)' <=> Pending(q))
          /\ Pending(o)' \/ UNCHANGED <<dmEnable, events>>
          /\ \A q \in Switched : q # o => (q \in dmEnable' <=> q \in dmEnable)
      BY WriteQueues DEF UserSetEnable, WriteEnable
    <3> QED BY <3>1 DEF UserSetEnable, SettledDisable, Settled, Pending, HasTask
  <2>2. CASE \E o \in Object : dm_add_instance(o)
    BY <2>2, AddDisables
  <2>3. CASE \E o \in Object : dm_remove_instance(o)
    BY <2>3 DEF dm_remove_instance, SettledDisable, Settled, Pending, HasTask
  <2>4. CASE \E o \in Switchable, s \in CallStyle, r \in Reports :
               dm_change_object(o, s, r)
    BY <2>4, ChangeDisables
  <2>5. CASE DispatchEvent
    BY <2>5, DispatchDisables
  <2>6. CASE handle_rth_tasks
    <3>1. \A p : HasTask(p)' \/ (p \in hal' /\ p \notin hal) => HasTask(p)
      <4>1. \A t \in tasks : Checked(t).path = t.path
        BY DEF Checked, TypeOK, Task
      <4> QED BY <2>6, <4>1 DEF handle_rth_tasks, HasTask
    <3> QED BY <2>6, <3>1 DEF handle_rth_tasks, SettledDisable, Settled, Pending
  <2>7. CASE Restart
    BY <2>7 DEF Restart, SettledDisable, HasTask
  <2>8. CASE UNCHANGED vars
    BY <2>8 DEF vars, SettledDisable, Settled, Pending, HasTask
  <2> QED
    BY <2>1, <2>2, <2>3, <2>4, <2>5, <2>6, <2>7, <2>8 DEF Next, Vendor
<1> QED BY <1>1, <1>2, TypeCorrect, OneTask, EnabledIsPersisted,
           QueueAlwaysTruthful, PTL DEF Spec
-----------------------------------------------------------------------------
\* The half of PersistedIsRestored that also holds of an ONU whose persistency
\* was not looked at yet: what is settled as enabled is on disk.
EnabledIsStored ==
  Faults = {} => \A o \in Switched : Settled(o) /\ o \in dmEnable => o \in stored

Agreement == EnabledIsStored /\ PersistedIsRestored

\* The first call that names an ONU with an index restores it; by then an ONU
\* that is enabled without being restored is on disk already.
LEMMA ChangeAgrees ==
  ASSUME TypeOK, QueueTruthful, Agreement, NEW o \in Switchable,
         NEW s, s = "index", NEW r, dm_change_object(o, s, r)
  PROVE  Agreement'
<1> DEFINE first == o \in Onu /\ o \notin priv
           restore == first /\ s = "index" /\ o \in stored
           v == NewEnable(o, restore, r)
<1>1. SUFFICES ASSUME Faults = {}, NEW p \in Switched, Settled(p)'
               PROVE  /\ p \in dmEnable' => p \in stored'
                      /\ (p \in Onu => p \in priv')
                           => (p \in stored' <=> p \in dmEnable')
  BY DEF Agreement, EnabledIsStored, PersistedIsRestored
<1>2. /\ o \in inst /\ WriteEnable(o, v)
      /\ priv' = IF first THEN priv \cup {o} ELSE priv
      /\ UNCHANGED <<inst, stored, hal, lagging>>
  BY <1>1 DEF dm_change_object, Succeeds
<1>3. v \in BOOLEAN /\ (v => o \in Switched) /\ (restore => v)
  BY DEF NewEnable, TypeOK
<1>4. /\ \A q \in Switched : q # o => (Pending(q)' <=> Pending(q))
      /\ \/ Pending(o)'
         \/ UNCHANGED <<dmEnable, events>> /\ (v <=> o \in dmEnable)
  BY <1>2, <1>3, WriteQueues
<1>5. CASE p = o
  <2>1. Settled(o) /\ UNCHANGED dmEnable /\ (restore => o \in dmEnable)
    BY <1>1, <1>2, <1>3, <1>4, <1>5 DEF Settled, Pending
  <2>2. /\ o \in dmEnable => o \in stored
        /\ (o \in Onu => o \in priv) => (o \in stored <=> o \in dmEnable)
    BY <1>1, <1>5, <2>1 DEF Agreement, EnabledIsStored, PersistedIsRestored
  <2> QED BY <1>2, <1>5, <2>1, <2>2
<1>6. CASE p # o
  <2>1. Settled(p) /\ (p \in dmEnable' <=> p \in dmEnable)
        /\ (p \in priv' <=> p \in priv)
    BY <1>1, <1>2, <1>4, <1>6 DEF Settled, WriteEnable
  <2> QED BY <1>1, <1>2, <2>1 DEF Agreement, EnabledIsStored, PersistedIsRestored
<1> QED BY <1>5, <1>6

LEMMA DispatchAgrees ==
  ASSUME TypeOK, QueueTruthful, Agreement, DispatchEvent
  PROVE  Agreement'
<1> DEFINE o == Head(events).obj
           enable == Head(events).to
<1>1. SUFFICES ASSUME Faults = {}, NEW p \in Switched, Settled(p)'
               PROVE  /\ p \in dmEnable' => p \in stored'
                      /\ (p \in Onu => p \in priv')
                           => (p \in stored' <=> p \in dmEnable')
  BY DEF Agreement, EnabledIsStored, PersistedIsRestored
<1>2. /\ o \in Switched
      /\ stored' = IF enable THEN stored \cup {o} ELSE stored \ {o}
      /\ UNCHANGED <<inst, dmEnable, priv, lagging>>
  BY <1>1, HeadType DEF DispatchEvent, onu_or_ani_enable_changed,
                        persistency_enable, Succeeds
<1>3. CASE p = o
  BY <1>1, <1>2, <1>3, DispatchQueue DEF Settled
<1>4. CASE p # o
  <2>1. Settled(p)
    BY <1>1, <1>2, <1>4, DispatchQueue DEF Settled
  <2> QED BY <1>1, <1>2, <1>4, <2>1
          DEF Agreement, EnabledIsStored, PersistedIsRestored
<1> QED BY <1>3, <1>4

LEMMA AddAgrees ==
  ASSUME TypeOK, Agreement, NEW o \in Object, dm_add_instance(o)
  PROVE  Agreement'
<1>1. SUFFICES ASSUME Faults = {}, NEW p \in Switched, Settled(p)'
               PROVE  /\ p \in dmEnable' => p \in stored'
                      /\ (p \in Onu => p \in priv')
                           => (p \in stored' <=> p \in dmEnable')
  BY DEF Agreement, EnabledIsStored, PersistedIsRestored
<1>2. /\ o \notin inst /\ inst' = inst \cup {o}
      /\ dmEnable' = IF o \in Switchable /\ o \in stored
                     THEN dmEnable \cup {o} ELSE dmEnable
      /\ priv' = IF o \in Onu THEN priv \cup {o} ELSE priv
      /\ UNCHANGED <<events, stored, lagging>>
  BY <1>1 DEF dm_add_instance, Succeeds
<1>3. CASE p = o
  BY <1>2, <1>3, ObjectAssumption DEF TypeOK
<1>4. CASE p # o
  <2>1. Settled(p)
    BY <1>1, <1>2, <1>4 DEF Settled, Pending
  <2> QED BY <1>1, <1>2, <1>4, <2>1
          DEF Agreement, EnabledIsStored, PersistedIsRestored
<1> QED BY <1>3, <1>4

\* When the vendor module names instances by template path and index, and
\* nothing fails, what the files say and what the data model shows is the same
\* for every instance whose persistency was handled.
THEOREM RestoredWhenIndexed ==
  ASSUME CallStyle \subseteq {"index"}
  PROVE  Spec => []PersistedIsRestored
<1>1. Init => Agreement
  BY ObjectAssumption
  DEF Init, Agreement, EnabledIsStored, PersistedIsRestored, Settled
<1>2. TypeOK /\ QueueTruthful /\ Agreement /\ [Next]_vars => Agreement'
  <2> SUFFICES ASSUME TypeOK, QueueTruthful, Agreement, [Next]_vars PROVE Agreement'
    OBVIOUS
  <2> USE DEF Agreement, EnabledIsStored, PersistedIsRestored
  <2>1. CASE \E o \in Switched, v \in BOOLEAN : UserSetEnable(o, v)
    <3> PICK o \in Switched, v \in BOOLEAN : UserSetEnable(o, v)
      BY <2>1
    <3>1. /\ \A q \in Switched : q # o => (Pending(q)' <=> Pending(q))
          /\ Pending(o)' \/ UNCHANGED <<dmEnable, events>>
          /\ \A q \in Switched : q # o => (q \in dmEnable' <=> q \in dmEnable)
      BY WriteQueues DEF UserSetEnable, WriteEnable
    <3> QED BY <3>1 DEF UserSetEnable, Settled, Pending
  <2>2. CASE \E o \in Object : dm_add_instance(o)
    BY <2>2, AddAgrees
  <2>3. CASE \E o \in Object : dm_remove_instance(o)
    BY <2>3 DEF dm_remove_instance, Settled, Pending
  <2>4. CASE \E o \in Switchable, s \in CallStyle, r \in Reports :
               dm_change_object(o, s, r)
    BY <2>4, ChangeAgrees
  <2>5. CASE DispatchEvent
    BY <2>5, DispatchAgrees
  <2>6. CASE handle_rth_tasks
    BY <2>6 DEF handle_rth_tasks, Settled, Pending
  <2>7. CASE Restart
    BY <2>7, ObjectAssumption DEF Restart, Settled
  <2>8. CASE UNCHANGED vars
    BY <2>8 DEF vars, Settled, Pending
  <2> QED
    BY <2>1, <2>2, <2>3, <2>4, <2>5, <2>6, <2>7, <2>8 DEF Next, Vendor
<1> QED BY <1>1, <1>2, TypeCorrect, QueueAlwaysTruthful, PTL
        DEF Spec, Agreement
=============================================================================
