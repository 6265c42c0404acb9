---------------------------- MODULE EnableRestore ----------------------------
(***************************************************************************)
(* The read-write Enable parameter of XPON.ONU.{i} and XPON.ONU.{i}.ANI.{i}*)
(* and everything that keeps its three copies together: the value in the   *)
(* data model (data_model.c), the "<path>_enabled.txt" file that survives  *)
(* a restart (persistency.c) and the value last given to the vendor module *)
(* (dm_events.c, restore_to_hal.c).                                        *)
(*                                                                         *)
(* The plugin is one thread.  Its steps are: a write by a bus user, a call *)
(* of the vendor module into pon_stat, the dispatch of one queued data     *)
(* model event, the restore-to-HAL timer, and a restart of the process.    *)
(***************************************************************************)
EXTENDS Naturals, Sequences

CONSTANTS
  Onu, Ani, Uni,  \* instance paths of the three kinds of object that matter
  OnuOf,          \* the ONU an ANI or EthernetUNI instance is a child of
  Switched,       \* the ONUs and ANIs whose Enable is ever set to true
  PathPrefix,     \* <<o, p>>: the text of path o is a prefix of that of p
  DefaultOnu,     \* ONUs created by a file in defaults.d, not by the vendor
  MaxChecks,      \* MAX_CHECKS_ON_NR_OF_UNIS_AND_ANIS
  MaxEvents,      \* bound on the queue of Enable events
  CallStyle,      \* how dm_change_object names an instance
  Reports,        \* what the vendor says of Enable: "none", or "hal"'s value
  Faults          \* what may fail: "apply" a transaction, "file" a file access

Switchable == Onu \cup Ani
Object == Switchable \cup Uni

ASSUME ObjectAssumption ==
  /\ Onu \cap Ani = {} /\ Onu \cap Uni = {} /\ Ani \cap Uni = {}
  /\ OnuOf \in [Ani \cup Uni -> Onu]
  /\ Switched \subseteq Switchable
  /\ DefaultOnu \subseteq Onu

ASSUME PathAssumption ==
  /\ PathPrefix \subseteq Switchable \X Switchable
  /\ \A o \in Switchable : <<o, o>> \in PathPrefix
  /\ \A a \in Ani : <<OnuOf[a], a>> \in PathPrefix

ASSUME BoundAssumption ==
  /\ MaxChecks \in 0 .. 254        \* rth_task_t.cntr is a uint8_t
  /\ MaxEvents \in Nat \ {0}
  /\ CallStyle \subseteq {"index", "full_path"}
  /\ Reports \subseteq {"none", "hal"}
  /\ Faults \subseteq {"apply", "file"}

VARIABLES
  inst,      \* the instances in the data model
  dmEnable,  \* those whose Enable is true in the data model
  priv,      \* the ONU instances with private data
  tasks,     \* s_rth_tasks: the objects still to be enabled in the HAL
  timer,     \* s_timer_handle_rth_tasks is running
  events,    \* Enable changes queued for the event loop
  stored,    \* objects with an "_enabled.txt" file: survives a restart
  hal,       \* objects the vendor module was last told to enable
  lagging    \* history: removed while an Enable event was still queued

vars == <<inst, dmEnable, priv, tasks, timer, events, stored, hal, lagging>>

Task == [path : Switchable, cntr : 0 .. MaxChecks + 1]

\* Whether something that may fail succeeds.
Succeeds(what) == IF what \in Faults THEN BOOLEAN ELSE {TRUE}

Subtree(o) == {o} \cup {c \in Ani \cup Uni : OnuOf[c] = o}
Pending(o) == \E i \in DOMAIN events : events[i].obj = o
HasTask(o) == \E t \in tasks : t.path = o
HasChild(o, kind) == \E c \in kind \cap inst : OnuOf[c] = o
Ready(o) == HasChild(o, Uni) /\ HasChild(o, Ani)
-----------------------------------------------------------------------------
(***************************************************************************)
(* restore_to_hal.c                                                        *)
(***************************************************************************)

\* Mutant: no check for a task that exists already.
Scheduled_unchecked(o) == FALSE

\* The strncmp() compares only strlen(object) characters: a task for any
\* longer path that starts with the text of o counts as a task for o.
Scheduled(o) == \E t \in tasks : <<o, t.path>> \in PathPrefix

\* Mutant: the timer is left to the caller.
rth_schedule_enable_no_start(o) ==
  /\ tasks' = IF Scheduled(o) THEN tasks
              ELSE tasks \cup {[path |-> o, cntr |-> 0]}
  /\ UNCHANGED timer

rth_schedule_enable(o) ==
  IF Scheduled(o)
  THEN UNCHANGED <<tasks, timer>>
  ELSE /\ tasks' = tasks \cup {[path |-> o, cntr |-> 0]}
       /\ timer' = TRUE

\* Mutant: a scheduled task survives a disable.
rth_disable_forgotten(o) == UNCHANGED <<tasks, timer>>

\* Removes the first task of o, if there is one; the timer keeps running.
rth_disable(o) ==
  /\ IF HasTask(o)
     THEN \E t \in tasks : t.path = o /\ tasks' = tasks \ {t}
     ELSE UNCHANGED tasks
  /\ UNCHANGED timer

\* Mutant: wait for the EthernetUNIs only.
Waiting_for_uni(t) ==
  t.path \in Onu /\ ~HasChild(t.path, Uni) /\ t.cntr <= MaxChecks

\* The tasks the handler keeps: of an ONU that lacks a UNI or an ANI and
\* has not waited long enough.
Waiting(t) == t.path \in Onu /\ ~Ready(t.path) /\ t.cntr <= MaxChecks

\* Mutant: the checks are not counted.
Checked_uncounted(t) == t

Checked(t) == [t EXCEPT !.cntr = @ + 1]

handle_rth_tasks ==
  /\ timer
  /\ tasks' = {Checked(t) : t \in {u \in tasks : Waiting(u)}}
  /\ hal' = hal \cup {t.path : t \in {u \in tasks : ~Waiting(u)}}
  /\ timer' = (tasks' # {})
  /\ UNCHANGED <<inst, dmEnable, priv, events, stored, lagging>>
-----------------------------------------------------------------------------
(***************************************************************************)
(* persistency.c and dm_events.c                                           *)
(***************************************************************************)

\* Mutant: every call flips the file.
persistency_enable_toggle(o, enable) ==
  stored' = IF o \in stored THEN stored \ {o} ELSE stored \cup {o}

\* A file that cannot be created or removed is only logged.
persistency_enable(o, enable) ==
  \E ok \in Succeeds("file") :
    stored' = IF ~ok THEN stored
              ELSE IF enable THEN stored \cup {o} ELSE stored \ {o}

pon_ctrl_set_enable(o, enable) ==
  hal' = IF enable THEN hal \cup {o} ELSE hal \ {o}

onu_or_ani_enable_changed(o, enable) ==
  /\ IF enable /\ o \in Onu
     THEN rth_schedule_enable(o) /\ UNCHANGED hal
     ELSE /\ pon_ctrl_set_enable(o, enable)
          /\ IF enable THEN UNCHANGED <<tasks, timer>> ELSE rth_disable(o)
  /\ persistency_enable(o, enable)

\* The event loop delivers the oldest queued Enable change.
DispatchEvent ==
  /\ events # <<>>
  /\ onu_or_ani_enable_changed(Head(events).obj, Head(events).to)
  /\ events' = Tail(events)
  /\ UNCHANGED <<inst, dmEnable, priv, lagging>>
-----------------------------------------------------------------------------
(***************************************************************************)
(* data_model.c                                                            *)
(***************************************************************************)

\* Mutant: the event filter lets a change to true through only.
WriteEnable_enabling(o, v) ==
  /\ dmEnable' = IF v THEN dmEnable \cup {o} ELSE dmEnable \ {o}
  /\ IF ~v \/ o \in dmEnable
     THEN UNCHANGED events
     ELSE /\ Len(events) < MaxEvents
          /\ events' = Append(events, [obj |-> o, to |-> v])

\* A committed change of Enable: the data model queues an event only when
\* the value differs.
WriteEnable(o, v) ==
  /\ dmEnable' = IF v THEN dmEnable \cup {o} ELSE dmEnable \ {o}
  /\ IF v = (o \in dmEnable)
     THEN UNCHANGED events
     ELSE /\ Len(events) < MaxEvents
          /\ events' = Append(events, [obj |-> o, to |-> v])

\* A bus user sets Enable.
UserSetEnable(o, v) ==
  /\ o \in inst
  /\ v # (o \in dmEnable)
  /\ WriteEnable(o, v)
  /\ UNCHANGED <<inst, priv, tasks, timer, stored, hal, lagging>>

\* Mutant: an Enable event is expected to schedule the task.
update_enable_no_task(o, restore) == UNCHANGED <<tasks, timer>>

\* update_enable() also makes the task of an object to be restored; its value
\* for Enable comes after the vendor's in the transaction, and wins.
update_enable(o, restore) ==
  IF restore THEN rth_schedule_enable(o) ELSE UNCHANGED <<tasks, timer>>

\* Mutant: the vendor's value comes last.
NewEnable_vendor_wins(o, restore, report) ==
  IF report = "hal" THEN o \in hal ELSE restore \/ o \in dmEnable

NewEnable(o, restore, report) ==
  \/ restore
  \/ o \in (IF report = "hal" THEN hal ELSE dmEnable)

\* add_instance(): one transaction creates the instance, with Enable true if
\* it is persisted so.  The task is made before the transaction is applied,
\* and creating an instance queues no Enable event.  The vendor announces an
\* object it has not been told to enable yet.
dm_add_instance(o) ==
  LET restore == o \in Switchable /\ o \in stored IN
  /\ o \notin inst
  /\ o \in Onu \cup {c \in Ani \cup Uni : OnuOf[c] \in inst}
  /\ update_enable(o, restore)
  /\ hal' = hal \ {o}
  /\ \E ok \in Succeeds("apply") :
       IF ok
       THEN /\ inst' = inst \cup {o}
            /\ dmEnable' = IF restore THEN dmEnable \cup {o} ELSE dmEnable
            /\ priv' = IF o \in Onu THEN priv \cup {o} ELSE priv
       ELSE UNCHANGED <<inst, dmEnable, priv>>
  /\ UNCHANGED <<events, stored, lagging>>

\* remove_instance(): the instance and what is below it; tasks, files and
\* queued events stay.
dm_remove_instance(o) ==
  LET gone == Subtree(o) \cap inst IN
  /\ o \in inst
  /\ inst' = inst \ gone
  /\ dmEnable' = dmEnable \ gone
  /\ priv' = priv \ gone
  /\ hal' = hal \ gone
  /\ lagging' = lagging \cup {c \in gone : Pending(c)}
  /\ UNCHANGED <<tasks, timer, events, stored>>

\* dm_change_object() on an ONU or ANI.  The first call for an ONU without
\* private data looks at its file, but only update_enable() with an index
\* finds it.
dm_change_object(o, style, report) ==
  LET first == o \in Onu /\ o \notin priv
      restore == first /\ style = "index" /\ o \in stored
  IN
  /\ o \in inst
  /\ priv' = IF first THEN priv \cup {o} ELSE priv
  /\ update_enable(o, restore)
  /\ \E ok \in Succeeds("apply") :
       IF ok
       THEN WriteEnable(o, NewEnable(o, restore, report))
       ELSE UNCHANGED <<dmEnable, events>>
  /\ UNCHANGED <<inst, stored, hal, lagging>>
-----------------------------------------------------------------------------
(***************************************************************************)
(* The process.                                                            *)
(***************************************************************************)

Init ==
  /\ inst = DefaultOnu
  /\ dmEnable = {} /\ priv = {} /\ tasks = {} /\ hal = {} /\ lagging = {}
  /\ timer = FALSE
  /\ events = <<>>
  /\ stored \in SUBSET Switched

\* The process is stopped or crashes, and is started again.
Restart ==
  /\ inst' = DefaultOnu
  /\ dmEnable' = {} /\ priv' = {} /\ tasks' = {} /\ hal' = {} /\ lagging' = {}
  /\ timer' = FALSE
  /\ events' = <<>>
  /\ UNCHANGED stored

Vendor ==
  \/ \E o \in Object : dm_add_instance(o)
  \/ \E o \in Object : dm_remove_instance(o)
  \/ \E o \in Switchable, s \in CallStyle, r \in Reports :
       dm_change_object(o, s, r)

Next ==
  \/ \E o \in Switched, v \in BOOLEAN : UserSetEnable(o, v)
  \/ Vendor
  \/ DispatchEvent
  \/ handle_rth_tasks
  \/ Restart

Spec == Init /\ [][Next]_vars

\* The event loop serves its queue and its timers.
FairSpec == Spec /\ WF_vars(DispatchEvent) /\ WF_vars(handle_rth_tasks)
-----------------------------------------------------------------------------
(***************************************************************************)
(* Properties.                                                             *)
(***************************************************************************)

\* Every variable stays in its range; only objects in use are ever enabled,
\* scheduled or persisted, and no task waits past its last check.
TypeOK ==
  /\ inst \subseteq Object
  /\ dmEnable \subseteq inst \cap Switched
  /\ priv \subseteq inst \cap Onu
  /\ tasks \subseteq Task
  /\ \A t \in tasks : t.path \in Switched
  /\ timer \in BOOLEAN
  /\ events \in Seq([obj : Switched, to : BOOLEAN])
  /\ Len(events) <= MaxEvents
  /\ stored \subseteq Switched
  /\ hal \subseteq Switched
  /\ lagging \subseteq Object

\* No lost wake-up: rth_schedule_enable() starts the timer only for the tasks
\* it adds, so whenever a task is left the timer must still be running.
TimerArmed == tasks # {} => timer

\* rth_disable() stops at the first task it finds, which is enough only if an
\* object never has two.
OneTaskPerObject == \A s, t \in tasks : s.path = t.path => s = t

\* A crash between two steps of the event loop loses no enabled object: as
\* long as its files can be written, what the vendor module was told or is
\* about to be told to enable is on disk.
CrashSafe ==
  "file" \notin Faults => hal \cup {t.path : t \in tasks} \subseteq stored

\* Nothing else whose Enable is used starts with the text of the path of o.
Clear(o) == \A p \in Switched : <<o, p>> \in PathPrefix => p = o

\* The queue holds nothing of the present instance o that is still to come,
\* nor of an earlier one with the same path.
Settled(o) == o \in inst /\ o \notin lagging /\ ~Pending(o)

\* No later change of the object that event i is about is queued.
Latest(i) ==
  \A j \in DOMAIN events : events[j].obj = events[i].obj => j <= i

\* A queued change is about an instance that still exists, or is lagging; the
\* latest change of an instance carries the value the data model has, so that
\* handling the queue to its end makes the other copies agree.
QueueTruthful ==
  \A i \in DOMAIN events :
    events[i].obj \notin lagging =>
      /\ events[i].obj \in inst
      /\ Latest(i) => (events[i].to <=> events[i].obj \in dmEnable)

\* When every change of Enable has been delivered, an object enabled in the
\* data model has been enabled in the vendor module, or is scheduled to be.
EnableForwarded(o) ==
  Settled(o) /\ o \in dmEnable => o \in hal \/ HasTask(o)

\* The above, for the objects no longer path in use starts with.
SettledEnable == \A o \in Switched : Clear(o) => EnableForwarded(o)

\* The above, for every object: a task stops only requests for the same
\* object (rth_schedule_enable(), "If there is already a task in the list to
\* enable the object, the function immediately returns").
EveryEnableForwarded == \A o \in Switched : EnableForwarded(o)

\* When nothing fails and every change has been delivered, an object disabled
\* in the data model is disabled in the vendor module, and no task of the
\* startup phase will enable it later.
SettledDisable ==
  Faults = {} =>
    \A o \in Switched :
      Settled(o) /\ o \notin dmEnable => o \notin hal /\ ~HasTask(o)

\* An instance whose persistency "has been handled" (an ONU with private data,
\* any ANI) shows the Enable value the files say, if nothing failed.
PersistedIsRestored ==
  Faults = {} =>
    \A o \in Switched :
      Settled(o) /\ (o \in Onu => o \in priv)
        => (o \in stored <=> o \in dmEnable)

\* An ONU is never enabled before its EthernetUNIs and ANIs are found or the
\* waiting time is over, whatever makes the call.
NoPrematureOnuEnable ==
  [][\A o \in Onu :
       o \in hal' /\ o \notin hal =>
         Ready(o) \/ \E t \in tasks : t.path = o /\ t.cntr > MaxChecks]_vars

\* Enabling has an end: unless the object is disabled, removed or the process
\* restarts, the vendor module is told of every Enable set to true, however
\* long the EthernetUNIs and ANIs take to appear.
EnableReachesHal ==
  \A o \in Switched :
    Clear(o) =>
      (o \in dmEnable /\ o \notin lagging)
        ~> (o \in hal \/ o \notin dmEnable \/ o \in lagging)
=============================================================================
