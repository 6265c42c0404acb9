------------------------------- MODULE RthTasks -------------------------------
(***************************************************************************)
(* The list of restore_to_hal.c at the grain of its loop.  In              *)
(* EnableRestore the timer handles all tasks in one step; here one task at *)
(* a time is looked at, and while the vendor module executes set_enable()  *)
(* it may call the plugin back (pon_stat.c): such a call can append a task *)
(* to the list that is being iterated, start the timer that is being       *)
(* served, and add or remove the EthernetUNIs and ANIs an ONU waits for.   *)
(*                                                                         *)
(* The module shows that one pass over the list is as good as one step,    *)
(* and that the list implements EnableRequests.                            *)
(***************************************************************************)
EXTENDS Naturals, Sequences, SequencesExt

CONSTANTS
  Onu, Ani,      \* the objects with a read-write Enable
  PathPrefix,    \* <<o, p>>: the text of path o is a prefix of that of p
  MaxChecks,     \* MAX_CHECKS_ON_NR_OF_UNIS_AND_ANIS
  MaxCallbacks   \* bound on the calls the vendor makes in one pass

Object == Onu \cup Ani

ASSUME ObjectAssumption ==
  /\ Onu \cap Ani = {}
  /\ PathPrefix \subseteq Object \X Object
  /\ \A o \in Object : <<o, o>> \in PathPrefix

ASSUME BoundAssumption == MaxChecks \in 0 .. 254 /\ MaxCallbacks \in Nat

VARIABLES
  tasks,      \* s_rth_tasks, in order
  timer,      \* s_timer_handle_rth_tasks is running
  pc,         \* what the plugin is doing
  pos,        \* position of the task the loop is at
  final,      \* the saved next iterator is NULL: this is the last turn
  ready,      \* the ONUs with at least one EthernetUNI and one ANI
  told,       \* the objects the vendor module was last told to enable
  disabled,   \* the object whose Enable went to false, while pc says so
  wanted,     \* history: accepted requests neither carried out nor disabled
  callbacks,  \* calls of the vendor module still allowed in this pass
  before,     \* history: tasks and told when this pass began
  quiet       \* history: the vendor module has not called back since then

loopVars == <<pc, pos, final>>
histVars == <<callbacks, before, quiet>>
vars == <<tasks, timer, loopVars, ready, told, disabled, wanted, histVars>>

\* "idle": in the event loop; "loop": handle_rth_tasks() between two tasks;
\* "enable", "disable": the vendor module executes set_enable().
Step == {"idle", "loop", "enable", "disable"}
Task == [path : Object, cntr : 0 .. MaxChecks + 1]

NoPass == callbacks' = 0 /\ quiet' = TRUE /\ before' = [tasks |-> <<>>, told |-> {}]
-----------------------------------------------------------------------------
(***************************************************************************)
(* Requests.                                                               *)
(***************************************************************************)

\* Mutant: no check for a task that exists already.
Scheduled_unchecked(o) == FALSE

\* The strncmp() over strlen(object) characters.
Scheduled(o) == \E k \in DOMAIN tasks : <<o, tasks[k].path>> \in PathPrefix

\* Mutants: the new task is put first; the timer is left to the pass under way.
rth_schedule_enable_first(o) ==
  IF Scheduled(o)
  THEN UNCHANGED <<tasks, timer>>
  ELSE /\ tasks' = <<[path |-> o, cntr |-> 0]>> \o tasks
       /\ timer' = TRUE
rth_schedule_enable_no_start(o) ==
  /\ tasks' = IF Scheduled(o) THEN tasks
              ELSE Append(tasks, [path |-> o, cntr |-> 0])
  /\ timer' = (timer \/ pc = "loop")

rth_schedule_enable(o) ==
  IF Scheduled(o)
  THEN UNCHANGED <<tasks, timer>>
  ELSE /\ tasks' = Append(tasks, [path |-> o, cntr |-> 0])
       /\ timer' = TRUE

\* The vendor module calls back: at most MaxCallbacks times in one pass.
InCallback ==
  /\ pc \in {"enable", "disable"}
  /\ callbacks > 0
  /\ callbacks' = callbacks - 1
  /\ quiet' = FALSE
  /\ UNCHANGED before

FromEventLoop == pc = "idle" /\ UNCHANGED histVars

\* An ONU or ANI is to be enabled: its Enable event, or a call of the vendor
\* module that makes update_enable() restore it.
Request(o) ==
  /\ FromEventLoop \/ InCallback
  /\ rth_schedule_enable(o)
  /\ wanted' = IF Scheduled(o) \/ o \in disabled THEN wanted ELSE wanted \cup {o}
  /\ UNCHANGED <<loopVars, ready, told, disabled>>

\* The vendor module adds the first EthernetUNI or ANI below an ONU, or
\* removes the last one.
ChangeReady(o) ==
  /\ FromEventLoop \/ InCallback
  /\ ready' = IF o \in ready THEN ready \ {o} ELSE ready \cup {o}
  /\ UNCHANGED <<tasks, timer, loopVars, told, disabled, wanted>>
-----------------------------------------------------------------------------
(***************************************************************************)
(* Disabling: onu_or_ani_enable_changed() with enable false.               *)
(***************************************************************************)

\* First the vendor module is told ...
SetDisabled(o) ==
  /\ pc = "idle"
  /\ told' = told \ {o}
  /\ pc' = "disable"
  /\ disabled' = {o}
  /\ wanted' = wanted \ {o}
  /\ callbacks' = MaxCallbacks
  /\ UNCHANGED <<tasks, timer, pos, final, ready, before, quiet>>

\* The first task with path o.
IsFirst(k, o) ==
  tasks[k].path = o /\ \A j \in DOMAIN tasks : tasks[j].path = o => k <= j

\* ... then rth_disable() takes its task out of the list, if it has one.
rth_disable(o) ==
  /\ pc = "disable"
  /\ o \in disabled
  /\ IF \E k \in DOMAIN tasks : tasks[k].path = o
     THEN \E k \in DOMAIN tasks : IsFirst(k, o) /\ tasks' = RemoveAt(tasks, k)
     ELSE UNCHANGED tasks
  /\ pc' = "idle"
  /\ disabled' = {}
  /\ NoPass
  /\ UNCHANGED <<timer, pos, final, ready, told, wanted>>
-----------------------------------------------------------------------------
(***************************************************************************)
(* handle_rth_tasks()                                                      *)
(***************************************************************************)

Waiting(t) == t.path \in Onu \ ready /\ t.cntr <= MaxChecks

\* The timer fires.  An empty list is only logged.
handle_rth_tasks ==
  /\ pc = "idle"
  /\ timer
  /\ timer' = FALSE
  /\ IF tasks = <<>>
     THEN UNCHANGED <<loopVars, histVars>>
     ELSE /\ pc' = "loop" /\ pos' = 1 /\ final' = (Len(tasks) = 1)
          /\ callbacks' = MaxCallbacks
          /\ before' = [tasks |-> tasks, told |-> told]
          /\ quiet' = TRUE
  /\ UNCHANGED <<tasks, ready, told, disabled, wanted>>

\* Mutant: the position is advanced although the task at it is gone.
Advance_skipping(next) ==
  IF final \/ next + 1 > Len(tasks')
  THEN /\ pc' = "idle" /\ pos' = 0 /\ final' = FALSE
       /\ timer' = (timer \/ tasks' # <<>>)
       /\ NoPass
  ELSE /\ pc' = "loop" /\ pos' = next + 1
       /\ final' = (next + 1 = Len(tasks'))
       /\ UNCHANGED <<timer, histVars>>

\* Mutant: the end of the list is looked up before the task is taken out.
Advance_stale(next) ==
  IF final
  THEN /\ pc' = "idle" /\ pos' = 0 /\ final' = FALSE
       /\ timer' = (timer \/ tasks' # <<>>)
       /\ NoPass
  ELSE /\ pc' = "loop" /\ pos' = next
       /\ final' = (next = Len(tasks))
       /\ UNCHANGED <<timer, histVars>>

\* The end of one turn of amxc_llist_for_each(), which has looked up the next
\* task before this turn began: a task appended during the last turn is left
\* to the next pass.  At the end of the pass, the timer is started if tasks
\* are left.
Advance(next) ==
  IF final
  THEN /\ pc' = "idle" /\ pos' = 0 /\ final' = FALSE
       /\ timer' = (timer \/ tasks' # <<>>)
       /\ NoPass
  ELSE /\ pc' = "loop" /\ pos' = next
       /\ final' = (next = Len(tasks'))
       /\ UNCHANGED <<timer, histVars>>

\* Mutant: the checks are not counted.
KeepTask_uncounted ==
  /\ pc = "loop"
  /\ Waiting(tasks[pos])
  /\ UNCHANGED tasks
  /\ Advance(pos + 1)
  /\ UNCHANGED <<ready, told, disabled, wanted>>

KeepTask ==
  /\ pc = "loop"
  /\ Waiting(tasks[pos])
  /\ tasks' = [tasks EXCEPT ![pos].cntr = @ + 1]
  /\ Advance(pos + 1)
  /\ UNCHANGED <<ready, told, disabled, wanted>>

pon_ctrl_set_enable ==
  /\ pc = "loop"
  /\ ~Waiting(tasks[pos])
  /\ told' = told \cup {tasks[pos].path}
  /\ pc' = "enable"
  /\ wanted' = wanted \ {tasks[pos].path}
  /\ UNCHANGED <<tasks, timer, pos, final, ready, disabled, histVars>>

\* The call returns; only now the task is taken out of the list.
DeleteTask ==
  /\ pc = "enable"
  /\ tasks' = RemoveAt(tasks, pos)
  /\ Advance(pos)
  /\ UNCHANGED <<ready, told, disabled, wanted>>
-----------------------------------------------------------------------------
\* rth_init()
Init ==
  /\ tasks = <<>> /\ timer = FALSE
  /\ pc = "idle" /\ pos = 0 /\ final = FALSE
  /\ ready \in SUBSET Onu
  /\ told = {} /\ disabled = {} /\ wanted = {}
  /\ callbacks = 0 /\ quiet = TRUE
  /\ before = [tasks |-> <<>>, told |-> {}]

Next ==
  \/ \E o \in Object : Request(o) \/ SetDisabled(o) \/ rth_disable(o)
  \/ \E o \in Onu : ChangeReady(o)
  \/ handle_rth_tasks
  \/ KeepTask
  \/ pon_ctrl_set_enable
  \/ DeleteTask

Spec == Init /\ [][Next]_vars

\* An expired timer stays pending until the event loop is back and serves it,
\* however often Enable events keep the plugin busy in between; the vendor
\* module returns from a call, and sequential code goes on.
Fairness ==
  /\ SF_vars(handle_rth_tasks)
  /\ WF_vars(KeepTask) /\ WF_vars(pon_ctrl_set_enable) /\ WF_vars(DeleteTask)
  /\ \A o \in Object : WF_vars(rth_disable(o))

FairSpec == Spec /\ Fairness
-----------------------------------------------------------------------------
(***************************************************************************)
(* Properties.                                                             *)
(***************************************************************************)

\* Every variable stays in its range, and the loop stays inside the list.
TypeOK ==
  /\ tasks \in Seq(Task)
  /\ timer \in BOOLEAN /\ final \in BOOLEAN /\ quiet \in BOOLEAN
  /\ pc \in Step
  /\ pos \in Nat
  /\ pc \in {"loop", "enable"} <=> pos # 0
  /\ pos # 0 => pos <= Len(tasks)
  /\ ready \subseteq Onu /\ told \subseteq Object
  /\ disabled \subseteq Object /\ wanted \subseteq Object
  /\ pc = "disable" <=> disabled # {}
  /\ callbacks \in 0 .. MaxCallbacks

\* No lost wake-up, whoever appends a task and whenever: as long as a task is
\* left, the timer runs or a pass is under way that will start it.
TimerOrPass == tasks # <<>> => timer \/ pc \in {"loop", "enable"}

\* An object never has two tasks, also when it is requested while its own task
\* is being handled.
OneTaskPerObject ==
  \A j, k \in DOMAIN tasks : tasks[j].path = tasks[k].path => j = k

\* A pass looks exactly once at every task that was in the list when it began,
\* although tasks are taken out and appended under way: each is gone and its
\* object told, or still there with one check more.
PassEnds == pc \in {"loop", "enable"} /\ pc' = "idle"
ExaminedOnce ==
  [][PassEnds =>
       \A t \in ToSet(before.tasks) :
         \/ t.path \in told'
         \/ [t EXCEPT !.cntr = @ + 1] \in ToSet(tasks')]_vars

\* If the vendor module has not called back, the whole pass amounts to the one
\* step EnableRestore makes of it.
PassIsOneStep ==
  [][PassEnds /\ quiet =>
       LET waiting == {t \in ToSet(before.tasks) : Waiting(t)} IN
       /\ ToSet(tasks') = {[t EXCEPT !.cntr = @ + 1] : t \in waiting}
       /\ told' = before.told \cup
                  {t.path : t \in ToSet(before.tasks) \ waiting}]_vars

Requests == INSTANCE EnableRequests WITH requested <- wanted

\* The list implements EnableRequests: no object is told to be enabled unless
\* this was requested and not disabled since, and every request is carried out
\* in the end, whatever the vendor module does while it is called.
ImplementsRequests == Requests!Spec
=============================================================================
