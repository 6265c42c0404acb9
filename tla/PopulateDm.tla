----------------------------- MODULE PopulateDm -----------------------------
(***************************************************************************)
(* How the plugin fills the data model after it has started                *)
(* (populate_dm_startup.c): it polls the vendor module for ONUs and walks  *)
(* down from each ONU it finds, one queued task per timer tick, asking for *)
(* the content of an object and for the instances of a template.           *)
(*                                                                         *)
(* At the same time the vendor module adds and removes instances of its    *)
(* own accord, and its answers may fail.                                   *)
(***************************************************************************)
EXTENDS Naturals, Sequences, SequencesExt

CONSTANTS
  Onu,           \* ONU instances with an index in 1 .. MAX_NR_OF_ONUS
  FarOnu,        \* ONU instances the vendor lists with another index
  Child,         \* the instances below the ONUs
  Single,        \* the singletons below the ONUs
  Templ,         \* the template objects below the ONUs
  Root,          \* the template XPON.ONU
  TemplateOf,    \* the template an instance belongs to
  Owner,         \* the instance a singleton or a template is a child of
  Singletons,    \* object_info_t.singletons of an instance, in order
  Templates,     \* object_info_t.templates of an instance, in order
  NrTimes,       \* QUERY_ONUS_NR_TIMES
  MaxFailures,   \* bound on the failing answers and transactions
  SelfAdded,     \* instances the vendor may announce itself
  Removed        \* instances the vendor may remove

Inst == Onu \cup FarOnu \cup Child

ASSUME TreeAssumption ==
  /\ Onu \cap FarOnu = {} /\ Inst \cap Single = {} /\ Onu \cap Child = {}
  /\ Inst \cap Templ = {} /\ Single \cap Templ = {} /\ FarOnu \cap Child = {}
  /\ Root \notin Inst \cup Single \cup Templ
  /\ TemplateOf \in [Inst -> Templ \cup {Root}]
  /\ \A i \in Inst : TemplateOf[i] = Root <=> i \in Onu \cup FarOnu
  /\ Owner \in [Single \cup Templ -> Onu \cup Child]
  /\ Singletons \in [Inst -> Seq(Single)]
  /\ Templates \in [Inst -> Seq(Templ)]
  /\ \A i \in Onu \cup Child :
       /\ ToSet(Singletons[i]) = {s \in Single : Owner[s] = i}
       /\ ToSet(Templates[i]) = {t \in Templ : Owner[t] = i}
  /\ IsFiniteSet(Inst)

ASSUME BoundAssumption ==
  /\ NrTimes \in Nat \ {0} /\ MaxFailures \in Nat
  /\ SelfAdded \subseteq Inst /\ Removed \subseteq Inst

VARIABLES
  vendor,       \* instances the vendor module knows
  dm,           \* instances in the data model
  tasks,        \* s_tasks
  tasksTimer,   \* s_timer_handle_tasks is running
  queryTimer,   \* s_timer_query_onus is running
  cntr,         \* s_cntr_query_onus
  initialised,  \* s_onu_initialised
  failures,     \* failures still to come
  asked,        \* history: objects the vendor module has been asked about
  described     \* history: instances whose content task ended well

vars == <<vendor, dm, tasks, tasksTimer, queryTimer, cntr, initialised,
          failures, asked, described>>

\* An object identifies its task: a template is asked for its indexes, an
\* instance or a singleton for its content.
Object == Inst \cup Single \cup Templ

\* The instances below those of S, S included: three levels at most.
Down(S) == S \cup {c \in Child : Owner[TemplateOf[c]] \in S}
Subtree(i) == Down(Down({i}))

TemplateExists(t) == t \in {Root} \cup {u \in Templ : Owner[u] \in dm}
HasTask(x) == \E k \in DOMAIN tasks : tasks[k] = x
-----------------------------------------------------------------------------
(***************************************************************************)
(* The tasks.                                                              *)
(***************************************************************************)

\* Mutant: a handled task leaves the timer stopped if it created no task.
Replace_no_restart(new) ==
  /\ tasks' = Tail(tasks) \o new
  /\ tasksTimer' = (new # <<>>)

\* The end of handle_task(): the first task gives way to the new ones, and
\* the timer is started if any is left.
Replace(new) ==
  /\ tasks' = Tail(tasks) \o new
  /\ tasksTimer' = (tasks' # <<>>)

Fails == failures > 0 /\ failures' = failures - 1

\* Mutant: any ONU in the data model counts as done.
Known_if_present(i) == i \in dm

\* query_indexes() skips what is there already; an ONU must also have been
\* initialised, and have an index the arrays of this file can hold.
Known(i) ==
  IF i \in Onu THEN i \in dm /\ i \in initialised
  ELSE i \in FarOnu \/ i \in dm

\* The content tasks for the instances the vendor module lists, in its order.
NewInstances(t) ==
  SetToSeqs({i \in vendor : TemplateOf[i] = t /\ ~Known(i)})

query_indexes(t) ==
  /\ asked' = asked \cup {t}
  /\ \/ Fails /\ Replace(<<>>)
     \/ /\ \E new \in NewInstances(t) : Replace(new)
        /\ UNCHANGED failures
  /\ UNCHANGED <<dm, initialised, described>>

\* Mutants: an instance that exists is taken to have its templates filled; the
\* singletons are forgotten.
query_children_once(x) ==
  IF x \in dm THEN Singletons[x] ELSE Singletons[x] \o Templates[x]
query_children_templates(x) == Templates[x]

\* Singletons come first.
query_children(x) == Singletons[x] \o Templates[x]

\* The vendor module no longer has the instance, or the data model no longer
\* has what it is below.
Vanished(x) == ~(x \in vendor /\ TemplateExists(TemplateOf[x]))

\* The content of an instance arrived and the data model takes it: the
\* instance is created or updated, and its children are next.
InstanceDescribed(x) ==
  /\ ~Vanished(x)
  /\ dm' = dm \cup {x}
  /\ Replace(query_children(x))
  /\ described' = described \cup {x}
  /\ initialised' = IF x \in Onu THEN initialised \cup {x} ELSE initialised
  /\ UNCHANGED failures

\* The vendor module has no content, or it cannot be put in the data model:
\* the object is given up and so are its children.  A singleton that cannot
\* be updated is no error, and has no children either.
ContentLost ==
  /\ Replace(<<>>)
  /\ UNCHANGED <<dm, initialised, described>>

query_content(x) ==
  /\ asked' = asked \cup {x}
  /\ \/ x \in Inst /\ InstanceDescribed(x)
     \/ x \in Inst /\ Vanished(x) /\ ContentLost /\ UNCHANGED failures
     \/ x \in Inst /\ Fails /\ ContentLost
     \/ x \in Single /\ ContentLost /\ UNCHANGED failures

handle_task ==
  /\ tasksTimer
  /\ tasks # <<>>
  /\ \/ Head(tasks) \in Templ /\ query_indexes(Head(tasks))
     \/ Head(tasks) \notin Templ /\ query_content(Head(tasks))
  /\ UNCHANGED <<vendor, queryTimer, cntr>>
-----------------------------------------------------------------------------
(***************************************************************************)
(* Polling for ONUs.                                                       *)
(***************************************************************************)

\* query_onu_instances() calls query_indexes() itself, for XPON.ONU, and
\* starts the task timer if there are tasks.
PollOnus ==
  \/ Fails /\ UNCHANGED <<tasks, tasksTimer>>
  \/ /\ \E new \in NewInstances(Root) : tasks' = tasks \o new
     /\ tasksTimer' = (tasksTimer \/ tasks' # <<>>)
     /\ UNCHANGED failures

\* Mutants: the last poll is lost; there is one poll too many.
LastPoll_early(n) == n >= NrTimes
LastPoll_late(n) == n > NrTimes + 1

LastPoll(n) == n > NrTimes

query_onu_instances ==
  /\ queryTimer
  /\ IF initialised = Onu
     THEN queryTimer' = FALSE /\ UNCHANGED <<tasks, tasksTimer, failures, cntr>>
     ELSE /\ cntr' = cntr + 1
          /\ IF LastPoll(cntr')
             THEN queryTimer' = FALSE /\ UNCHANGED <<tasks, tasksTimer, failures>>
             ELSE PollOnus /\ UNCHANGED queryTimer
  /\ UNCHANGED <<vendor, dm, initialised, asked, described>>
-----------------------------------------------------------------------------
(***************************************************************************)
(* The vendor module.                                                      *)
(***************************************************************************)

\* A PON interface appears, with everything below it.
VendorFindsOnu(o) ==
  /\ o \in (Onu \cup FarOnu) \ vendor
  /\ vendor' = vendor \cup Subtree(o)
  /\ UNCHANGED <<dm, tasks, tasksTimer, queryTimer, cntr, initialised,
                 failures, asked, described>>

\* The vendor module announces an instance before it is asked for it.
dm_add_instance(i) ==
  /\ i \in vendor \ dm
  /\ TemplateExists(TemplateOf[i])
  /\ dm' = dm \cup {i}
  /\ UNCHANGED <<vendor, tasks, tasksTimer, queryTimer, cntr, initialised,
                 failures, asked, described>>

\* An instance disappears with everything below it.  Nothing in
\* populate_dm_startup.c is told.
dm_remove_instance(i) ==
  LET gone == Subtree(i) IN
  /\ i \in vendor
  /\ vendor' = vendor \ gone
  /\ dm' = dm \ gone
  /\ described' = described \ gone
  /\ asked' = asked \ (gone \cup {x \in Single \cup Templ : Owner[x] \in gone})
  /\ UNCHANGED <<tasks, tasksTimer, queryTimer, cntr, initialised, failures>>
-----------------------------------------------------------------------------
\* pplt_dm_init(): only the query timer runs.
Init ==
  /\ vendor \in {UNION {Subtree(o) : o \in S} : S \in SUBSET (Onu \cup FarOnu)}
  /\ dm = {} /\ initialised = {} /\ asked = {} /\ described = {}
  /\ tasks = <<>>
  /\ tasksTimer = FALSE
  /\ queryTimer = TRUE
  /\ cntr = 0
  /\ failures = MaxFailures

Next ==
  \/ query_onu_instances
  \/ handle_task
  \/ \E o \in Onu \cup FarOnu : VendorFindsOnu(o)
  \/ \E i \in SelfAdded : dm_add_instance(i)
  \/ \E i \in Removed : dm_remove_instance(i)

Spec == Init /\ [][Next]_vars

\* The event loop serves both timers.
FairSpec == Spec /\ WF_vars(query_onu_instances) /\ WF_vars(handle_task)
-----------------------------------------------------------------------------
(***************************************************************************)
(* Properties.                                                             *)
(***************************************************************************)

Children(i) == {x \in Single \cup Templ : Owner[x] = i}

\* Every variable stays in its range.  In particular an ONU whose index is not
\* within the array of ONU flags gets no task, whatever the vendor module lists
\* and however often, so that the flags are only indexed within their bounds;
\* and the polls are at most one more than their limit.
TypeOK ==
  /\ vendor \subseteq Inst /\ dm \subseteq Inst
  /\ tasks \in Seq(Object) /\ ToSet(tasks) \cap FarOnu = {}
  /\ tasksTimer \in BOOLEAN /\ queryTimer \in BOOLEAN
  /\ cntr \in 0 .. NrTimes + 1
  /\ queryTimer => cntr <= NrTimes
  /\ initialised \subseteq Onu
  /\ failures \in 0 .. MaxFailures
  /\ asked \subseteq Object /\ described \subseteq Inst

\* No lost wake-up: the walk never stops with tasks left.
TasksTimerArmed == tasks # <<>> => tasksTimer

\* Once the content of an instance has been put in the data model, each of its
\* singletons and templates has been asked for or has a task, whatever fails
\* and whatever the vendor module adds or removes in between.
ChildrenNotForgotten ==
  \A i \in described : \A x \in Children(i) : x \in asked \/ HasTask(x)

\* When the walk ends without a failure, everything below an ONU that counts
\* as initialised is in the data model and has been asked for its content and
\* its children ("descending deeper into the hierarchy until it has queried
\* all sub-objects", README.md).
WalkComplete ==
  tasks = <<>> /\ failures = MaxFailures =>
    \A o \in initialised \cap dm :
      \A i \in Subtree(o) \cap vendor : i \in dm /\ Children(i) \subseteq asked

\* Polling stops only when all ONUs are there or the time is over ("stops the
\* timer if the number of instances of XPON.ONU is MAX_NR_OF_ONUS, or if 5
\* minutes passed", query_onu_instances()).
StopsPollingWhenFound ==
  [][queryTimer /\ ~queryTimer' => Onu \subseteq dm \/ cntr' > NrTimes]_vars

\* As long as more polls are left than answers that fail, an ONU of the vendor
\* module ends up in the data model with its children queued, even if the
\* vendor module has announced it before.
OnuFound ==
  \A o \in Onu :
    (o \in vendor /\ queryTimer /\ cntr + failures < NrTimes)
      ~> (o \in dm /\ o \in initialised)
=============================================================================
