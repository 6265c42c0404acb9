# A TLA+ model of tr181-xpon

`tr181-xpon` is an Ambiorix plugin that keeps the TR-181 object `XPON.` of the data model.  A vendor
module, a shared object it loads, knows the hardware.  The plugin is single-threaded: everything it does
is a handler of the event loop.  What makes it hard is not parallel threads but the *order* of handlers:
writes of bus users, queued data model events, two timers, calls the vendor module makes, answers it gives,
files that outlive the process, and restarts.

## 1. The system

| component | source | state | operations |
|---|---|---|---|
| Restore to HAL | `restore_to_hal.c` | list `s_rth_tasks`, timer `s_timer_handle_rth_tasks` | `rth_schedule_enable`, `rth_disable`, `handle_rth_tasks` |
| Persistency of Enable | `persistency.c` | one file `<path>_enabled.txt` per enabled object | `persistency_enable`, `persistency_is_enabled` |
| Change handlers | `dm_events.c` | none: arguments are queued events | `_onu_enable_changed`, `_ani_enable_changed`, `_password_changed`, `_interface_object_added`, `_status_changed` |
| Data model changes | `data_model.c` | the instances and parameters in the data model | `dm_add_instance`, `dm_remove_instance`, `dm_change_object`, `dm_add_or_change_instance_impl`, `dm_omci_reset_mib` |
| Population | `populate_dm_startup.c` | list `s_tasks`, two timers, `s_cntr_query_onus`, `s_onu_initialised[]` | `query_onu_instances`, `handle_task` |
| Password | `password.c` | none | `passwd_check_password`, `passwd_set_password`, `passwd_restore_password` |
| Upgrade persistency | `upgrade_persistency.c`, `file_utils.c` | two files per ANI, one for each format | `upgr_persistency_set_password`, `upgr_persistency_get_password`, `write_file` |
| Data model actions | `dm_actions.c` | flag `s_ignore_param_reads` | `_check_password`, `_lastchange_on_read`, destroy actions |
| Private data | `onu_priv.c`, `object_intf_priv.c`, `utils_time.c` | private data of ONU, ANI, EthernetUNI instances | attach, delete, update of the last change |
| To and from the vendor module | `pon_ctrl.c`, `pon_stat.c` | watched file descriptors | calls in both directions |
| Tables | `dm_info.c`, `ani.c`, `pon_mode.c` | constant | path to object id, names |
| Life cycle | `xpon_mngr_main.c`, `module_mgmt.c`, `pon_cfg.c` | pointers, the loaded module | start, stop |

How they interact:

* A change of `Enable` or `Password` in the data model does not call a handler.  It *queues an event*; the
  handler runs later, with the value of then, against the data model of now.
* `Enable` has three copies: the data model, the `_enabled.txt` file, and what the vendor module was last
  told.  `onu_or_ani_enable_changed()` passes a change on to the other two.  Enabling an ONU is delayed by a
  *task* until its EthernetUNI and ANI have been found.  At a start, `update_enable()` goes the other way,
  from the file to the data model and to a task.
* `handle_task()` and `query_onu_instances()` ask the vendor module what exists and create it, while the vendor
  module may call `pon_stat` functions to create and remove the same instances.
* `Password` also has three copies, and its file has a *format*, given by another parameter
  (`HexadecimalPassword`) and by the name of the file.

What makes each component correct, and the property that says it:

| component | correct if | property |
|---|---|---|
| Restore to HAL | the timer runs while a task is left; one task per object; ONUs are not enabled early, nor never | `TimerArmed`, `OneTaskPerObject`, `NoPrematureOnuEnable`, `EnableReachesHal` |
| its loop over the list | it stays in the list, looks at every task once and loses no request, although the vendor module may change the list from within a call | `TypeOK`, `TimerOrPass`, `ExaminedOnce`, `PassIsOneStep`, `ImplementsRequests` |
| Persistency of Enable | what is enabled survives a restart | `CrashSafe`, `PersistedIsRestored` |
| Change handlers | when the queue is handled, the copies agree | `QueueTruthful`, `SettledEnable`, `SettledDisable` |
| Population | the walk does not stop, forgets nothing, finds every ONU, and ends | `TasksTimerArmed`, `ChildrenNotForgotten`, `WalkComplete`, `OnuFound`, `StopsPollingWhenFound` |
| LastChange | every interface that exists gets a time stamp, never an older one than its Status; none is lost, unless the interface is removed with an event queued | `Attached`, `NeverOverstated`, `OnlyOvertakenLeaks` |
| Data model changes | a refused call changes nothing, a successful one did what it says; readers always see a tree; a reset clears all it should; a path leads to the right description | `RefusedChangesNothing`, `SuccessIsTrue`, `ImplementsTree`, `ResetClears`, `IdsAsDenoted` |
| Data model actions | reads of transceiver parameters are suppressed during a removal, and then only | `ReadsAnswerable` |
| Life cycle | everything is freed once, nothing is left behind, failures are shown; a call goes out to the vendor module while it is open, and only then | `FreedOnce`, `NothingLeft`, `Served`, `StartedOrShown`, `CallsReachModule` |
| Storage folders | a password saved before a restart is looked for in the right folder after it | `PasswordFound` |
| Password | a restart at any point reads the old or the new password; the two files act as one register; copies agree once settled | `OldOrNew`, `ImplementsRegister`, `SettledPassword`, `WriteReported`, `ForwardedIsValid` |

`PROJECT.json` lists the hazards of the code line by line, with the properties that would be violated if the code got them wrong.  A hazard without
a property has a note that says what is checked around it and why nothing covers it: most often the code does go wrong there, and no doc promises otherwise.

## 2. Modules

| module | models |
|---|---|
| `EnableRestore` | the three copies of `Enable`: `restore_to_hal.c`, `persistency.c`, the Enable part of `dm_events.c` and `data_model.c` |
| `MCEnableRestore` | two ONUs, two ANIs, one EthernetUNI with their paths |
| `EnableRestore_proofs` | type correctness, timer, tasks, persistency, no early enable |
| `EnableAgreement_proofs` | the copies agree once settled |
| `EnableRequests` | abstract: what is requested and not withdrawn is told to the vendor module once |
| `RthTasks` | the list of `restore_to_hal.c` at the grain of its loop, with calls of the vendor module in the middle of it; implements `EnableRequests` |
| `MCRthTasks` | two ONUs, and an ANI below one of them |
| `RthTasks_proofs` | the loop stays in the list, no task without timer or doubled, what one pass does, the safety part of the refinement |
| `PopulateDm` | `populate_dm_startup.c`, with the vendor module and the instances in the data model |
| `MCPopulateDm` | a tree of the four kinds of object below two ONUs, and an ONU whose index is out of range |
| `PopulateDm_proofs` | types, the timer of the walk, no child forgotten, the walk is complete, polling does not stop early |
| `CrashSafeRegister` | abstract: a value that changes at one moment, survives crashes, and is acknowledged only when it does |
| `Password` | password validation, its change handler, the two files, restoring; implements `CrashSafeRegister` |
| `MCPassword` | passwords of 4, 20 and 72 characters, hexadecimal or not |
| `Password_proofs` | types, a restart finds the old or the new password, the copies agree, the refinement |
| `LastChange` | the private data of ANI and EthernetUNI instances: `object_intf_priv.c`, its two events, the read and destroy actions, `dm_omci_reset_mib()` |
| `MCLastChange` | an EthernetUNI and an ANI |
| `LastChange_proofs` | type correctness and the three properties of `LastChange` |
| `XponTree` | abstract: a tree of objects that grows, changes and is cut one object at a time |
| `DmInfo` | `OBJECT_INFO` of `dm_info.c` and the way from a path to its entry |
| `DataModel` | the calls of `pon_stat.c` and `data_model.c` with their arguments and results, on the tree of objects; implements `XponTree` |
| `MCDataModel` | the names of an ONU, an EthernetUNI, two ANIs, two GEM ports, a transceiver, and names that lead nowhere |
| `DataModel_proofs` | types, results are true, refusals change nothing, reads are answerable, a reset is complete, paths lead to the right entry, the refinement of `XponTree` |
| `Lifecycle` | `xpon_mngr_main.c`, `module_mgmt.c`, and the init and clean-up functions they call |
| `MCLifecycle` | one object with a saved Enable, three starts |
| `Lifecycle_proofs` | type correctness and the six safety properties of `Lifecycle` |

### EnableRestore

One action is one step of the event loop: `UserSetEnable` (a bus user), `dm_add_instance`,
`dm_remove_instance`, `dm_change_object` (the vendor module, or the walk of `PopulateDm`), `DispatchEvent`
(the oldest queued event), `handle_rth_tasks` (the timer), `Restart`.

| variable | code |
|---|---|
| `inst`, `dmEnable` | the instances, and those with Enable = 1 |
| `priv` | ONUs with `object->priv`: "the persistency has been handled" |
| `tasks`, `timer` | `s_rth_tasks`, `s_timer_handle_rth_tasks` |
| `events` | `dm:object-changed` events that pass the filters of the ODL file |
| `stored` | the `_enabled.txt` files; unchanged by `Restart` |
| `hal` | `set_enable` calls: objects last told to be enabled |
| `lagging` | history: instances removed while an event of theirs was queued |

Choices a reader should know:

* Paths are model values.  The one thing the code does to their text is `strncmp()` in
  `rth_schedule_enable()`; `PathPrefix` says which path is the beginning of which.  `PathAssumption` says what
  is always true of it, no more.
* The list of tasks is a set.  A tick handles all tasks, and their order shows nowhere.
* Time is left out: a running timer may fire at any moment.  `cntr` counts its ticks, as in the code.
* A handler is one step.  Inside `onu_or_ani_enable_changed()` the vendor module is told before the file is
  written; a stop of the process between the two is not modelled (`CrashSafe` is about stops *between* steps).
  Nothing but the files outlives a stop in the plugin, so it starts again as after a stop before or behind the handler; what such a stop
  leaves different is the vendor module, which may have been told what the file does not say.
  Calls that the vendor module makes from within a call to it are the subject of `RthTasks`.
* The vendor module's report of Enable (`Reports`) is absent or what it was last told - not what it would like.
* A failing transaction leaves behind the task that `update_enable()` made; nothing in the code removes it.
* `hal` forgets an object when it is announced again or removed.
* `Faults`: "apply" lets transactions fail after their side effects, "file" lets file accesses fail.
  Failing memory allocation is not modelled.

### RthTasks and EnableRequests

`EnableRestore` makes one step of a pass of `handle_rth_tasks()`.  `RthTasks` opens it up: `handle_rth_tasks` (the timer
fires), then for each task `KeepTask`, or `pon_ctrl_set_enable` (the call goes out) and `DeleteTask` (it
returns).  While a call is out, the vendor module may call back: `Request` (a call that makes `update_enable()` schedule a
task) and `ChangeReady` (EthernetUNIs and ANIs come and go).  `SetDisabled` and `rth_disable` are the two halves of
`onu_or_ani_enable_changed()` with Enable false, with calls back between them.

| variable | code |
|---|---|
| `tasks`, `timer` | `s_rth_tasks`, in order; `s_timer_handle_rth_tasks` |
| `pc` | the event loop, between two tasks, or inside `set_enable` |
| `pos`, `final` | what `amxc_llist_for_each()` keeps: the task at hand; whether the next one, looked up before, is none |
| `ready` | what `dm_get_nr_of_ethernet_uni_instances()` and `dm_get_nr_of_ani_instances()` say of an ONU |
| `told` | what the vendor module was last told |
| `wanted`, `callbacks`, `before`, `quiet` | history: accepted requests; bound; the beginning of the pass; no call back since |

* The loop looks up the next task *before* it handles one.  So a task appended in the last turn waits for the next
  pass, and one appended earlier is part of this one.  `final` is this look-up.
* A removal and a new addition of the object that is being enabled, from within that very call, finds its task still
  in the list: the request is dropped and the task deleted after the call.  `EnableRequests` is about accepted requests, and
  this one is none.
* `PassIsOneStep` justifies the coarser step of `EnableRestore` whenever the vendor module does not call back.

### PopulateDm

`vendor` is what the vendor module knows, `dm` the instances of the data model; a task is the object it
asks about, in the order of `s_tasks`.  `query_onu_instances` and `handle_task` are the two timers.
`dm_add_instance` and `dm_remove_instance` are the vendor module's own calls.  `failures` bounds how many
answers or transactions fail.  `initialised` is `s_onu_initialised[]`, which only an index of `Onu` may reach: the vendor module also lists ONUs of
`FarOnu`, and `TypeOK` says that none of them gets a task.  `asked` and `described` are history
variables for the properties; an entry goes away with its instance.

### Password

One ANI.  `passwd_set_password()` is split where the process may stop between two effects: `password_changed`
(the event; sets `job`), `SaveFirst` and `SaveSecond` (two file operations), `pon_ctrl_set_password`.  Other
handlers run only when `pc = "idle"`, for there is one thread; `Restart` is possible anywhere.  `before`,
`failed`, `lagging` are history variables.  A write fails with no effect ("write"), leaves a broken file and
reports success ("close"), or works and reports failure ("sync", after the rename).  A power cut that loses a
rename not yet on the disk is not modelled.  In one transaction `HexadecimalPassword` may be set before or
after `Password` is checked: the order of a hash table, so both are modelled (`Order`).

`CrashSafeRegister` is what a caller may rely on.  Its value is what `upgr_persistency_get_password()` would return (`Saved`), `pending`
the argument of the job, `acked` what the vendor module was last told.  `Take` is the one moment at which the value changes: the write
of the file, or, when a hexadecimal password replaces an ASCII one, the removal of the ASCII file.  `Acknowledge` is `pon_ctrl_set_password`, and its guard asks
that the value is the one that was set, so that a later start cannot bring an older one back.  `damaged` excuses a job whose file
could not be written and an instance removed with events in the queue; there `Damage` allows any value.

### LastChange

`dm_add_instance`, `dm_change_object` and `dm_remove_instance` are the same functions as in `EnableRestore`, seen
from the parameter Status: a creation queues one instance-added event, a change of Status one object-changed
event.  `interface_object_added` and `status_changed` handle the oldest event with the data model of *then*;
`Tick` is the uptime, `Restart` a stop and start of the process.

| variable | code |
|---|---|
| `uptime` | `time_get_system_uptime()` |
| `status` | Status of the instances that exist |
| `priv` | `object_intf_priv_t.last_change`, or `Never` without private data |
| `events` | the queued events of the ODL file that call the two handlers |
| `since` | history: when the interface entered its Status, what `LastChange` should be counted from |
| `overtaken`, `leaked` | history: removed while an event was queued; private data lost without `free()` |
| `unseen` | history: Status set by an OMCI reset |

* `dm_omci_reset_mib()` sets Status in the object, without a transaction, so no event follows and `LastChange`
  keeps counting from the change before.  `NeverOverstated` leaves these instances out until their next change.
* `oipriv_update_last_change()` uses the object it looks up without a check.  If the instance is gone the
  process stops: `status_changed` then has the effect of a restart.
* `oipriv_attach_private_data()` overwrites the private data it finds.  This happens when an instance is removed and
  added again before its first event is handled; `OnlyOvertakenLeaks` says that private data is lost for no interface but one that was
  removed with an event still queued.
* `sysinfo()` and `calloc()` do not fail.  A removal does not depend on the result of the destroy action.

### DmInfo, DataModel and XponTree

`DmInfo` is a table, `OBJECT_INFO`, and `dm_get_object_id`.  A path is a sequence of parts, of which those in `Numeric` are numbers:
the indexes in `Index`, and 0, which no instance has.  `dm_convert_to_generic_path` replaces numbers only, so a path that has the part
"x" already finds the entry too; `Denotes` says so.  No object of the data model has such a path, nor one with a 0 in it (`Exists`).
`ChildrenListed`, an assumption TLC evaluates in `MCDataModel`, says that the children the table lists have an entry themselves, of the
right kind.

`DataModel` has the calls of the vendor module: `dm_add_instance`, `dm_change_object`, `dm_add_or_change_instance`,
`RefuseRemoval` and `remove_instance`, `dm_omci_reset_mib`, `dm_set_xpon_parameter`.  A removal takes two steps, for the framework
reads parameters while it deletes: `remove_instance`, then `read_trx_param` any number of times, then `ApplyRemoval`.

| variable | code |
|---|---|
| `val` | the objects of the data model, with their Status |
| `priv` | ONUs with private data |
| `fsm` | `XPON.FsmState` |
| `ignore` | `s_ignore_param_reads` |
| `pc`, `removed` | the removal under way |
| `last`, `misled` | history: the last call with its result; a read that reached a vendor module rid of the transceiver |

* Arguments are records: any name of `Names`, keys that are missing, too large or good, parameters that are missing, of the wrong
  kind or a Status.  What `process_args_common()` and its callers refuse is refused here by the same conditions, in the same calls.
* `MayFail` lets a transaction fail; then it has no effect.  `dm_omci_reset_mib` sets Status outside of a transaction, removes the
  GEM ports of one ANI at a time, goes on after a failure, and returns 0 in any case.
* A change of an object that does not exist is no error, nor is the removal of an instance that does not exist.
* The framework adds the singletons of an instance with it and removes all that is below an instance with it.

`XponTree` is what a reader may rely on: an instance exists only below instances that exist, and a step adds one instance with its
singletons, changes one object, cuts one instance with all below it, or is a reset that stays below one ONU.

### Lifecycle

`Start` is `START` up to the opening of the vendor module; `Opened` and `pplt_dm_init` are the steps after it, `Stop` is
`STOP`, `Cleanup`, `Closed`, `Cleaned` are `do_cleanup()`.  The code is cut where code of the vendor module runs: while it is opened,
while it is told the number of ONUs, and while it is closed.  There, and while the plugin runs, it may call `AddEnabled` and
`RestorePassword`.  `call_pon_ctrl_function_common` is a call the other way: of a handler of the event loop, of the start itself, or for a parameter the
framework reads.  Such calls also come when there is no vendor module, for what the event loop still has to handle after a failed start
and for the objects the framework deletes after `STOP`, and `mod_get_vendor_module_loaded()` must refuse them.  `Ended` is the end of the process at any moment.

| variable | code |
|---|---|
| `pc`, `reason`, `rc` | where the entry point is, its argument, its result |
| `dm` | `s_app` |
| `storage`, `upgr` | `s_storage_dir`, `s_upgr_storage_dir` |
| `timer`, `tasks`, `pplt` | the timers and the list of sections above, now created and deleted |
| `namespaces`, `name`, `so` | `s_pon_stat_module`, `s_pon_cfg_module`, `s_module_name`, `s_module_so` |
| `moduleName`, `moduleError` | the two parameters that show it |
| `call` | history: where the entry point was at the last call to the vendor module, and whether it went out |
| `disk` | the folders, and how many vendor modules are installed |
| `heap`, `saved`, `missed`, `moved`, `starts` | history: memory in use; the folder of the latest password; a restore that looked elsewhere; /cfg/system came or went; bound |

* Folders, timers, registrations and the opening may fail, each on its own; the data model library does not.
* A start without a vendor module, with two of them, or with one that cannot be opened returns 0 and stays up, cleaned up, to show
  `ModuleError` ("idle"); `STOP` then cleans up a second time.
* /cfg/system appears or disappears only while the process does not run.
* `amxm_so_open()` sets `s_module_so` at a moment only the library knows.  A call from within the opening ("opening") may go out or be
  refused; every other call depends on the pointers.
* `amxm_so_close()` does not fail.

## 3. Runs

| run | instance | question |
|---|---|---|
| `enable_full` | 1 ONU, 1 ANI, 1 UNI; 4 checks (as in the code), 2 queued events; all faults, both call styles | timer, tasks, no early enable |
| `enable_agree` | 2 ONUs, 2 ANIs, 1 UNI, of which 1 ONU and 1 ANI are switched; 4 checks, 2 events; no faults | do the copies agree once settled, does every enable arrive |
| `enable_prefix` | 1 ONU, 1 ANI, 1 UNI; 1 check, 2 events | violated: a task of an ANI hides the ONU |
| `rth_tasks` | 2 ONUs, 1 ANI below one of them; 2 checks, 3 calls back in a pass | does the loop survive calls back, is one pass one step, is every request carried out |
| `populate_full` | 1 ONU + 1 out of range, 3 instances below; 2 polls, 1 failure; removals | walk continues, forgets nothing |
| `populate_walk` | 2 ONUs + 1; 3 polls, 1 failure; instances announced, no removals | complete, ends, finds all |
| `password_full` | 3 passwords, 3 modes, all writes, orders and faults, 2 events | old or new; settled; are the two files a register |
| `password_close` | 2 passwords, failing `fclose()` | violated: `write_file()` reports success |
| `password_format` | 2 passwords, 2 events | violated: the format changes between check and use |
| `last_change` | 1 EthernetUNI, 1 ANI, 2 values of Status; uptime up to 3, 3 queued events | time stamps attached, not too old, not lost |
| `data_model` | 1 ONU, 1 EthernetUNI, 2 ANIs, 2 GEM ports, 1 transceiver, 8 other names (full paths, a singleton, index 0, a literal "x", ones that lead nowhere); failing transactions | are results true, is the tree a tree, are reads answered, does a reset clear, does a path lead to its entry |
| `lifecycle` | 1 object, 3 starts, 0 to 2 vendor modules, each folder present or not | freed once, nothing left, failures shown, passwords found, calls reach the vendor module or are refused |

**Why the bounds are enough.**  Two queued events are the least that lets a change overtake a change.  Two ONUs
show that the copies of one object do not disturb another, and one child of each kind makes an ONU ready or
not.  With the four checks of the code, a task reaches its limit and one above it.  Two or three polls let an ONU appear
before, between and after polls; one failure can hit any answer.  With 2 checks and 3 calls back in a pass, a call
back can request an object, make an ONU ready and request another one within one turn.  The lengths 4, 20 and 72
separate all cases of the length rules (10 and 36 characters, doubled in hexadecimal).  With three queued events an addition, a
removal, a second addition and a change of one interface can all be under way, and an uptime of three is enough for
a change, an event and a reading at different times.  Two ANIs tell a reset of all from a reset of one, and every kind of object that a call treats
differently is there once.  Three starts let a folder that a start has created be met by the next, and a password be saved, moved and
missed.  The proofs of section 4 have no such bounds.

**Fairness.**  `FairSpec` of `EnableRestore` (run `enable_agree`): weak fairness of `DispatchEvent` and of `handle_rth_tasks`.
`FairSpec` of `PopulateDm`: weak fairness of both timer handlers.  In each case the event loop serves its queue
and an expired timer.
`FairSpec` of `RthTasks`: strong fairness of `handle_rth_tasks`, for an expired timer stays pending while Enable events keep the plugin
busy and is served when the loop is back; weak fairness of the steps of the loop and of `rth_disable`, which are sequential code and calls that
return.  Nothing is assumed of users, of the vendor module, or of restarts.
`Password`, `LastChange`, `DataModel` and `Lifecycle` have no liveness property.

**Deadlock.**  The runs of `PopulateDm` switch the check off: when polling has ended, no task is left and the vendor
module has no more to report, the system rests.  So do `rth_tasks` and `data_model`, which are driven from outside only: an
event loop without events may wait, and that is no error.  `lifecycle` switches it off since a process that has ended for the last of
`MaxStarts` times is not started again.  `EnableRestore`, `Password` and `LastChange` are checked for deadlock.

**What the violations show**: see "findings" in `PROJECT.json`, each with the sentence of a doc or comment
that the run refutes.  `SettledEnable` is the part of `EveryEnableForwarded` that does hold: for an object whose path
no longer path in use starts with.

**Behaviour to know of**, which the properties leave out by what they assume:

* The saved Enable of an ONU of the default data model is restored at the first change of it.  If that call gives the full path
  and no index, `update_enable()` refuses the index 0, and the ONU counts as handled all the same.  `PersistedIsRestored` is checked and
  proved for calls with an index (`CallStyle`).
* The walk skips what is below an instance that the vendor module has announced itself: `populate_walk` announces leaves only.
* A removed ONU still counts as found, so that polling may stop without it: `populate_walk` removes nothing.
* An instance that is removed and added again while an event of it waits gets that event applied to the new one (`lagging`, `overtaken`).
* With two files left by a stop between two file operations, the ASCII one wins at the next start.

## 4. Proofs

`EnableRestore_proofs` and `EnableAgreement_proofs`, for every finite or infinite set of objects, every bound and every
combination of faults that the assumptions allow.  They rest on `ObjectAssumption`, `PathAssumption` and `BoundAssumption` only.

| theorem | property | argument |
|---|---|---|
| `TypeCorrect` | `TypeOK` | inductive by itself; the part on `cntr` needs `Waiting` |
| `TimerAlwaysArmed` | `TimerArmed` | with `TypeOK`: each action that adds a task starts the timer, the handler restarts it for what it keeps |
| `OneTask` | `OneTaskPerObject` | with `PathAssumption`: a path is a prefix of itself, so the comparison of `rth_schedule_enable()` never admits a second |
| `EnabledIsPersisted` | `CrashSafe` | every object that gets a task or is enabled is stored in the same step, or was; a file goes away only with the task and `hal` |
| `NoOnuTooEarly` | `NoPrematureOnuEnable` | case by case over the actions that change `hal` |
| `QueueAlwaysTruthful` | `QueueTruthful` | appending and taking the head of the queue keep "the latest change carries the value"; a removal puts the object in `lagging` if it has events |
| `EnableNotLost` | `SettledEnable` | strengthened to all objects with or without events, from `QueueTruthful`; the head of the queue is the last event of its object when the object becomes settled |
| `DisableNotLost` | `SettledDisable` | the same, with `OneTaskPerObject` for `rth_disable()` |
| `RestoredWhenIndexed` | `PersistedIsRestored` | assumes `CallStyle \subseteq {"index"}`; needs the auxiliary invariant `Agreement`: an enabled settled object is stored even before it is "handled" |

`RthTasks_proofs`, from `ObjectAssumption` and `BoundAssumption`.  Its first lemmas are about sequences: what `RemoveAt` does to
positions and members.  The two theorems on a pass rest on what is true half way through it: `Examined`, a task the pass began with is
told, or counted and behind the loop, or unchanged where the loop is still going to come; and `HalfWay`, without calls back there is
nothing else in the list and nobody else was told.  Both follow a turn of the loop in two steps.  `TurnDone(p)` is what `KeepTask` and
`DeleteTask` make of the list, with the loop before position `p` (lemmas `KeepTurn`, `DeleteTurn`); from it follow the two invariants
for the next turn (`TurnOver`) or, after the last turn, the property (`LastTurn`).  A call back can append but not move a task
(`PassCallback`).

| theorem | property | argument |
|---|---|---|
| `TypeCorrect` | `TypeOK` | needs `NextInList`: unless the look-up of the next task found none, there is one behind the present one.  Only `DeleteTask` shortens the list in a pass, and then the next task moves to the present position |
| `NoLostTask` | `TimerOrPass` | an accepted request starts the timer, the end of a pass starts it for what is left |
| `OneTask` | `OneTaskPerObject` | as in `EnableRestore`; a removal keeps paths different |
| `RequestsSafe` | safety half of `ImplementsRequests` | `WantedListed`: `requested` of the abstract module is the list, without the task that is being carried out and the object that is being disabled; with `OneTaskPerObject` the task `rth_disable()` deletes is the only one |
| `EachTaskOnce` | `ExaminedOnce` | `Examined`: in the last turn (`final`) the one task still to come is the one at hand |
| `OneStep` | `PassIsOneStep` | `HalfWay`: after the last turn every task left is a counted one of the beginning; `ready` cannot change without a call back |

`PopulateDm_proofs`, from `TreeAssumption` and the bounds.

| theorem | property | argument |
|---|---|---|
| `TypeCorrect` | `TypeOK` | inductive by itself.  No task is for an ONU out of range: those a query lists are left out by `Known` (`ListedFacts`), and children are no instances (`ChildrenFacts`) |
| `TimerAlwaysArmed` | `TasksTimerArmed` | `Replaced`: the list that `handle_task()` leaves has its timer; a poll that appends a task starts it |
| `NoChildForgotten` | `ChildrenNotForgotten` | an instance is described in the step that puts its children in the list; a child leaves the list only by being asked for, or with its owner |
| `WalkIsComplete` | `WalkComplete` | assumes that nothing is removed and that the vendor module announces leaves only.  `TopDown` and `InstancesFound` say that what was asked for yielded all instances of the vendor module, `DescribedIfNeeded` that those were described, so that with no task left the whole tree was walked |
| `PollingNotStoppedEarly` | `StopsPollingWhenFound` | assumes that nothing is removed: then an initialised ONU is in the data model |

`Password_proofs`, from the assumptions on its constants.  `IInv` adds to the properties what a job has done so far (`JobShape`), that after a job
one file agrees with the vendor module (`FilesAgree`), that the last of events, job and told password is the one of the data model (`Latest`), and
`CrashRepaired`: two files left by a crash are put in order by a password that is not empty before an empty one can come.

| theorem | property | argument |
|---|---|---|
| `TypeCorrect` | `TypeOK` | a part of `IInv` |
| `PasswordSurvives` | `OldOrNew` | `SaveFirst` changes only the job's own file, which wins or loses against the other; the case of two files needs `CrashRepaired` |
| `PasswordAgreed` | `SettledPassword` | from `FilesAgree` and `Latest` |
| `RegisterImplemented` | `ImplementsRegister` | each step is a step of `CrashSafeRegister` or a stutter: `SaveFirst` a `Take` or nothing (`OldOrNew'`), `SaveSecond` a `Take`, since with the other file gone the job's own decides (`OnlyOwn`), `pon_ctrl_set_password` an `Acknowledge` (`JobShape`) |

`Lifecycle_proofs`, from `StartsAssumption`.  `IInv` adds to the properties that nothing is held while the process is down (`DownIsEmpty`), that no timer or task
comes back once the clean-up has begun (`TimersGone`), when the vendor module is open (`OpenedOnce`) and that it then has all it may call
(`OpenIsServed`), what the start is going to return (`Outcome`), that no call has gone out before
the opening, and none but its own during it (`FirstCalls`), and that the folders follow from `disk` (`FolderByDisk`).

| theorem | property | argument |
|---|---|---|
| `TypeCorrect` | `TypeOK` | with `FreedOnce`: `heap` never becomes negative |
| `EverythingFreedOnce` | `FreedOnce` | each step adds and subtracts what its pointers say, `OpenedOnce` for the vendor module |
| `CleanupComplete` | `NothingLeft` | `TimersGone`: a call back finds no timer, so `rth_schedule_enable()` refuses |
| `VendorServed` | `Served` | from `OpenIsServed` |
| `FailureShown` | `StartedOrShown` | from `Outcome`, which each step of the start establishes for the next |
| `CallsReach` | `CallsReachModule` | `FirstCalls`: an error is set when there is nothing to open or the opening fails, and no call has gone out by then but from within the opening; afterwards `StartedOrShown` has no open module with an error.  `OpenedOnce`: the pointers are set where calls must go out, and NULL elsewhere |
| `PasswordNotMissed` | `PasswordFound` | `FolderByDisk`: both the folder in use and that of the latest password are the one `disk` decides |

`DataModel_proofs`, from `IndexAssumption` and `ValueAssumption`, for any indexes and any names the vendor module may give, also wrong ones.  `Part` lists the
literals of `OBJECT_INFO` beside `STRING`, since no prover takes a literal for a member of `STRING`; it assumes nothing.  Two invariants
carry the proofs.  `TreeOK`: every object has a path of at most 9 parts, without "x" or 0, reached through instances that exist.
`KindInv`: every object has an entry in the table and a value of its kind, private data belongs to an ONU that exists, and the last
target is a path.  `KindInv` needs to know which kinds of object can be below which: the lemmas from `OnuPath` to `PortReached` say what an
instance's path looks like from the generic path of its entry, as far down as the ports of an ANI (`GenericMatches`, `BelowAni`).

| theorem | property | argument |
|---|---|---|
| `SuccessHolds` | `SuccessIsTrue` | inductive with `TreeOK` (paths are sequences of parts, reached through instances that exist), `FunctionOK` and `RemovalOK` |
| `RefusalsChangeNothing` | `RefusedChangesNothing` | case by case over the calls |
| `ReadsAreAnswerable` | `ReadsAnswerable` | `RemovalOK`: the flag is set exactly during a removal |
| `TreeImplemented` | `ImplementsTree` | each call is a `Grow`, `Change`, `Cut` or `ResetMib`, or a stutter.  The work is in the lemmas on paths: what an instance leads through (`ThroughAppend`, `ThroughConcat`), that a singleton leads through the same instances as its owner (`SinglesFacts`), and that a removal with all that has the path as prefix leaves no orphan |
| `TypeCorrect` | `TypeOK` | `KindInv`: an added instance has the generic path of a template, so its singletons are in the table (`AddKinds`); a change keeps the kind (`ChangeKinds`); what is left after a removal keeps its value (`RemovalKinds`) |
| `ResetIsComplete` | `ResetClears` | `ResetKinds`: an EthernetUNI below the ONU is one the loop visits (`UniReached`), a GEM port has an ANI below the ONU that exists by `TreeOK` (`PortReached`) |
| `IdsAreDenoted` | `IdsAsDenoted` | `IdsDenoted`: no two entries have the same generic path (`PathsDiffer`), none ends in a number or "x" (`PathEnds`), and `Generalised` undoes what `Denotes` allows |
| `ChildrenAreListed` | `ChildrenListed`, of the table alone | child by child, with `GenericFound` |

`LastChange_proofs`, likewise, rests on `LastChangeAssumption` only.  Its first two lemmas say what appending an event and taking the
oldest one do to the events of each object.

| theorem | property | argument |
|---|---|---|
| `TypeCorrect` | `TypeOK` | inductive by itself |
| `AlwaysAttached` | `Attached` | strengthened to `AttachedOrComing`: an instance without private data has an instance-added event in the queue, and that event finds it |
| `LastChangeNotTooLarge` | `NeverOverstated` | `Current`: once no event is queued the time stamp is not older than the Status; the event that empties the queue of an object sets it to the present, for by `Attached` there is one to set |
| `LeaksAreOvertaken` | `OnlyOvertakenLeaks` | `AddedOnce`: unless overtaken, an interface has at most one instance-added event queued, and none once it has private data or is gone |

Only model-checked: liveness (`EnableReachesHal`, `OnuFound`, and the liveness half of `ImplementsRequests`), which is out of the
prover's reach.  Every invariant and every safety action property of a passing run is proved.  `TypeOK` of `EnableRestore`, `Password`,
`LastChange` and `Lifecycle` is proved only, and part of no run.

## 5. Not modelled

* Watching of file descriptors (`pon_stat.c`, `pon_ctrl.c`): the event loop keeps them, the plugin passes a number on.
  The call to the vendor module for a readable one is among the calls of `Lifecycle`.
* `pon_cfg.c`, `ani.c`, `pon_mode.c`: reading a parameter for the vendor module, the text of a path, an enumeration; they have no state.
* Of the parameters: all but Status, Enable, Password, HexadecimalPassword, PONMode and LastChange; the conversion of the values of a transceiver.
* The ODL declarations, except for the filters that decide which change calls which handler.
* Failing memory allocation and failing calls of the data model library other than transactions.
* A power cut that undoes a rename; a stop of the process between the vendor module being told of an Enable and the file being written.
* The walk of `PopulateDm` together with `EnableRestore`: `EnableRestore` takes the calls the walk makes as calls in any order, which is more general.
* Tracing and `trace_set_level` of zones.

## 6. Plan

Done: the seven detailed modules (`DmInfo` counted with `DataModel`) with their proofs; three abstract specifications, `EnableRequests`, `XponTree` and `CrashSafeRegister`, and the refinements to them.  Further
steps, should the code call for them:

1. Discovery as an abstract specification for `PopulateDm`.
2. `OneStep` makes of `handle_rth_tasks` of `EnableRestore` a pass of `RthTasks` without calls back; a refinement mapping between the two
   whole modules would also have to relate their requests and restarts.
3. The calls of the walk of `PopulateDm` composed with the calls back of `RthTasks`.
