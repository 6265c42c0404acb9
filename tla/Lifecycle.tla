------------------------------ MODULE Lifecycle ------------------------------
(***************************************************************************)
(* The entry point of the plugin (xpon_mngr_main.c): what START sets up in *)
(* each part and in which order, how the vendor module is found and loaded *)
(* (module_mgmt.c), and what the clean-up after a failed start and at STOP *)
(* leaves behind.                                                          *)
(*                                                                         *)
(* The code of the vendor module runs inside START, while it is opened and *)
(* told the number of ONUs, and inside the clean-up, while it is closed;   *)
(* at those moments it may call back.  Disk and installed modules outlive  *)
(* the process, which may be killed at any time.                           *)
(***************************************************************************)
EXTENDS Integers, FiniteSets

CONSTANTS
  Objects,    \* the objects with a saved Enable the vendor module may add
  MaxStarts   \* bound: how often the process is started

ASSUME StartsAssumption == MaxStarts \in Nat /\ IsFiniteSet(Objects)

Namespaces == {"pon_stat", "pon_cfg"}
PpltTimers == {"handle_tasks", "query_onus"}

VARIABLES
  pc,          \* where the entry point is
  reason,      \* its argument: "start" or "stop"
  rc,          \* what it returned, or is going to
  dm,          \* whether s_app holds the data model and the parser
  storage,     \* whether s_storage_dir is set
  upgr,        \* the folder in s_upgr_storage_dir: "cfg", "etc" or "none"
  timer,       \* whether s_timer_handle_rth_tasks exists
  tasks,       \* s_rth_tasks: the objects in it
  pplt,        \* the timers of populate_dm_startup.c
  namespaces,  \* registered: s_pon_stat_module and s_pon_cfg_module
  name,        \* whether s_module_name is set
  so,          \* whether s_module_so is set
  heap,        \* history: memory taken and not given back for all of these
  moduleName, moduleError,  \* XPON.ModuleName is set, XPON.ModuleError
  disk,        \* the folders, and how many vendor modules are installed
  saved,       \* the folder the latest password was saved in, or "none"
  missed,      \* history: a restore did not look for the latest password there
  moved,       \* history: /cfg/system came or went after a password was saved
  call,        \* history: where the entry point was when this process last
               \* wanted to call the vendor module, and whether it did
  starts       \* how often the process was started

folders == <<storage, upgr>>
module == <<namespaces, name, so, moduleName, moduleError>>
statics == <<dm, folders, timer, tasks, pplt, module, heap>>
outside == <<disk, saved, missed, moved, call, starts>>
vars == <<pc, reason, rc, statics, outside>>

\* /cfg/system/, the component's folder in it, the storage folder of the
\* parser or the default one, and what amxp_dir_scan() is going to find.
Disk == [cfg : BOOLEAN, component : BOOLEAN, etc : BOOLEAN, modules : 0 .. 2]

\* Where the entry point can be; while code of the vendor module runs in it,
\* it is "opening", "max_onus" or "closing".
Places == {"down", "opening", "max_onus", "running", "cleanup", "closing",
           "closed", "idle", "stopped"}

Ptr(set) == IF set THEN 1 ELSE 0

\* The pointers that are not NULL.
Pointers ==
  Ptr(storage) + Ptr(upgr # "none") + Ptr(timer) + Cardinality(pplt)
    + Cardinality(namespaces) + Ptr(so)
-----------------------------------------------------------------------------
(***************************************************************************)
(* START.  dm_info_init(), which comes first, only checks the order of the *)
(* table OBJECT_INFO, a function in DmInfo.                                *)
(***************************************************************************)

\* persistency_init(): a folder that is not there is created.
persistency_init(made) == storage' = (disk.etc \/ made)

\* Mutant: a component folder that is just created is used from the next
\* start on.
upgr_persistency_init_late(made) ==
  upgr' = IF disk.cfg /\ disk.component THEN "cfg"
          ELSE IF storage' THEN "etc" ELSE "none"

\* The folder for reboot persistent files replaces /cfg/system/ only where that
\* does not exist.
upgr_persistency_init(made) ==
  upgr' = IF disk.cfg
          THEN IF disk.component \/ made THEN "cfg" ELSE "none"
          ELSE IF storage' THEN "etc" ELSE "none"

\* Mutant: the vendor module is opened before the functions are there for it.
mod_module_mgmt_init_early(registered) ==
  /\ namespaces' = {}
  /\ name' = (disk.modules > 0)
  /\ moduleName' = name'
  /\ pc' = IF disk.modules = 1 THEN "opening" ELSE "cleanup"
  /\ moduleError' = (pc' = "cleanup")
  /\ rc' = IF moduleError' THEN 0 ELSE 1

\* The registrations come first; the second one is not tried if the first
\* fails.  Of two modules the first one found gives the name.
mod_module_mgmt_init(registered) ==
  /\ namespaces' = registered
  /\ name' = (registered = Namespaces /\ disk.modules > 0)
  /\ moduleName' = name'
  /\ pc' = IF registered = Namespaces /\ disk.modules = 1
           THEN "opening" ELSE "cleanup"
  /\ moduleError' = (registered = Namespaces /\ disk.modules # 1)
  /\ rc' = IF moduleError' THEN 0 ELSE 1

\* Up to the opening of the vendor module.
Start ==
  /\ pc = "down" /\ starts < MaxStarts
  /\ starts' = starts + 1
  /\ reason' = "start" /\ dm' = TRUE
  /\ \E etc, component \in BOOLEAN :
       /\ persistency_init(etc)
       /\ upgr_persistency_init(component)
       /\ disk' = [disk EXCEPT !.etc = @ \/ etc,
                               !.component = @ \/ (disk.cfg /\ component)]
  /\ timer' \in BOOLEAN
  /\ \E registered \in {{}, {"pon_stat"}, Namespaces} :
       mod_module_mgmt_init(registered)
  /\ heap' = heap + Ptr(storage') + Ptr(upgr' # "none") + Ptr(timer')
               + Cardinality(namespaces')
  /\ UNCHANGED <<tasks, pplt, so, saved, missed, moved, call>>

\* Mutant: a module that cannot be opened is not shown.
Opened_silent(ok) ==
  /\ pc = "opening"
  /\ so' = ok /\ heap' = heap + Ptr(ok)
  /\ rc' = IF ok THEN 1 ELSE 0
  /\ pc' = IF ok THEN "max_onus" ELSE "cleanup"
  /\ UNCHANGED <<reason, dm, folders, timer, tasks, pplt, namespaces, name,
                 moduleName, moduleError, outside>>

\* load_vendor_module(): amxm_so_open() returns.
Opened(ok) ==
  /\ pc = "opening"
  /\ so' = ok /\ heap' = heap + Ptr(ok)
  /\ moduleError' = ~ok
  /\ rc' = IF ok THEN 1 ELSE 0
  /\ pc' = IF ok THEN "max_onus" ELSE "cleanup"
  /\ UNCHANGED <<reason, dm, folders, timer, tasks, pplt, namespaces, name,
                 moduleName, outside>>

\* pon_ctrl_init() returns, and pplt_dm_init() creates its timers: all or the
\* first ones.
pplt_dm_init ==
  /\ pc = "max_onus"
  /\ pplt' \in {{}, {"handle_tasks"}, PpltTimers}
  /\ heap' = heap + Cardinality(pplt')
  /\ IF pplt' = PpltTimers THEN rc' = 0 /\ pc' = "running"
                           ELSE rc' = 1 /\ pc' = "cleanup"
  /\ UNCHANGED <<reason, dm, folders, timer, tasks, module, outside>>
-----------------------------------------------------------------------------
(***************************************************************************)
(* do_cleanup(), after a START that did not succeed and at STOP.  A part   *)
(* that has nothing to free does nothing.                                  *)
(***************************************************************************)

Stop ==
  /\ pc \in {"running", "idle"}
  /\ reason' = "stop" /\ rc' = 0
  /\ pc' = "cleanup"
  /\ UNCHANGED <<statics, outside>>

\* pplt_dm_cleanup(), rth_cleanup()
Cleanup ==
  /\ pc = "cleanup"
  /\ pplt' = {} /\ tasks' = {} /\ timer' = FALSE
  /\ heap' = heap - Cardinality(pplt) - Ptr(timer)
  /\ pc' = IF so THEN "closing" ELSE "closed"
  /\ UNCHANGED <<reason, rc, dm, folders, module, outside>>

\* amxm_so_close() in mod_module_mgmt_cleanup() returns.
Closed ==
  /\ pc = "closing"
  /\ so' = FALSE /\ heap' = heap - 1
  /\ pc' = "closed"
  /\ UNCHANGED <<reason, rc, dm, folders, timer, tasks, pplt, namespaces, name,
                 moduleName, moduleError, outside>>

\* Mutant: the pointer to what was freed stays.
persistency_cleanup_dangling == UNCHANGED storage

persistency_cleanup == storage' = FALSE

\* The rest of mod_module_mgmt_cleanup(), the folders, and at STOP s_app.
Cleaned ==
  /\ pc = "closed"
  /\ namespaces' = {} /\ name' = FALSE
  /\ persistency_cleanup
  /\ upgr' = "none"
  /\ heap' = heap - Cardinality(namespaces) - Ptr(storage) - Ptr(upgr # "none")
  /\ dm' = (dm /\ reason = "start")
  /\ pc' = IF reason = "stop" THEN "stopped" ELSE "idle"
  /\ UNCHANGED <<reason, rc, timer, tasks, pplt, so, moduleName, moduleError,
                 outside>>
-----------------------------------------------------------------------------
(***************************************************************************)
(* The vendor module, and the users of the data model.                     *)
(***************************************************************************)

VendorRuns == pc \in {"opening", "max_onus", "running", "closing"}

\* A call reaches the plugin if its namespace is registered.
VendorCalls == VendorRuns /\ dm /\ "pon_stat" \in namespaces

\* Mutant: whether there is a timer is not looked at.
rth_schedule_enable_untimed(o) == tasks' = tasks \cup {o}

rth_schedule_enable(o) == timer /\ tasks' = tasks \cup {o}

\* dm_add_instance() of an object that is enabled according to its file.
AddEnabled(o) ==
  /\ VendorCalls /\ storage
  /\ rth_schedule_enable(o)
  /\ UNCHANGED <<pc, reason, rc, dm, folders, timer, pplt, module, heap, outside>>

\* handle_rth_tasks() is done with an object.
Enabled(o) ==
  /\ pc = "running" /\ o \in tasks
  /\ tasks' = tasks \ {o}
  /\ UNCHANGED <<pc, reason, rc, dm, folders, timer, pplt, module, heap, outside>>

\* dm_add_instance() of an ANI: upgr_persistency_get_password().
RestorePassword ==
  /\ VendorCalls
  /\ missed' = (missed \/ (upgr # "none" /\ saved \notin {"none", upgr}))
  /\ UNCHANGED <<pc, reason, rc, statics, disk, saved, moved, call, starts>>

\* upgr_persistency_set_password(), if there is a folder.
SavePassword ==
  /\ pc = "running" /\ upgr # "none"
  /\ saved' = upgr
  /\ UNCHANGED <<pc, reason, rc, statics, disk, missed, moved, call, starts>>

\* Mutant: a module counts as loaded unless an error is shown.
mod_get_vendor_module_loaded_unless_error == ~moduleError

\* There is a module to call, and a name to call it by.
mod_get_vendor_module_loaded == name /\ so

\* Any call of pon_ctrl.c.  Of the event loop: for a queued event, a timer, a
\* reader, or a descriptor that the vendor module left watched.  Of the entry
\* point: pon_ctrl_init().  For the parameters the framework reads while it
\* carries out a call of the vendor module, or deletes the objects after STOP:
\* _read_trx_param().  While amxm_so_open() runs the code of the module, the
\* pointer to it may be set already or not yet.
call_pon_ctrl_function_common ==
  /\ pc \in {"max_onus", "running", "idle", "stopped"} \/ VendorCalls
  /\ \E made \in BOOLEAN :
       /\ pc # "opening" => made = mod_get_vendor_module_loaded
       /\ call' = [at |-> pc, made |-> made]
  /\ UNCHANGED <<pc, reason, rc, statics, disk, saved, missed, moved, starts>>

\* The process ends, by itself or not; before the next one starts /cfg/system
\* may come or go.  What is in memory, the data model included, is lost.
Ended ==
  /\ pc # "down"
  /\ pc' = "down"
  /\ dm' = FALSE /\ storage' = FALSE /\ upgr' = "none"
  /\ timer' = FALSE /\ tasks' = {} /\ pplt' = {}
  /\ namespaces' = {} /\ name' = FALSE /\ so' = FALSE /\ heap' = 0
  /\ moduleName' = FALSE /\ moduleError' = FALSE
  /\ call' = [at |-> "down", made |-> FALSE]
  /\ \E cfg \in BOOLEAN :
       /\ disk' = [disk EXCEPT !.cfg = cfg]
       /\ moved' = (moved \/ (saved # "none" /\ cfg # disk.cfg))
  /\ UNCHANGED <<reason, rc, saved, missed, starts>>
-----------------------------------------------------------------------------
Init ==
  /\ pc = "down" /\ reason = "start" /\ rc = 0
  /\ dm = FALSE /\ storage = FALSE /\ upgr = "none"
  /\ timer = FALSE /\ tasks = {} /\ pplt = {}
  /\ namespaces = {} /\ name = FALSE /\ so = FALSE /\ heap = 0
  /\ moduleName = FALSE /\ moduleError = FALSE
  /\ disk \in Disk
  /\ saved = "none" /\ missed = FALSE /\ moved = FALSE /\ starts = 0
  /\ call = [at |-> "down", made |-> FALSE]

\* The entry point goes on.
Continue ==
  (\E ok \in BOOLEAN : Opened(ok)) \/ pplt_dm_init \/ Cleanup \/ Closed \/ Cleaned

Next ==
  \/ Start \/ Continue \/ Stop \/ Ended
  \/ \E o \in Objects : AddEnabled(o) \/ Enabled(o)
  \/ RestorePassword \/ SavePassword \/ call_pon_ctrl_function_common

Spec == Init /\ [][Next]_vars
-----------------------------------------------------------------------------
(***************************************************************************)
(* Properties.                                                             *)
(***************************************************************************)

\* Every variable stays in its range.
TypeOK ==
  /\ pc \in Places
  /\ reason \in {"start", "stop"} /\ rc \in {0, 1}
  /\ dm \in BOOLEAN /\ storage \in BOOLEAN /\ upgr \in {"none", "cfg", "etc"}
  /\ timer \in BOOLEAN /\ tasks \subseteq Objects
  /\ pplt \in {{}, {"handle_tasks"}, PpltTimers}
  /\ namespaces \in {{}, {"pon_stat"}, Namespaces}
  /\ name \in BOOLEAN /\ so \in BOOLEAN /\ heap \in Nat
  /\ moduleName \in BOOLEAN /\ moduleError \in BOOLEAN
  /\ disk \in Disk /\ saved \in {"none", "cfg", "etc"}
  /\ missed \in BOOLEAN /\ moved \in BOOLEAN /\ starts \in 0 .. MaxStarts
  /\ call \in [at : Places, made : BOOLEAN]

\* Memory is freed exactly once: what is taken is what the pointers hold,
\* through every clean-up, also the second one after a start that failed.
FreedOnce == heap = Pointers

\* When the clean-up is over nothing is left in any part, although the vendor
\* module may call back while it is closed, after the timer is gone.
NothingLeft ==
  pc \in {"idle", "stopped"} =>
    /\ tasks = {} /\ ~timer /\ pplt = {}
    /\ namespaces = {} /\ ~so /\ ~name
    /\ ~storage /\ upgr = "none"

\* While code of the vendor module may run, what it calls is there: the
\* functions are registered and the data model is set.
Served == VendorRuns => dm /\ namespaces = Namespaces

\* START returns 0 either with everything running, or with XPON.ModuleError set
\* to show why it is not ("Keep running to show this to the user",
\* xpon_mngr_main.c).
StartedOrShown ==
  /\ pc = "running" => so /\ name /\ moduleName /\ ~moduleError /\ pplt = PpltTimers
  /\ pc = "idle" => (rc = 0 <=> moduleError)
  /\ moduleError => ~so

\* A saved password is found again after any restart, whether its folder was
\* there or had to be created, unless /cfg/system itself came or went.
PasswordFound == missed => moved

\* A call goes out to the vendor module only while its code is there, and from
\* the moment it is open always.  After a start that failed at any point, and
\* after STOP, it is refused ("NULL if the plugin failed to load the vendor
\* module at startup", module_mgmt.c), whatever is left then that calls: once
\* XPON.ModuleError is set, no call has gone out, unless from within the
\* opening that failed.
CallsReachModule ==
  /\ call.made => call.at \in {"opening", "max_onus", "running", "closing"}
  /\ call.at \in {"max_onus", "running"} => call.made
  /\ moduleError /\ call.made => call.at = "opening"
=============================================================================
