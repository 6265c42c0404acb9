--------------------------- MODULE Lifecycle_proofs ---------------------------
(***************************************************************************)
(* Proofs about Lifecycle, for any number of starts and any set of objects *)
(* the vendor module may add.                                              *)
(***************************************************************************)
EXTENDS Lifecycle, FiniteSetTheorems, TLAPS

\* Nothing is held while the process does not run.
DownIsEmpty ==
  pc = "down" =>
    /\ ~storage /\ upgr = "none" /\ ~timer
    /\ pplt = {} /\ namespaces = {} /\ ~so

\* Once the timers are gone no call of the vendor module brings a task back;
\* those of populate_dm_startup.c are the last to be created.
TimersGone ==
  /\ pc \in {"closing", "closed", "idle", "stopped"} =>
       tasks = {} /\ ~timer /\ pplt = {}
  /\ pc \in {"opening", "max_onus"} => pplt = {}

\* The vendor module is open from its opening to its closing.
OpenedOnce ==
  /\ pc \in {"opening", "closed", "idle", "stopped"} => ~so
  /\ pc \in {"max_onus", "running", "closing"} => so

\* An open vendor module has everything it may call.
OpenIsServed ==
  pc = "opening" \/ so => dm /\ namespaces = Namespaces

\* What the start has come to, and what it is going to return.
Outcome ==
  /\ pc \in {"opening", "max_onus", "running"} => name /\ moduleName
  /\ pc \in {"opening", "max_onus", "running"} => ~moduleError
  /\ pc \in {"cleanup", "closing", "closed", "idle"} /\ reason = "start" =>
       (rc = 0 <=> moduleError)
  /\ pc = "idle" => reason = "start"

\* The folder in use, and the one the latest password is in, follow from
\* whether /cfg/system/ is there.
FolderByDisk ==
  /\ upgr # "none" => (disk.cfg <=> upgr = "cfg")
  /\ saved # "none" /\ ~moved => (disk.cfg <=> saved = "cfg")

\* The first calls of a process to go out are from within the opening of the
\* vendor module.
FirstCalls ==
  /\ pc = "down" => ~call.made
  /\ pc = "opening" /\ call.made => call.at = "opening"

IInv ==
  /\ TypeOK /\ FreedOnce /\ NothingLeft /\ Served /\ StartedOrShown /\ PasswordFound
  /\ CallsReachModule /\ FirstCalls
  /\ DownIsEmpty /\ TimersGone /\ OpenedOnce /\ OpenIsServed /\ Outcome /\ FolderByDisk
-----------------------------------------------------------------------------
\* The pointers that are not NULL can be counted.
LEMMA CardFacts ==
  /\ Cardinality({}) = 0
  /\ \A s \in {{}, {"pon_stat"}, Namespaces} : Cardinality(s) \in Nat
  /\ \A s \in {{}, {"handle_tasks"}, PpltTimers} : Cardinality(s) \in Nat
<1>1. Cardinality({}) = 0
  BY FS_EmptySet
<1>2. /\ IsFiniteSet({}) /\ IsFiniteSet({"pon_stat"}) /\ IsFiniteSet({"handle_tasks"})
      /\ IsFiniteSet({"pon_stat", "pon_cfg"})
      /\ IsFiniteSet({"handle_tasks", "query_onus"})
  <2>1. IsFiniteSet({"pon_stat"}) /\ IsFiniteSet({"handle_tasks"})
    BY FS_Singleton
  <2>2. /\ {"pon_stat", "pon_cfg"} = {"pon_stat"} \cup {"pon_cfg"}
        /\ {"handle_tasks", "query_onus"} = {"handle_tasks"} \cup {"query_onus"}
    OBVIOUS
  <2>3. /\ IsFiniteSet({"pon_stat"} \cup {"pon_cfg"})
        /\ IsFiniteSet({"handle_tasks"} \cup {"query_onus"})
    BY <2>1, FS_AddElement
  <2> QED BY <2>1, <2>2, <2>3, FS_EmptySet
<1> QED BY <1>1, <1>2, FS_CardinalityType DEF Namespaces, PpltTimers

LEMMA InvInit == Init => IInv
<1> SUFFICES ASSUME Init PROVE IInv
  OBVIOUS
<1>1. TypeOK
  <2>1. /\ dm \in BOOLEAN /\ storage \in BOOLEAN /\ timer \in BOOLEAN
        /\ name \in BOOLEAN /\ so \in BOOLEAN
        /\ moduleName \in BOOLEAN /\ moduleError \in BOOLEAN
        /\ missed \in BOOLEAN /\ moved \in BOOLEAN
    BY Zenon DEF Init
  <2>2. heap \in Nat /\ starts \in 0 .. MaxStarts
    BY StartsAssumption DEF Init, StartsAssumption
  <2>3. call \in [at : Places, made : BOOLEAN]
    BY DEF Init, Places
  <2> QED BY <2>1, <2>2, <2>3 DEF Init, TypeOK, Places
<1>2. FreedOnce
  BY CardFacts DEF Init, FreedOnce, Pointers, Ptr
<1>3. NothingLeft /\ Served /\ StartedOrShown /\ PasswordFound
  BY DEF Init, NothingLeft, Served, VendorRuns, StartedOrShown, PasswordFound
<1>4. DownIsEmpty /\ TimersGone /\ OpenedOnce /\ OpenIsServed /\ Outcome /\ FolderByDisk
  BY DEF Init, DownIsEmpty, TimersGone, OpenedOnce, OpenIsServed, Outcome, FolderByDisk
<1>5. CallsReachModule /\ FirstCalls
  BY DEF Init, CallsReachModule, FirstCalls
<1> QED BY <1>1, <1>2, <1>3, <1>4, <1>5 DEF IInv

LEMMA InvStart ==
  ASSUME IInv, Start
  PROVE  IInv'
<1> USE DEF Start
<1>1. PICK etc \in BOOLEAN, component \in BOOLEAN :
        /\ persistency_init(etc)
        /\ upgr_persistency_init(component)
        /\ disk' = [disk EXCEPT !.etc = @ \/ etc,
                                !.component = @ \/ (disk.cfg /\ component)]
  OBVIOUS
<1>2. PICK registered \in {{}, {"pon_stat"}, Namespaces} :
        mod_module_mgmt_init(registered)
  OBVIOUS
<1>3. /\ pc = "down" /\ dm' = TRUE /\ reason' = "start" /\ timer' \in BOOLEAN
      /\ starts < MaxStarts /\ starts' = starts + 1
      /\ UNCHANGED <<tasks, pplt, so, saved, missed, moved, call>>
      /\ heap' = heap + Ptr(storage') + Ptr(upgr' # "none") + Ptr(timer')
                   + Cardinality(namespaces')
  OBVIOUS
<1> HIDE DEF Start
<1>4. disk \in Disk /\ disk' \in Disk /\ disk'.cfg = disk.cfg
  BY <1>1 DEF IInv, TypeOK, Disk
<1>5. storage' \in BOOLEAN /\ upgr' \in {"none", "cfg", "etc"}
  BY <1>1, <1>4 DEF persistency_init, upgr_persistency_init, Disk
<1>6. upgr' # "none" => (disk.cfg <=> upgr' = "cfg")
  BY <1>1, <1>4 DEF upgr_persistency_init, Disk
<1>7. /\ namespaces' = registered /\ pc' \in {"opening", "cleanup"}
      /\ name' \in BOOLEAN /\ moduleName' = name' /\ moduleError' \in BOOLEAN
      /\ rc' \in {0, 1} /\ (rc' = 0 <=> moduleError')
      /\ pc' = "opening" => registered = Namespaces /\ name' /\ ~moduleError'
  <2>1. /\ namespaces' = registered
        /\ name' = (registered = Namespaces /\ disk.modules > 0)
        /\ moduleName' = name'
        /\ pc' = IF registered = Namespaces /\ disk.modules = 1
                 THEN "opening" ELSE "cleanup"
        /\ moduleError' = (registered = Namespaces /\ disk.modules # 1)
        /\ rc' = IF moduleError' THEN 0 ELSE 1
    BY <1>2 DEF mod_module_mgmt_init
  <2>2. name' \in BOOLEAN /\ moduleError' \in BOOLEAN
    BY <2>1, Zenon
  <2>3. pc' = "opening" => registered = Namespaces /\ name' /\ ~moduleError'
    <3>1. disk.modules = 1 => disk.modules > 0
      OBVIOUS
    <3> QED BY <2>1, <3>1
  <2> QED BY <2>1, <2>2, <2>3
<1>8. FreedOnce'
  <2>1. heap = Cardinality(pplt) + Ptr(so)
    BY <1>3, CardFacts DEF IInv, DownIsEmpty, FreedOnce, Pointers, Ptr, TypeOK
  <2>2. Cardinality(pplt) = 0 /\ Cardinality(namespaces') \in Nat
    BY <1>2, <1>3, <1>7, CardFacts DEF IInv, DownIsEmpty
  <2> QED BY <1>3, <2>1, <2>2 DEF FreedOnce, Pointers, Ptr
<1>9. TypeOK'
  <2>1. heap' \in Nat
    BY <1>2, <1>3, <1>5, <1>7, CardFacts DEF IInv, TypeOK, Ptr
  <2>2. starts' \in 0 .. MaxStarts
    BY <1>3, StartsAssumption DEF IInv, TypeOK, StartsAssumption
  <2> QED BY <1>2, <1>3, <1>4, <1>5, <1>7, <2>1, <2>2 DEF IInv, TypeOK, Places
<1>10. ~so /\ pplt = {}
  BY <1>3 DEF IInv, DownIsEmpty
<1>11. NothingLeft' /\ Served' /\ StartedOrShown' /\ PasswordFound'
  BY <1>3, <1>7, <1>10
  DEF IInv, NothingLeft, Served, VendorRuns, StartedOrShown, PasswordFound
<1>12. DownIsEmpty' /\ TimersGone' /\ OpenedOnce' /\ OpenIsServed' /\ Outcome'
  BY <1>3, <1>7, <1>10 DEF DownIsEmpty, TimersGone, OpenedOnce, OpenIsServed, Outcome
<1>13. FolderByDisk'
  BY <1>3, <1>4, <1>6 DEF IInv, FolderByDisk
<1>14. CallsReachModule' /\ FirstCalls'
  BY <1>3, <1>7 DEF IInv, CallsReachModule, FirstCalls
<1> QED BY <1>8, <1>9, <1>11, <1>12, <1>13, <1>14 DEF IInv

LEMMA InvOpened ==
  ASSUME IInv, NEW ok \in BOOLEAN, Opened(ok)
  PROVE  IInv'
<1>1. /\ pc = "opening" /\ so' = ok /\ heap' = heap + Ptr(ok)
      /\ moduleError' = ~ok /\ rc' = IF ok THEN 1 ELSE 0
      /\ pc' = IF ok THEN "max_onus" ELSE "cleanup"
      /\ UNCHANGED <<reason, dm, storage, upgr, timer, tasks, pplt, namespaces,
                     name, moduleName, disk, saved, missed, moved, call, starts>>
  BY DEF Opened, folders, outside
<1>2. ~so /\ pplt = {} /\ dm /\ namespaces = Namespaces /\ name /\ moduleName
  BY <1>1 DEF IInv, TimersGone, OpenedOnce, OpenIsServed, Outcome
<1>3. moduleError' \in BOOLEAN
  BY <1>1, Zenon
<1>4. TypeOK'
  <2>1. heap' \in Nat
    BY <1>1 DEF IInv, TypeOK, Ptr
  <2> QED BY <1>1, <1>3, <2>1 DEF IInv, TypeOK, Places
<1>5. FreedOnce'
  <2>1. heap' = heap + Ptr(so') /\ Ptr(so) = 0
    BY <1>1, <1>2 DEF Ptr
  <2>2. Pointers' = Pointers - Ptr(so) + Ptr(so')
    BY <1>1, <1>2, CardFacts DEF IInv, TypeOK, Pointers, Ptr
  <2>3. Pointers \in Nat /\ Ptr(so') \in Nat
    BY DEF IInv, TypeOK, FreedOnce, Ptr
  <2> QED BY <2>1, <2>2, <2>3 DEF IInv, FreedOnce
<1>6. NothingLeft' /\ Served' /\ StartedOrShown' /\ PasswordFound'
  BY <1>1, <1>2
  DEF IInv, NothingLeft, Served, VendorRuns, StartedOrShown, PasswordFound
<1>7. DownIsEmpty' /\ TimersGone' /\ OpenedOnce' /\ OpenIsServed' /\ Outcome'
  BY <1>1, <1>2 DEF DownIsEmpty, TimersGone, OpenedOnce, OpenIsServed, Outcome
<1>8. FolderByDisk'
  BY <1>1 DEF IInv, FolderByDisk
<1>9. CallsReachModule' /\ FirstCalls'
  BY <1>1 DEF IInv, CallsReachModule, FirstCalls
<1> QED BY <1>4, <1>5, <1>6, <1>7, <1>8, <1>9 DEF IInv

LEMMA InvPpltInit ==
  ASSUME IInv, pplt_dm_init
  PROVE  IInv'
<1>1. /\ pc = "max_onus" /\ pplt' \in {{}, {"handle_tasks"}, PpltTimers}
      /\ heap' = heap + Cardinality(pplt')
      /\ IF pplt' = PpltTimers THEN rc' = 0 /\ pc' = "running"
                               ELSE rc' = 1 /\ pc' = "cleanup"
      /\ UNCHANGED <<reason, dm, storage, upgr, timer, tasks, namespaces, name, so,
                     moduleName, moduleError, disk, saved, missed, moved, call, starts>>
  BY DEF pplt_dm_init, folders, outside, module
<1>2. so /\ pplt = {} /\ dm /\ namespaces = Namespaces /\ name /\ moduleName /\ ~moduleError
  BY <1>1 DEF IInv, TimersGone, OpenedOnce, OpenIsServed, Outcome
<1>3. Cardinality(pplt) = 0 /\ Cardinality(pplt') \in Nat
  BY <1>1, <1>2, CardFacts
<1>4. TypeOK'
  <2>1. heap' \in Nat
    BY <1>1, <1>3 DEF IInv, TypeOK
  <2> QED BY <1>1, <2>1 DEF IInv, TypeOK, Places
<1>5. FreedOnce'
  <2>1. Cardinality(namespaces) \in Nat
    BY CardFacts DEF IInv, TypeOK
  <2> QED BY <1>1, <1>3, <2>1 DEF IInv, FreedOnce, Pointers, Ptr
<1>6. NothingLeft' /\ Served' /\ StartedOrShown' /\ PasswordFound'
  BY <1>1, <1>2
  DEF IInv, NothingLeft, Served, VendorRuns, StartedOrShown, PasswordFound
<1>7. DownIsEmpty' /\ TimersGone' /\ OpenedOnce' /\ OpenIsServed' /\ Outcome'
  BY <1>1, <1>2 DEF DownIsEmpty, TimersGone, OpenedOnce, OpenIsServed, Outcome
<1>8. FolderByDisk'
  BY <1>1 DEF IInv, FolderByDisk
<1>9. CallsReachModule' /\ FirstCalls'
  BY <1>1 DEF IInv, CallsReachModule, FirstCalls
<1> QED BY <1>4, <1>5, <1>6, <1>7, <1>8, <1>9 DEF IInv

LEMMA InvStop ==
  ASSUME IInv, Stop
  PROVE  IInv'
<1>1. /\ pc \in {"running", "idle"} /\ reason' = "stop" /\ rc' = 0 /\ pc' = "cleanup"
      /\ UNCHANGED <<dm, storage, upgr, timer, tasks, pplt, namespaces, name, so,
                     moduleName, moduleError, heap, disk, saved, missed, moved, call, starts>>
  BY DEF Stop, statics, folders, outside, module
<1>2. TypeOK' /\ FreedOnce'
  BY <1>1 DEF IInv, TypeOK, Places, FreedOnce, Pointers
<1>3. NothingLeft' /\ Served' /\ StartedOrShown' /\ PasswordFound'
  BY <1>1
  DEF IInv, NothingLeft, Served, VendorRuns, StartedOrShown, PasswordFound
<1>4. DownIsEmpty' /\ TimersGone' /\ OpenedOnce' /\ OpenIsServed' /\ Outcome' /\ FolderByDisk'
  BY <1>1
  DEF IInv, DownIsEmpty, TimersGone, OpenedOnce, OpenIsServed, Outcome, FolderByDisk
<1>5. CallsReachModule' /\ FirstCalls'
  BY <1>1 DEF IInv, CallsReachModule, FirstCalls
<1> QED BY <1>2, <1>3, <1>4, <1>5 DEF IInv

LEMMA InvCleanup ==
  ASSUME IInv, Cleanup
  PROVE  IInv'
<1>1. /\ pc = "cleanup" /\ pplt' = {} /\ tasks' = {} /\ timer' = FALSE
      /\ heap' = heap - Cardinality(pplt) - Ptr(timer)
      /\ pc' = IF so THEN "closing" ELSE "closed"
      /\ UNCHANGED <<reason, rc, dm, storage, upgr, namespaces, name, so,
                     moduleName, moduleError, disk, saved, missed, moved, call, starts>>
  BY DEF Cleanup, folders, outside, module
<1>2. Cardinality(pplt) \in Nat /\ Cardinality(pplt') = 0 /\ Cardinality(namespaces) \in Nat
  BY <1>1, CardFacts DEF IInv, TypeOK
<1>3. /\ heap' = Ptr(storage) + Ptr(upgr # "none") + Cardinality(namespaces) + Ptr(so)
      /\ heap' \in Nat
  BY <1>1, <1>2 DEF IInv, TypeOK, FreedOnce, Pointers, Ptr
<1>4. FreedOnce'
  BY <1>1, <1>2, <1>3 DEF IInv, TypeOK, FreedOnce, Pointers, Ptr
<1>5. TypeOK'
  <2>1. timer' \in BOOLEAN
    BY <1>1, Zenon
  <2> QED BY <1>1, <1>3, <2>1 DEF IInv, TypeOK, Places
<1>6. NothingLeft' /\ Served' /\ StartedOrShown' /\ PasswordFound'
  BY <1>1
  DEF IInv, OpenIsServed, NothingLeft, Served, VendorRuns, StartedOrShown, PasswordFound
<1>7. DownIsEmpty' /\ TimersGone' /\ OpenedOnce' /\ OpenIsServed' /\ Outcome' /\ FolderByDisk'
  BY <1>1
  DEF IInv, DownIsEmpty, TimersGone, OpenedOnce, OpenIsServed, Outcome, FolderByDisk
<1>8. CallsReachModule' /\ FirstCalls'
  BY <1>1 DEF IInv, CallsReachModule, FirstCalls
<1> QED BY <1>4, <1>5, <1>6, <1>7, <1>8 DEF IInv

LEMMA InvClosed ==
  ASSUME IInv, Closed
  PROVE  IInv'
<1>1. /\ pc = "closing" /\ so' = FALSE /\ heap' = heap - 1 /\ pc' = "closed"
      /\ UNCHANGED <<reason, rc, dm, storage, upgr, timer, tasks, pplt, namespaces,
                     name, moduleName, moduleError, disk, saved, missed, moved, call, starts>>
  BY DEF Closed, folders, outside
<1>2. so
  BY <1>1 DEF IInv, OpenedOnce
<1>3. Cardinality(pplt) \in Nat /\ Cardinality(namespaces) \in Nat
  BY CardFacts DEF IInv, TypeOK
<1>4. FreedOnce' /\ heap' \in Nat
  BY <1>1, <1>2, <1>3 DEF IInv, TypeOK, FreedOnce, Pointers, Ptr
<1>5. TypeOK'
  <2>1. so' \in BOOLEAN
    BY <1>1, Zenon
  <2> QED BY <1>1, <1>4, <2>1 DEF IInv, TypeOK, Places
<1>6. NothingLeft' /\ Served' /\ StartedOrShown' /\ PasswordFound'
  BY <1>1
  DEF IInv, NothingLeft, Served, VendorRuns, StartedOrShown, PasswordFound
<1>7. DownIsEmpty' /\ TimersGone' /\ OpenedOnce' /\ OpenIsServed' /\ Outcome' /\ FolderByDisk'
  BY <1>1
  DEF IInv, DownIsEmpty, TimersGone, OpenedOnce, OpenIsServed, Outcome, FolderByDisk
<1>8. CallsReachModule' /\ FirstCalls'
  BY <1>1 DEF IInv, CallsReachModule, FirstCalls
<1> QED BY <1>4, <1>5, <1>6, <1>7, <1>8 DEF IInv

LEMMA InvCleaned ==
  ASSUME IInv, Cleaned
  PROVE  IInv'
<1>1. /\ pc = "closed" /\ namespaces' = {} /\ name' = FALSE /\ storage' = FALSE
      /\ upgr' = "none"
      /\ heap' = heap - Cardinality(namespaces) - Ptr(storage) - Ptr(upgr # "none")
      /\ dm' = (dm /\ reason = "start")
      /\ pc' = IF reason = "stop" THEN "stopped" ELSE "idle"
      /\ UNCHANGED <<reason, rc, timer, tasks, pplt, so, moduleName, moduleError,
                     disk, saved, missed, moved, call, starts>>
  BY DEF Cleaned, persistency_cleanup, outside
<1>2. ~so /\ ~timer /\ pplt = {} /\ tasks = {}
  BY <1>1 DEF IInv, OpenedOnce, TimersGone
<1>3. /\ Cardinality(pplt) = 0 /\ Cardinality(namespaces) \in Nat
      /\ Cardinality(namespaces') = 0
  BY <1>1, <1>2, CardFacts DEF IInv, TypeOK
<1>4. FreedOnce' /\ heap' \in Nat
  BY <1>1, <1>2, <1>3 DEF IInv, TypeOK, FreedOnce, Pointers, Ptr
<1>5. TypeOK'
  <2>1. name' \in BOOLEAN /\ storage' \in BOOLEAN /\ dm' \in BOOLEAN
    BY <1>1, Zenon
  <2> QED BY <1>1, <1>4, <2>1 DEF IInv, TypeOK, Places
<1>6. NothingLeft' /\ Served' /\ StartedOrShown' /\ PasswordFound'
  <2>1. pc' = "idle" => (rc = 0 <=> moduleError)
    BY <1>1 DEF IInv, TypeOK, Outcome
  <2> QED
    BY <1>1, <1>2, <2>1
    DEF IInv, NothingLeft, Served, VendorRuns, StartedOrShown, PasswordFound
<1>7. DownIsEmpty' /\ TimersGone' /\ OpenedOnce' /\ OpenIsServed' /\ Outcome'
  BY <1>1, <1>2
  DEF IInv, TypeOK, DownIsEmpty, TimersGone, OpenedOnce, OpenIsServed, Outcome
<1>8. FolderByDisk'
  BY <1>1 DEF IInv, FolderByDisk
<1>9. CallsReachModule' /\ FirstCalls'
  BY <1>1 DEF IInv, CallsReachModule, FirstCalls
<1> QED BY <1>4, <1>5, <1>6, <1>7, <1>8, <1>9 DEF IInv

LEMMA InvEnded ==
  ASSUME IInv, Ended
  PROVE  IInv'
<1>1. /\ pc' = "down" /\ dm' = FALSE /\ storage' = FALSE /\ upgr' = "none"
      /\ timer' = FALSE /\ tasks' = {} /\ pplt' = {} /\ namespaces' = {}
      /\ name' = FALSE /\ so' = FALSE /\ heap' = 0
      /\ moduleName' = FALSE /\ moduleError' = FALSE
      /\ call' = [at |-> "down", made |-> FALSE]
      /\ UNCHANGED <<reason, rc, saved, missed, starts>>
  BY DEF Ended
<1>2. PICK cfg \in BOOLEAN :
        /\ disk' = [disk EXCEPT !.cfg = cfg]
        /\ moved' = (moved \/ (saved # "none" /\ cfg # disk.cfg))
  BY DEF Ended
<1>3. /\ disk' \in Disk /\ disk'.cfg = cfg /\ moved' \in BOOLEAN
      /\ (moved => moved') /\ (saved # "none" /\ ~moved' => cfg = disk.cfg)
  <2>1. disk' \in Disk /\ disk'.cfg = cfg
    BY <1>2 DEF IInv, TypeOK, Disk
  <2> QED BY <1>2, <2>1, Zenon
<1>4. TypeOK'
  <2>1. /\ dm' \in BOOLEAN /\ storage' \in BOOLEAN /\ timer' \in BOOLEAN
        /\ name' \in BOOLEAN /\ so' \in BOOLEAN
        /\ moduleName' \in BOOLEAN /\ moduleError' \in BOOLEAN
    BY <1>1, Zenon
  <2> QED BY <1>1, <1>3, <2>1 DEF IInv, TypeOK, Places
<1>5. FreedOnce'
  BY <1>1, CardFacts DEF FreedOnce, Pointers, Ptr
<1>6. NothingLeft' /\ Served' /\ StartedOrShown' /\ PasswordFound'
  BY <1>1, <1>3
  DEF IInv, NothingLeft, Served, VendorRuns, StartedOrShown, PasswordFound
<1>7. DownIsEmpty' /\ TimersGone' /\ OpenedOnce' /\ OpenIsServed' /\ Outcome'
  BY <1>1 DEF DownIsEmpty, TimersGone, OpenedOnce, OpenIsServed, Outcome
<1>8. FolderByDisk'
  BY <1>1, <1>3 DEF IInv, FolderByDisk
<1>9. CallsReachModule' /\ FirstCalls'
  BY <1>1 DEF IInv, CallsReachModule, FirstCalls
<1> QED BY <1>4, <1>5, <1>6, <1>7, <1>8, <1>9 DEF IInv

\* The vendor module and the users change neither what is held nor where the
\* entry point is.
LEMMA InvCalls ==
  ASSUME IInv,
         \/ \E o \in Objects : AddEnabled(o) \/ Enabled(o)
         \/ RestorePassword \/ SavePassword \/ UNCHANGED vars
  PROVE  IInv'
<1>1. UNCHANGED <<pc, reason, rc, dm, storage, upgr, timer, pplt, namespaces, name,
                  so, moduleName, moduleError, heap, disk, moved, call, starts>>
  BY DEF AddEnabled, Enabled, RestorePassword, SavePassword, vars, statics, folders,
         module, outside
<1>2. /\ tasks' \subseteq Objects
      /\ pc \in {"closing", "closed", "idle", "stopped"} => tasks' = tasks
  BY DEF IInv, TypeOK, TimersGone, AddEnabled, rth_schedule_enable, VendorCalls,
         VendorRuns, Enabled, RestorePassword, SavePassword, vars, statics
<1>3. /\ saved' \in {"none", "cfg", "etc"}
      /\ saved' # saved => upgr # "none" /\ saved' = upgr
  BY DEF IInv, TypeOK, AddEnabled, Enabled, RestorePassword, SavePassword, vars, outside
<1>4. /\ missed' \in BOOLEAN
      /\ missed' => missed \/ (upgr # "none" /\ saved \notin {"none", upgr})
  <2>1. CASE RestorePassword
    BY <2>1, Zenon DEF RestorePassword
  <2>2. CASE ~RestorePassword
    BY <2>2 DEF IInv, TypeOK, AddEnabled, Enabled, SavePassword, vars, outside
  <2> QED BY <2>1, <2>2
<1>5. upgr # "none" /\ saved \notin {"none", upgr} => moved
  BY DEF IInv, TypeOK, FolderByDisk
<1>6. TypeOK' /\ FreedOnce'
  BY <1>1, <1>2, <1>3, <1>4 DEF IInv, TypeOK, FreedOnce, Pointers
<1>7. NothingLeft' /\ Served' /\ StartedOrShown' /\ PasswordFound'
  BY <1>1, <1>2, <1>4, <1>5
  DEF IInv, NothingLeft, Served, VendorRuns, StartedOrShown, PasswordFound
<1>8. DownIsEmpty' /\ TimersGone' /\ OpenedOnce' /\ OpenIsServed' /\ Outcome'
  BY <1>1, <1>2
  DEF IInv, DownIsEmpty, TimersGone, OpenedOnce, OpenIsServed, Outcome
<1>9. FolderByDisk'
  BY <1>1, <1>3 DEF IInv, FolderByDisk
<1>10. CallsReachModule' /\ FirstCalls'
  BY <1>1 DEF IInv, CallsReachModule, FirstCalls
<1> QED BY <1>6, <1>7, <1>8, <1>9, <1>10 DEF IInv

\* A call to the vendor module, of the event loop or of the entry point.
LEMMA InvCall ==
  ASSUME IInv, call_pon_ctrl_function_common
  PROVE  IInv'
<1>1. UNCHANGED <<pc, reason, rc, dm, storage, upgr, timer, tasks, pplt, namespaces,
                  name, so, moduleName, moduleError, heap, disk, saved, missed, moved,
                  starts>>
  BY DEF call_pon_ctrl_function_common, statics, folders, module
<1>2. PICK made \in BOOLEAN :
        /\ pc # "opening" => made = mod_get_vendor_module_loaded
        /\ call' = [at |-> pc, made |-> made]
  BY DEF call_pon_ctrl_function_common
<1>3. pc \in {"opening", "max_onus", "running", "closing", "idle", "stopped"}
  BY DEF call_pon_ctrl_function_common, VendorCalls, VendorRuns
<1>4. /\ call'.at = pc /\ call'.made = made
      /\ call' \in [at : Places, made : BOOLEAN]
  BY <1>2 DEF IInv, TypeOK
<1>5. CallsReachModule'
  <2>1. CASE pc = "opening"
    BY <1>1, <1>4, <2>1 DEF CallsReachModule
  <2>2. CASE pc # "opening"
    <3>1. made = (name /\ so)
      BY <1>2, <2>2 DEF mod_get_vendor_module_loaded
    <3>2. pc \in {"max_onus", "running"} => name /\ so
      BY DEF IInv, OpenedOnce, Outcome
    <3>3. so => pc \in {"max_onus", "running", "closing"} /\ ~moduleError
      BY <1>3, <2>2 DEF IInv, OpenedOnce, StartedOrShown
    <3> QED BY <1>1, <1>4, <3>1, <3>2, <3>3 DEF CallsReachModule
  <2> QED BY <2>1, <2>2
<1>6. FirstCalls'
  BY <1>1, <1>3, <1>4 DEF FirstCalls
<1>7. TypeOK' /\ FreedOnce'
  BY <1>1, <1>4 DEF IInv, TypeOK, FreedOnce, Pointers
<1>8. NothingLeft' /\ Served' /\ StartedOrShown' /\ PasswordFound'
  BY <1>1
  DEF IInv, NothingLeft, Served, VendorRuns, StartedOrShown, PasswordFound
<1>9. DownIsEmpty' /\ TimersGone' /\ OpenedOnce' /\ OpenIsServed' /\ Outcome' /\ FolderByDisk'
  BY <1>1
  DEF IInv, DownIsEmpty, TimersGone, OpenedOnce, OpenIsServed, Outcome, FolderByDisk
<1> QED BY <1>5, <1>6, <1>7, <1>8, <1>9 DEF IInv

LEMMA InvStep == IInv /\ [Next]_vars => IInv'
BY InvStart, InvOpened, InvPpltInit, InvStop, InvCleanup, InvClosed, InvCleaned,
   InvEnded, InvCalls, InvCall
DEF Next, Continue

LEMMA Invariant == Spec => []IInv
BY InvInit, InvStep, PTL DEF Spec
-----------------------------------------------------------------------------
\* Every variable keeps its range.
THEOREM TypeCorrect == Spec => []TypeOK
<1>1. IInv => TypeOK
  BY DEF IInv
<1> QED BY <1>1, Invariant, PTL

\* do_cleanup() frees what START took, and nothing twice, also when it runs at
\* STOP for the second time after a start that failed.
THEOREM EverythingFreedOnce == Spec => []FreedOnce
<1>1. IInv => FreedOnce
  BY DEF IInv
<1> QED BY <1>1, Invariant, PTL

\* Nothing is left after do_cleanup(), although the vendor module may call
\* back while it is closed.
THEOREM CleanupComplete == Spec => []NothingLeft
<1>1. IInv => NothingLeft
  BY DEF IInv
<1> QED BY <1>1, Invariant, PTL

\* Whenever the vendor module runs, mod_module_mgmt_init() has registered what
\* it may call.
THEOREM VendorServed == Spec => []Served
<1>1. IInv => Served
  BY DEF IInv
<1> QED BY <1>1, Invariant, PTL

\* START succeeds with everything running or with XPON.ModuleError set.
THEOREM FailureShown == Spec => []StartedOrShown
<1>1. IInv => StartedOrShown
  BY DEF IInv
<1> QED BY <1>1, Invariant, PTL

\* A call to the vendor module goes out while that is open, and neither after a
\* start that failed nor after STOP: mod_get_vendor_module_loaded() returns NULL.
THEOREM CallsReach == Spec => []CallsReachModule
<1>1. IInv => CallsReachModule
  BY DEF IInv
<1> QED BY <1>1, Invariant, PTL

\* A saved password is looked for where it was saved, unless /cfg/system/ came
\* or went.
THEOREM PasswordNotMissed == Spec => []PasswordFound
<1>1. IInv => PasswordFound
  BY DEF IInv
<1> QED BY <1>1, Invariant, PTL
==============================================================================
