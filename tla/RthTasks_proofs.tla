--------------------------- MODULE RthTasks_proofs ---------------------------
(***************************************************************************)
(* Proofs about RthTasks, for any objects and paths, any number of checks  *)
(* and of calls back: the loop stays inside the list, no task is left      *)
(* without timer or doubled, a pass looks at every task and amounts to one *)
(* step, and the list implements the safety part of EnableRequests.        *)
(***************************************************************************)
EXTENDS RthTasks, SequenceTheorems, TLAPS

\* The positions of the requests: a task that is carried out is still listed.
Open == DOMAIN tasks \ (IF pc = "enable" THEN {pos} ELSE {})

\* Unless this is the last turn, there is a next task.
NextInList == pos # 0 /\ ~final => pos < Len(tasks)

\* Only one object is disabled at a time.
OneDisabled == \A o, p \in disabled : o = p

\* What is requested of EnableRequests is what is in the list, but for the
\* object that is being disabled and still listed.
WantedListed == wanted = {tasks[k].path : k \in Open} \ disabled

IInv ==
  /\ TypeOK /\ NextInList /\ TimerOrPass /\ OneTaskPerObject
  /\ OneDisabled /\ WantedListed
-----------------------------------------------------------------------------
\* Sequences of tasks.

LEMMA SeqFacts ==
  ASSUME NEW T, NEW s \in Seq(T)
  PROVE  /\ Len(s) \in Nat /\ DOMAIN s = 1 .. Len(s)
         /\ \A k \in DOMAIN s : s[k] \in T
         /\ s # <<>> <=> Len(s) > 0
BY LenProperties, ElementOfSeq, EmptySeq

LEMMA RemoveAtFacts ==
  ASSUME NEW T, NEW s \in Seq(T), NEW i \in 1 .. Len(s)
  PROVE  /\ RemoveAt(s, i) \in Seq(T)
         /\ Len(RemoveAt(s, i)) = Len(s) - 1
         /\ \A k \in 1 .. Len(s) - 1 :
              RemoveAt(s, i)[k] = IF k < i THEN s[k] ELSE s[k + 1]
<1> DEFINE a == SubSeq(s, 1, i - 1)
           b == SubSeq(s, i + 1, Len(s))
<1>1. Len(s) \in Nat /\ i - 1 \in Nat /\ i + 1 \in Nat
  BY LenProperties
<1>2. /\ a \in Seq(T) /\ Len(a) = i - 1
      /\ \A k \in 1 .. i - 1 : a[k] = s[k]
  BY <1>1, SubSeqProperties
<1>3. /\ b \in Seq(T) /\ Len(b) = Len(s) - i
      /\ \A k \in 1 .. Len(s) - i : b[k] = s[i + k]
  BY <1>1, SubSeqProperties
<1> HIDE DEF a, b
<1>4. /\ a \o b \in Seq(T) /\ Len(a \o b) = Len(s) - 1
      /\ \A k \in 1 .. Len(s) - 1 :
           (a \o b)[k] = IF k <= i - 1 THEN a[k] ELSE b[k - (i - 1)]
  <2>1. Len(a) + Len(b) = Len(s) - 1
    BY <1>1, <1>2, <1>3
  <2>2. /\ a \o b \in Seq(T) /\ Len(a \o b) = Len(a) + Len(b)
        /\ \A k \in 1 .. Len(a) + Len(b) :
             (a \o b)[k] = IF k <= Len(a) THEN a[k] ELSE b[k - Len(a)]
    BY <1>2, <1>3, ConcatProperties
  <2> QED BY <2>1, <2>2, <1>2
<1>5. ASSUME NEW k \in 1 .. Len(s) - 1
      PROVE  (a \o b)[k] = IF k < i THEN s[k] ELSE s[k + 1]
  <2>1. CASE k < i
    BY <2>1, <1>1, <1>2, <1>4
  <2>2. CASE ~(k < i)
    <3>1. k - (i - 1) \in 1 .. Len(s) - i /\ i + (k - (i - 1)) = k + 1
      BY <2>2, <1>1
    <3> QED BY <3>1, <2>2, <1>1, <1>3, <1>4
  <2> QED BY <2>1, <2>2
<1> QED BY <1>4, <1>5 DEF RemoveAt, a, b
\* What is left when the task at position k is taken out.
LEMMA TakenOut ==
  ASSUME tasks \in Seq(Task), NEW k \in DOMAIN tasks, OneTaskPerObject,
         tasks' = RemoveAt(tasks, k)
  PROVE  /\ tasks' \in Seq(Task) /\ Len(tasks') = Len(tasks) - 1
         /\ OneTaskPerObject'
         /\ {tasks'[j].path : j \in DOMAIN tasks'}
              = {tasks[j].path : j \in DOMAIN tasks \ {k}}
         /\ tasks[k].path \notin {tasks[j].path : j \in DOMAIN tasks \ {k}}
<1>1. Len(tasks) \in Nat /\ DOMAIN tasks = 1 .. Len(tasks) /\ k \in 1 .. Len(tasks)
  BY SeqFacts
<1>2. /\ tasks' \in Seq(Task) /\ Len(tasks') = Len(tasks) - 1
      /\ \A j \in 1 .. Len(tasks) - 1 :
           tasks'[j] = IF j < k THEN tasks[j] ELSE tasks[j + 1]
  BY <1>1, RemoveAtFacts
<1>3. DOMAIN tasks' = 1 .. Len(tasks) - 1
  BY <1>2, SeqFacts
<1>4. OneTaskPerObject'
  <2> DEFINE old(j) == IF j < k THEN j ELSE j + 1
  <2>1. \A j \in DOMAIN tasks' : old(j) \in DOMAIN tasks /\ tasks'[j] = tasks[old(j)]
    BY <1>1, <1>2, <1>3
  <2>2. \A i, j \in DOMAIN tasks' : old(i) = old(j) => i = j
    BY <1>1, <1>3
  <2> HIDE DEF old
  <2> QED BY <2>1, <2>2 DEF OneTaskPerObject
<1>5. ASSUME NEW j \in DOMAIN tasks'
      PROVE  \E i \in DOMAIN tasks \ {k} : tasks'[j].path = tasks[i].path
  <2>1. CASE j < k
    BY <2>1, <1>1, <1>2, <1>3
  <2>2. CASE ~(j < k)
    <3>1. j + 1 \in DOMAIN tasks \ {k} /\ tasks'[j] = tasks[j + 1]
      BY <2>2, <1>1, <1>2, <1>3
    <3> QED BY <3>1
  <2> QED BY <2>1, <2>2
<1>6. ASSUME NEW i \in DOMAIN tasks \ {k}
      PROVE  \E j \in DOMAIN tasks' : tasks'[j].path = tasks[i].path
  <2>1. CASE i < k
    <3>1. i \in DOMAIN tasks' /\ tasks'[i] = tasks[i]
      BY <2>1, <1>1, <1>2, <1>3
    <3> QED BY <3>1
  <2>2. CASE ~(i < k)
    <3>1. i - 1 \in DOMAIN tasks' /\ tasks'[i - 1] = tasks[i]
      BY <2>2, <1>1, <1>2, <1>3
    <3> QED BY <3>1
  <2> QED BY <2>1, <2>2
<1>7. tasks[k].path \notin {tasks[j].path : j \in DOMAIN tasks \ {k}}
  BY DEF OneTaskPerObject
<1>8. {tasks'[j].path : j \in DOMAIN tasks'}
        = {tasks[j].path : j \in DOMAIN tasks \ {k}}
  BY <1>5, <1>6
<1> QED BY <1>2, <1>4, <1>7, <1>8

\* What becomes of the list when an object is requested.
LEMMA Requested ==
  ASSUME tasks \in Seq(Task), OneTaskPerObject, NEW o \in Object,
         rth_schedule_enable(o), ~Scheduled(o)
  PROVE  /\ tasks' \in Seq(Task) /\ Len(tasks') = Len(tasks) + 1
         /\ OneTaskPerObject' /\ timer' = TRUE
         /\ DOMAIN tasks' = DOMAIN tasks \cup {Len(tasks) + 1}
         /\ \A k \in DOMAIN tasks : tasks'[k] = tasks[k]
         /\ Len(tasks) + 1 \notin DOMAIN tasks
         /\ tasks'[Len(tasks) + 1].path = o
<1> DEFINE t == [path |-> o, cntr |-> 0]
<1>1. t \in Task /\ tasks' = Append(tasks, t) /\ timer' = TRUE
  BY BoundAssumption DEF rth_schedule_enable, Task, BoundAssumption
<1>2. Len(tasks) \in Nat /\ DOMAIN tasks = 1 .. Len(tasks)
  BY SeqFacts
<1>3. /\ tasks' \in Seq(Task) /\ Len(tasks') = Len(tasks) + 1
      /\ \A k \in 1 .. Len(tasks) : tasks'[k] = tasks[k]
      /\ tasks'[Len(tasks) + 1] = t
  BY <1>1, AppendProperties
<1>4. DOMAIN tasks' = 1 .. Len(tasks) + 1
  BY <1>3, SeqFacts
<1>5. \A k \in DOMAIN tasks : tasks[k].path # o
  BY ObjectAssumption DEF Scheduled, ObjectAssumption
<1>6. OneTaskPerObject'
  BY <1>2, <1>3, <1>4, <1>5 DEF OneTaskPerObject
<1> QED BY <1>1, <1>2, <1>3, <1>4, <1>6
-----------------------------------------------------------------------------
\* The end of a turn, whatever it did to the list.
LEMMA Advanced ==
  ASSUME TypeOK, pos # 0, NEW next \in Nat \ {0}, Advance(next),
         tasks' \in Seq(Task), ~final => next <= Len(tasks')
  PROVE  /\ timer' \in BOOLEAN /\ final' \in BOOLEAN /\ quiet' \in BOOLEAN
         /\ pc' \in {"idle", "loop"} /\ (pc' = "loop" <=> pos' # 0)
         /\ pos' \in Nat /\ (pos' # 0 => pos' <= Len(tasks'))
         /\ callbacks' \in 0 .. MaxCallbacks
         /\ NextInList' /\ TimerOrPass'
<1>1. Len(tasks') \in Nat /\ (tasks' # <<>> <=> Len(tasks') > 0)
  BY SeqFacts
<1>2. timer' \in BOOLEAN
  BY Zenon DEF Advance, TypeOK
<1>3. CASE final
  <2>1. /\ pc' = "idle" /\ pos' = 0 /\ final' = FALSE /\ callbacks' = 0 /\ quiet' = TRUE
    BY <1>3 DEF Advance, NoPass
  <2>2. tasks' # <<>> => timer'
    BY <1>3, Zenon DEF Advance
  <2>3. /\ timer' \in BOOLEAN /\ final' \in BOOLEAN /\ quiet' \in BOOLEAN
        /\ pc' \in {"idle", "loop"} /\ TimerOrPass'
    BY <1>2, <2>1, <2>2, Zenon DEF TimerOrPass
  <2>4. pos' = 0 /\ pc' # "loop" /\ callbacks' \in 0 .. MaxCallbacks
    BY <1>3, <2>1, BoundAssumption DEF Advance, BoundAssumption
  <2> QED BY <2>3, <2>4 DEF NextInList
<1>4. CASE ~final
  <2>1. /\ pc' = "loop" /\ pos' = next /\ UNCHANGED <<timer, callbacks, quiet>>
        /\ final' = (next = Len(tasks'))
    BY <1>4 DEF Advance, histVars
  <2>2. final' \in BOOLEAN
    BY <2>1
  <2>3. next <= Len(tasks')
    BY <1>4
  <2>4. NextInList' /\ TimerOrPass'
    <3>1. TimerOrPass'
      BY <2>1, Zenon DEF TimerOrPass
    <3>2. next # Len(tasks') => next < Len(tasks')
      BY <1>1, <2>3
    <3>3. NextInList'
      BY <2>1, <3>2, Zenon DEF NextInList
    <3> QED BY <3>1, <3>3
  <2> QED BY <1>2, <2>1, <2>2, <2>3, <2>4 DEF TypeOK
<1> QED BY <1>3, <1>4

LEMMA InvInit == Init => IInv
<1> SUFFICES ASSUME Init PROVE IInv
  OBVIOUS
<1>1. /\ tasks = <<>> /\ tasks \in Seq(Task) /\ Len(tasks) = 0 /\ DOMAIN tasks = {}
      /\ disabled = {} /\ wanted = {} /\ pc = "idle" /\ pos = 0
  BY EmptySeq DEF Init
<1>2. TypeOK
  <2>1. ready \subseteq Onu /\ told = {} /\ callbacks = 0 /\ timer = FALSE
        /\ final = FALSE /\ quiet = TRUE
    BY DEF Init
  <2>2. timer \in BOOLEAN /\ final \in BOOLEAN /\ quiet \in BOOLEAN
    BY <2>1, Zenon
  <2>3. callbacks \in 0 .. MaxCallbacks /\ pos \in Nat /\ pos = 0
    BY <1>1, <2>1, BoundAssumption DEF BoundAssumption
  <2> QED BY <2>2, <2>3, <1>1, <2>1, BoundAssumption DEF TypeOK, Step, BoundAssumption
<1>3. NextInList /\ TimerOrPass /\ OneTaskPerObject /\ OneDisabled
  BY <1>1 DEF NextInList, TimerOrPass, OneTaskPerObject, OneDisabled
<1>4. WantedListed
  BY <1>1 DEF WantedListed, Open
<1> QED BY <1>2, <1>3, <1>4 DEF IInv

LEMMA InvRequest ==
  ASSUME IInv, NEW o \in Object, Request(o)
  PROVE  IInv'
<1>1. /\ TypeOK /\ tasks \in Seq(Task) /\ OneTaskPerObject
      /\ DOMAIN tasks = 1 .. Len(tasks) /\ Len(tasks) \in Nat
  BY SeqFacts DEF IInv, TypeOK
<1>2. /\ UNCHANGED <<pc, pos, final, ready, told, disabled>>
      /\ callbacks' \in 0 .. MaxCallbacks /\ quiet' \in BOOLEAN
  <2>1. UNCHANGED <<pc, pos, final, ready, told, disabled>>
    BY DEF Request, loopVars
  <2>2. CASE FromEventLoop
    BY <1>1, <2>1, <2>2 DEF FromEventLoop, histVars, TypeOK
  <2>3. CASE InCallback
    <3>1. callbacks > 0 /\ callbacks' = callbacks - 1 /\ quiet' = FALSE
      BY <2>3 DEF InCallback
    <3>2. callbacks' \in 0 .. MaxCallbacks
      BY <1>1, <3>1, BoundAssumption DEF TypeOK, BoundAssumption
    <3> QED BY <2>1, <3>1, <3>2, Zenon
  <2>4. FromEventLoop \/ InCallback
    BY DEF Request
  <2> QED BY <2>2, <2>3, <2>4, Zenon
<1>3. CASE Scheduled(o)
  <2>1. UNCHANGED <<tasks, timer, wanted>>
    BY <1>3 DEF Request, rth_schedule_enable
  <2> QED
    BY <2>1, <1>2
    DEF IInv, TypeOK, NextInList, TimerOrPass, OneTaskPerObject, OneDisabled,
        WantedListed, Open
<1>4. CASE ~Scheduled(o)
  <2>1. /\ tasks' \in Seq(Task) /\ Len(tasks') = Len(tasks) + 1
        /\ OneTaskPerObject' /\ timer' = TRUE
        /\ DOMAIN tasks' = DOMAIN tasks \cup {Len(tasks) + 1}
        /\ \A k \in DOMAIN tasks : tasks'[k] = tasks[k]
        /\ Len(tasks) + 1 \notin DOMAIN tasks
        /\ tasks'[Len(tasks) + 1].path = o
    BY <1>1, <1>4, Requested DEF Request
  <2>2. wanted' = wanted \cup ({o} \ disabled)
    BY <1>4 DEF Request
  <2>3. TypeOK'
    BY <1>1, <1>2, <2>1, <2>2 DEF TypeOK
  <2>4. NextInList' /\ TimerOrPass' /\ OneDisabled'
    <3>1. pos \in Nat /\ (pos # 0 /\ ~final => pos < Len(tasks))
      BY DEF IInv, TypeOK, NextInList
    <3>2. NextInList'
      BY <1>1, <1>2, <2>1, <3>1 DEF NextInList
    <3> QED BY <1>2, <2>1, <3>2 DEF IInv, NextInList, TimerOrPass, OneDisabled
  <2>5. WantedListed'
    <3>1. pc = "enable" => pos \in DOMAIN tasks
      BY <1>1 DEF TypeOK
    <3>2. Open' = Open \cup {Len(tasks) + 1}
      BY <1>2, <2>1, <3>1 DEF Open
    <3>3. {tasks'[k].path : k \in Open'} = {tasks[k].path : k \in Open} \cup {o}
      BY <2>1, <3>2 DEF Open
    <3> QED BY <1>2, <2>2, <3>3 DEF IInv, WantedListed
  <2> QED BY <2>1, <2>3, <2>4, <2>5 DEF IInv
<1> QED BY <1>3, <1>4

LEMMA InvSetDisabled ==
  ASSUME IInv, NEW o \in Object, SetDisabled(o)
  PROVE  IInv'
<1>1. /\ pc = "idle" /\ pc' = "disable" /\ disabled = {} /\ disabled' = {o}
      /\ wanted' = wanted \ {o} /\ UNCHANGED <<tasks, timer, pos, final>>
  BY DEF IInv, TypeOK, SetDisabled
<1>2. TypeOK'
  BY <1>1, BoundAssumption DEF IInv, TypeOK, SetDisabled, Step, BoundAssumption
<1>3. NextInList' /\ TimerOrPass' /\ OneTaskPerObject' /\ OneDisabled'
  BY <1>1 DEF IInv, NextInList, TimerOrPass, OneTaskPerObject, OneDisabled
<1>4. WantedListed'
  BY <1>1 DEF IInv, WantedListed, Open
<1> QED BY <1>2, <1>3, <1>4 DEF IInv

LEMMA InvRthDisable ==
  ASSUME IInv, NEW o \in Object, rth_disable(o)
  PROVE  IInv'
<1>1. /\ TypeOK /\ tasks \in Seq(Task) /\ OneTaskPerObject
      /\ DOMAIN tasks = 1 .. Len(tasks) /\ Len(tasks) \in Nat
  BY SeqFacts DEF IInv, TypeOK
<1>2. /\ pc = "disable" /\ pc' = "idle" /\ disabled = {o} /\ disabled' = {}
      /\ pos = 0 /\ callbacks' = 0 /\ quiet' = TRUE
      /\ UNCHANGED <<timer, pos, final, ready, told, wanted>>
  BY <1>1 DEF IInv, TypeOK, OneDisabled, rth_disable, NoPass
<1>3. CASE \E k \in DOMAIN tasks : tasks[k].path = o
  <2>1. PICK k \in DOMAIN tasks : tasks[k].path = o /\ tasks' = RemoveAt(tasks, k)
    BY <1>3 DEF rth_disable, IsFirst
  <2>2. /\ tasks' \in Seq(Task) /\ OneTaskPerObject'
        /\ {tasks'[j].path : j \in DOMAIN tasks'}
             = {tasks[j].path : j \in DOMAIN tasks \ {k}}
        /\ o \notin {tasks[j].path : j \in DOMAIN tasks \ {k}}
    BY <1>1, <2>1, TakenOut
  <2>7. tasks # <<>>
    BY <1>1, SeqFacts
  <2>3. TypeOK'
    BY <1>1, <1>2, <2>2, BoundAssumption DEF TypeOK, Step, BoundAssumption
  <2>4. NextInList' /\ TimerOrPass' /\ OneDisabled'
    BY <1>2, <2>2, <2>7 DEF IInv, NextInList, TimerOrPass, OneDisabled
  <2>5. {tasks[j].path : j \in DOMAIN tasks} \ {o}
          = {tasks[j].path : j \in DOMAIN tasks \ {k}}
    BY <2>1, <2>2
  <2>6. WantedListed'
    BY <1>2, <2>2, <2>5 DEF IInv, WantedListed, Open
  <2> QED BY <2>2, <2>3, <2>4, <2>6 DEF IInv
<1>4. CASE ~\E k \in DOMAIN tasks : tasks[k].path = o
  <2>1. UNCHANGED tasks
    BY <1>4 DEF rth_disable
  <2>2. TypeOK'
    BY <1>1, <1>2, <2>1, BoundAssumption DEF TypeOK, Step, BoundAssumption
  <2>3. NextInList' /\ TimerOrPass' /\ OneTaskPerObject' /\ OneDisabled'
    BY <1>2, <2>1 DEF IInv, NextInList, TimerOrPass, OneTaskPerObject, OneDisabled
  <2>4. WantedListed'
    BY <1>2, <1>4, <2>1 DEF IInv, WantedListed, Open
  <2> QED BY <2>2, <2>3, <2>4 DEF IInv
<1> QED BY <1>3, <1>4

LEMMA InvChangeReady ==
  ASSUME IInv, NEW o \in Onu, ChangeReady(o)
  PROVE  IInv'
<1>1. TypeOK
  BY DEF IInv
<1>2. /\ UNCHANGED <<tasks, timer, pc, pos, final, told, disabled, wanted>>
      /\ ready' \subseteq Onu
  BY <1>1 DEF ChangeReady, loopVars, TypeOK
<1>3. callbacks' \in 0 .. MaxCallbacks /\ quiet' \in BOOLEAN
  <2>1. CASE FromEventLoop
    BY <1>1, <2>1 DEF FromEventLoop, histVars, TypeOK
  <2>2. CASE InCallback
    <3>1. callbacks > 0 /\ callbacks' = callbacks - 1 /\ quiet' = FALSE
      BY <2>2 DEF InCallback
    <3>2. callbacks' \in 0 .. MaxCallbacks
      BY <1>1, <3>1, BoundAssumption DEF TypeOK, BoundAssumption
    <3> QED BY <3>1, <3>2, Zenon
  <2>3. FromEventLoop \/ InCallback
    BY DEF ChangeReady
  <2> QED BY <2>1, <2>2, <2>3, Zenon
<1> QED
  BY <1>2, <1>3
  DEF IInv, TypeOK, NextInList, TimerOrPass, OneTaskPerObject, OneDisabled,
      WantedListed, Open

LEMMA InvTimer ==
  ASSUME IInv, handle_rth_tasks
  PROVE  IInv'
<1>1. /\ TypeOK /\ tasks \in Seq(Task) /\ Len(tasks) \in Nat
      /\ (tasks # <<>> <=> Len(tasks) > 0)
  BY SeqFacts DEF IInv, TypeOK
<1>2. /\ pc = "idle" /\ timer' = FALSE /\ pos = 0
      /\ UNCHANGED <<tasks, told, disabled, wanted, ready>>
  BY <1>1 DEF TypeOK, handle_rth_tasks
<1>3. OneTaskPerObject' /\ OneDisabled' /\ timer' \in BOOLEAN
  BY <1>2 DEF IInv, OneTaskPerObject, OneDisabled
<1>4. CASE tasks = <<>>
  <2>1. UNCHANGED <<pc, pos, final, callbacks, quiet>>
    BY <1>4 DEF handle_rth_tasks, loopVars, histVars
  <2>2. TypeOK'
    BY <1>1, <1>2, <1>3, <2>1 DEF TypeOK
  <2> QED
    BY <1>2, <1>3, <1>4, <2>1, <2>2
    DEF IInv, NextInList, TimerOrPass, WantedListed, Open
<1>5. CASE tasks # <<>>
  <2>1. /\ pc' = "loop" /\ pos' = 1 /\ final' = (Len(tasks) = 1)
        /\ callbacks' = MaxCallbacks /\ quiet' = TRUE
    BY <1>5 DEF handle_rth_tasks
  <2>2. final' \in BOOLEAN /\ quiet' \in BOOLEAN
    BY <2>1, Zenon
  <2>3. callbacks' \in 0 .. MaxCallbacks
    BY <2>1, BoundAssumption DEF BoundAssumption
  <2>4. TypeOK'
    BY <1>1, <1>2, <1>3, <1>5, <2>1, <2>2, <2>3 DEF TypeOK, Step
  <2>5. Len(tasks) # 1 => 1 < Len(tasks)
    BY <1>1, <1>5
  <2>6. NextInList'
    BY <1>2, <2>1, <2>5, Zenon DEF NextInList
  <2>7. TimerOrPass' /\ WantedListed'
    BY <1>2, <2>1 DEF IInv, TimerOrPass, WantedListed, Open
  <2> QED BY <1>3, <2>4, <2>6, <2>7 DEF IInv
<1> QED BY <1>4, <1>5

LEMMA InvKeepTask ==
  ASSUME IInv, KeepTask
  PROVE  IInv'
<1>1. /\ TypeOK /\ tasks \in Seq(Task) /\ OneTaskPerObject
      /\ DOMAIN tasks = 1 .. Len(tasks) /\ Len(tasks) \in Nat
      /\ \A k \in DOMAIN tasks : tasks[k] \in Task
  BY SeqFacts DEF IInv, TypeOK
<1>2. /\ pc = "loop" /\ pos \in DOMAIN tasks /\ pos # 0 /\ disabled = {}
      /\ tasks' = [tasks EXCEPT ![pos].cntr = @ + 1] /\ Advance(pos + 1)
      /\ UNCHANGED <<ready, told, disabled, wanted>>
  BY <1>1 DEF TypeOK, KeepTask
<1>3. [tasks[pos] EXCEPT !.cntr = @ + 1] \in Task
  <2>1. tasks[pos] \in Task /\ tasks[pos].cntr <= MaxChecks
    BY <1>1, <1>2 DEF KeepTask, Waiting
  <2>2. tasks[pos].cntr + 1 \in 0 .. MaxChecks + 1
    BY <2>1, BoundAssumption DEF Task, BoundAssumption
  <2> QED BY <2>1, <2>2, Zenon DEF Task
<1>4. tasks' \in Seq(Task) /\ Len(tasks') = Len(tasks)
  <2>1. tasks' = [tasks EXCEPT ![pos] = [tasks[pos] EXCEPT !.cntr = @ + 1]]
    BY <1>2
  <2> QED BY <1>1, <1>2, <1>3, <2>1, ExceptSeq
<1>5. DOMAIN tasks' = DOMAIN tasks /\ \A k \in DOMAIN tasks : tasks'[k].path = tasks[k].path
  BY <1>1, <1>2 DEF Task
<1>6. pos + 1 \in Nat \ {0} /\ (~final => pos + 1 <= Len(tasks'))
  BY <1>1, <1>2, <1>4 DEF IInv, TypeOK, NextInList
<1>7. /\ timer' \in BOOLEAN /\ final' \in BOOLEAN /\ quiet' \in BOOLEAN
      /\ pc' \in {"idle", "loop"} /\ (pc' = "loop" <=> pos' # 0)
      /\ pos' \in Nat /\ (pos' # 0 => pos' <= Len(tasks'))
      /\ callbacks' \in 0 .. MaxCallbacks
      /\ NextInList' /\ TimerOrPass'
  BY <1>1, <1>2, <1>4, <1>6, Advanced
<1>8. TypeOK'
  BY <1>1, <1>2, <1>4, <1>7 DEF TypeOK, Step
<1>9. OneTaskPerObject' /\ OneDisabled'
  BY <1>1, <1>2, <1>5 DEF IInv, OneTaskPerObject, OneDisabled
<1>10. WantedListed'
  BY <1>2, <1>5, <1>7 DEF IInv, WantedListed, Open
<1> QED BY <1>7, <1>8, <1>9, <1>10 DEF IInv

LEMMA InvSetEnable ==
  ASSUME IInv, pon_ctrl_set_enable
  PROVE  IInv'
<1>1. /\ TypeOK /\ OneTaskPerObject /\ pos \in DOMAIN tasks
      /\ tasks[pos] \in Task
  BY SeqFacts DEF IInv, TypeOK, pon_ctrl_set_enable
<1>2. /\ pc = "loop" /\ pc' = "enable" /\ told' = told \cup {tasks[pos].path}
      /\ wanted' = wanted \ {tasks[pos].path} /\ disabled = {}
      /\ UNCHANGED <<tasks, timer, pos, final, ready, disabled, callbacks, quiet>>
  BY <1>1 DEF TypeOK, pon_ctrl_set_enable, histVars
<1>3. TypeOK'
  BY <1>1, <1>2 DEF TypeOK, Step, Task
<1>4. NextInList' /\ TimerOrPass' /\ OneTaskPerObject' /\ OneDisabled'
  BY <1>2 DEF IInv, NextInList, TimerOrPass, OneTaskPerObject, OneDisabled
<1>5. WantedListed'
  <2>1. Open = DOMAIN tasks /\ Open' = DOMAIN tasks \ {pos}
    BY <1>2 DEF Open
  <2>2. wanted = {tasks[k].path : k \in DOMAIN tasks}
    BY <1>2, <2>1 DEF IInv, WantedListed
  <2>3. \A k \in DOMAIN tasks \ {pos} : tasks[k].path # tasks[pos].path
    BY <1>1 DEF OneTaskPerObject
  <2>4. wanted' = {tasks[k].path : k \in DOMAIN tasks \ {pos}}
    BY <1>2, <2>2, <2>3
  <2> QED BY <1>2, <2>1, <2>4 DEF WantedListed
<1> QED BY <1>3, <1>4, <1>5 DEF IInv

LEMMA InvDeleteTask ==
  ASSUME IInv, DeleteTask
  PROVE  IInv'
<1>1. /\ TypeOK /\ tasks \in Seq(Task) /\ OneTaskPerObject
      /\ DOMAIN tasks = 1 .. Len(tasks) /\ Len(tasks) \in Nat
  BY SeqFacts DEF IInv, TypeOK
<1>2. /\ pc = "enable" /\ pos \in DOMAIN tasks /\ pos \in Nat \ {0} /\ disabled = {}
      /\ tasks' = RemoveAt(tasks, pos) /\ Advance(pos)
      /\ UNCHANGED <<ready, told, disabled, wanted>>
  BY <1>1 DEF TypeOK, DeleteTask
<1>3. /\ tasks' \in Seq(Task) /\ Len(tasks') = Len(tasks) - 1
      /\ OneTaskPerObject'
      /\ {tasks'[j].path : j \in DOMAIN tasks'}
           = {tasks[j].path : j \in DOMAIN tasks \ {pos}}
  BY <1>1, <1>2, TakenOut
<1>4. ~final => pos <= Len(tasks')
  BY <1>1, <1>2, <1>3 DEF IInv, NextInList
<1>5. /\ timer' \in BOOLEAN /\ final' \in BOOLEAN /\ quiet' \in BOOLEAN
      /\ pc' \in {"idle", "loop"} /\ (pc' = "loop" <=> pos' # 0)
      /\ pos' \in Nat /\ (pos' # 0 => pos' <= Len(tasks'))
      /\ callbacks' \in 0 .. MaxCallbacks
      /\ NextInList' /\ TimerOrPass'
  BY <1>1, <1>2, <1>3, <1>4, Advanced
<1>6. TypeOK'
  BY <1>1, <1>2, <1>3, <1>5 DEF TypeOK, Step
<1>7. OneDisabled'
  BY <1>2 DEF IInv, OneDisabled
<1>8. WantedListed'
  <2>1. Open = DOMAIN tasks \ {pos} /\ Open' = DOMAIN tasks'
    BY <1>2, <1>5 DEF Open
  <2> QED BY <1>2, <1>3, <2>1 DEF IInv, WantedListed
<1> QED BY <1>3, <1>5, <1>6, <1>7, <1>8 DEF IInv

LEMMA InvStep == IInv /\ [Next]_vars => IInv'
<1> SUFFICES ASSUME IInv, [Next]_vars PROVE IInv'
  OBVIOUS
<1>1. ASSUME NEW o \in Object, Request(o) PROVE IInv'
  BY <1>1, InvRequest
<1>2. ASSUME NEW o \in Object, SetDisabled(o) PROVE IInv'
  BY <1>2, InvSetDisabled
<1>3. ASSUME NEW o \in Object, rth_disable(o) PROVE IInv'
  BY <1>3, InvRthDisable
<1>4. ASSUME NEW o \in Onu, ChangeReady(o) PROVE IInv'
  BY <1>4, InvChangeReady
<1>5. ASSUME UNCHANGED vars PROVE IInv'
  BY <1>5
  DEF vars, loopVars, histVars, IInv, TypeOK, NextInList, TimerOrPass,
      OneTaskPerObject, OneDisabled, WantedListed, Open
<1> QED
  BY <1>1, <1>2, <1>3, <1>4, <1>5, InvTimer, InvKeepTask, InvSetEnable,
     InvDeleteTask
  DEF Next

LEMMA Invariant == Spec => []IInv
BY InvInit, InvStep, PTL DEF Spec
-----------------------------------------------------------------------------
\* Every variable keeps its range, and the loop of handle_rth_tasks() never
\* leaves the list, whatever the vendor module does while it is called.
THEOREM TypeCorrect == Spec => []TypeOK
<1>1. IInv => TypeOK
  BY DEF IInv
<1> QED BY <1>1, Invariant, PTL

\* A task in the list has the timer, or a pass that will start it.
THEOREM NoLostTask == Spec => []TimerOrPass
<1>1. IInv => TimerOrPass
  BY DEF IInv
<1> QED BY <1>1, Invariant, PTL

\* rth_schedule_enable() never gives an object a second task, also when the
\* object is requested from within its own set_enable().
THEOREM OneTask == Spec => []OneTaskPerObject
<1>1. IInv => OneTaskPerObject
  BY DEF IInv
<1> QED BY <1>1, Invariant, PTL

\* The list implements the safety part of EnableRequests: whatever the vendor
\* module is told to enable was requested and not disabled since.
THEOREM RequestsSafe == Spec => Requests!Safe
<1>1. Init => Requests!Init
  BY DEF Init, Requests!Init
<1>2. IInv /\ [Next]_vars => [Requests!Next]_Requests!vars
  <2> SUFFICES ASSUME IInv, [Next]_vars
               PROVE  Requests!Next \/ UNCHANGED <<wanted, told>>
    BY DEF Requests!vars
  <2>1. ASSUME NEW o \in Object, Request(o)
        PROVE  Requests!Next \/ UNCHANGED <<wanted, told>>
    <3>1. UNCHANGED told /\ (wanted' = wanted \/ wanted' = wanted \cup {o})
      BY <2>1 DEF Request
    <3> QED BY <3>1 DEF Requests!Next, Requests!Request
  <2>2. ASSUME NEW o \in Object, SetDisabled(o) PROVE Requests!Next
    BY <2>2 DEF SetDisabled, Requests!Next, Requests!Disable
  <2>3. ASSUME NEW o \in Object, rth_disable(o) PROVE UNCHANGED <<wanted, told>>
    BY <2>3 DEF rth_disable
  <2>4. ASSUME NEW o \in Onu, ChangeReady(o) PROVE UNCHANGED <<wanted, told>>
    BY <2>4 DEF ChangeReady
  <2>5. ASSUME pon_ctrl_set_enable PROVE Requests!Next
    <3> DEFINE o == tasks[pos].path
    <3>1. o \in Object /\ pos \in Open /\ disabled = {}
      <4>1. pc = "loop" /\ TypeOK
        BY <2>5 DEF IInv, pon_ctrl_set_enable
      <4>2. pos \in DOMAIN tasks /\ tasks[pos] \in Task
        BY <4>1, SeqFacts DEF TypeOK
      <4> QED BY <4>1, <4>2 DEF TypeOK, Open, Task
    <3>2. o \in wanted
      BY <3>1 DEF IInv, WantedListed
    <3>3. Requests!Tell(o)
      BY <2>5, <3>2 DEF pon_ctrl_set_enable, Requests!Tell
    <3> QED BY <3>1, <3>3 DEF Requests!Next
  <2>6. ASSUME handle_rth_tasks \/ KeepTask \/ DeleteTask \/ UNCHANGED vars
        PROVE  UNCHANGED <<wanted, told>>
    BY <2>6 DEF handle_rth_tasks, KeepTask, DeleteTask, vars
  <2> QED BY <2>1, <2>2, <2>3, <2>4, <2>5, <2>6 DEF Next
<1> QED BY <1>1, <1>2, Invariant, PTL DEF Spec, Requests!Safe
-----------------------------------------------------------------------------
(***************************************************************************)
(* One pass over the list.                                                 *)
(***************************************************************************)

\* A task that was looked at and has to wait.
Checked(t) == [t EXCEPT !.cntr = @ + 1]

InPass == pc \in {"loop", "enable"}

\* The tasks the list had when the pass began.
Begun == ToSet(before.tasks)

\* Half way through a pass: a task of its beginning is carried out, or counted
\* and behind the loop, or still before it, where the loop is going to come.
Examined ==
  InPass =>
    /\ pc = "enable" => tasks[pos].path \in told
    /\ \A t \in Begun :
         \/ t.path \in told
         \/ \E k \in DOMAIN tasks : k < pos /\ tasks[k] = Checked(t)
         \/ \E k \in DOMAIN tasks : k >= pos /\ (final => k = pos) /\ tasks[k] = t

\* As long as the vendor module does not call back nothing else is in the list,
\* and nobody else was told.
HalfWay ==
  InPass /\ quiet =>
    /\ final => pos = Len(tasks)
    /\ pc = "enable" => ~Waiting(tasks[pos])
    /\ \A k \in DOMAIN tasks :
         IF k < pos
         THEN \E t \in Begun : Waiting(t) /\ tasks[k] = Checked(t)
         ELSE tasks[k] \in Begun
    /\ \A t \in Begun :
         \/ \E k \in DOMAIN tasks : k >= pos /\ tasks[k] = t
         \/ IF Waiting(t)
            THEN \E k \in DOMAIN tasks : k < pos /\ tasks[k] = Checked(t)
            ELSE t.path \in told
    /\ before.told \subseteq told
    /\ \A o \in told \ before.told : \E t \in Begun : ~Waiting(t) /\ t.path = o

\* What the turn under way makes of the list when it is over: the loop is
\* before position p, and the last task of the list is the last to be looked at.
TurnDone(p) ==
  /\ p \in Nat \ {0}
  /\ \A t \in Begun :
       \/ t.path \in told'
       \/ \E k \in DOMAIN tasks' : k < p /\ tasks'[k] = Checked(t)
       \/ ~final /\ \E k \in DOMAIN tasks' : k >= p /\ tasks'[k] = t
  /\ quiet =>
       /\ final => Len(tasks') < p
       /\ \A k \in DOMAIN tasks' :
            IF k < p
            THEN \E t \in Begun : Waiting(t) /\ tasks'[k] = Checked(t)
            ELSE tasks'[k] \in Begun
       /\ \A t \in Begun :
            \/ \E k \in DOMAIN tasks' : k >= p /\ tasks'[k] = t
            \/ IF Waiting(t)
               THEN \E k \in DOMAIN tasks' : k < p /\ tasks'[k] = Checked(t)
               ELSE t.path \in told'
       /\ before.told \subseteq told'
       /\ \A o \in told' \ before.told :
            \E t \in Begun : ~Waiting(t) /\ t.path = o

LEMMA KeepTurn ==
  ASSUME IInv, Examined, HalfWay, KeepTask
  PROVE  TurnDone(pos + 1)
<1>1. /\ TypeOK /\ DOMAIN tasks = 1 .. Len(tasks) /\ Len(tasks) \in Nat
      /\ \A k \in DOMAIN tasks : tasks[k] \in Task
  BY SeqFacts DEF IInv, TypeOK
<1>2. /\ pc = "loop" /\ InPass /\ pos \in DOMAIN tasks /\ pos \in Nat
      /\ Waiting(tasks[pos]) /\ told' = told
  BY <1>1 DEF TypeOK, KeepTask, InPass
<1>3. /\ DOMAIN tasks' = DOMAIN tasks /\ tasks'[pos] = Checked(tasks[pos])
      /\ \A k \in DOMAIN tasks \ {pos} : tasks'[k] = tasks[k]
  BY <1>1, <1>2 DEF KeepTask, Checked
<1>4. tasks' \in Seq(Task) /\ Len(tasks') = Len(tasks)
  <2>1. TypeOK'
    BY InvKeepTask DEF IInv
  <2>2. tasks' \in Seq(Task) /\ DOMAIN tasks' = 1 .. Len(tasks') /\ Len(tasks') \in Nat
    BY <2>1, SeqFacts DEF TypeOK
  <2> QED BY <1>1, <1>3, <2>2
<1>5. \A k \in DOMAIN tasks : (k < pos + 1 <=> k < pos \/ k = pos) /\ (k >= pos + 1 <=> k >= pos /\ k # pos)
  BY <1>1, <1>2
<1>6. ASSUME NEW t \in Begun
      PROVE  \/ t.path \in told'
             \/ \E k \in DOMAIN tasks' : k < pos + 1 /\ tasks'[k] = Checked(t)
             \/ ~final /\ \E k \in DOMAIN tasks' : k >= pos + 1 /\ tasks'[k] = t
  <2>1. CASE t.path \in told
    BY <2>1, <1>2
  <2>2. ASSUME NEW k \in DOMAIN tasks, k < pos, tasks[k] = Checked(t)
        PROVE  k < pos + 1 /\ tasks'[k] = Checked(t)
    BY <2>2, <1>1, <1>2, <1>3
  <2>3. ASSUME NEW k \in DOMAIN tasks, k >= pos, final => k = pos, tasks[k] = t
        PROVE  \/ k < pos + 1 /\ tasks'[k] = Checked(t)
               \/ ~final /\ k >= pos + 1 /\ tasks'[k] = t
    BY <2>3, <1>2, <1>3, <1>5
  <2> QED BY <1>2, <1>3, <2>1, <2>2, <2>3 DEF Examined
<1>7. ASSUME quiet
      PROVE  /\ final => pos = Len(tasks)
             /\ \A k \in DOMAIN tasks :
                  IF k < pos
                  THEN \E t \in Begun : Waiting(t) /\ tasks[k] = Checked(t)
                  ELSE tasks[k] \in Begun
             /\ \A t \in Begun :
                  \/ \E k \in DOMAIN tasks : k >= pos /\ tasks[k] = t
                  \/ IF Waiting(t)
                     THEN \E k \in DOMAIN tasks : k < pos /\ tasks[k] = Checked(t)
                     ELSE t.path \in told
             /\ before.told \subseteq told
             /\ \A o \in told \ before.told : \E t \in Begun : ~Waiting(t) /\ t.path = o
  BY <1>2, <1>7 DEF HalfWay
<1>8. ASSUME quiet, final PROVE Len(tasks') < pos + 1
  BY <1>1, <1>2, <1>4, <1>7, <1>8
<1>9. ASSUME quiet, NEW k \in DOMAIN tasks'
      PROVE  IF k < pos + 1
             THEN \E t \in Begun : Waiting(t) /\ tasks'[k] = Checked(t)
             ELSE tasks'[k] \in Begun
  <2>1. CASE k < pos
    BY <2>1, <1>1, <1>2, <1>3, <1>5, <1>7, <1>9
  <2>2. CASE k = pos
    <3>1. ~(pos < pos) /\ pos < pos + 1
      BY <1>2
    <3>2. tasks[pos] \in Begun
      BY <3>1, <1>2, <1>7, <1>9
    <3> QED BY <3>1, <3>2, <2>2, <1>2, <1>3
  <2>3. CASE ~(k < pos) /\ k # pos
    BY <2>3, <1>1, <1>2, <1>3, <1>5, <1>7, <1>9
  <2> QED BY <2>1, <2>2, <2>3
<1>10. ASSUME quiet, NEW t \in Begun
       PROVE  \/ \E k \in DOMAIN tasks' : k >= pos + 1 /\ tasks'[k] = t
              \/ IF Waiting(t)
                 THEN \E k \in DOMAIN tasks' : k < pos + 1 /\ tasks'[k] = Checked(t)
                 ELSE t.path \in told'
  <2>1. ASSUME NEW k \in DOMAIN tasks, k >= pos, tasks[k] = t
        PROVE  \/ k >= pos + 1 /\ tasks'[k] = t
               \/ Waiting(t) /\ k < pos + 1 /\ tasks'[k] = Checked(t)
    BY <2>1, <1>2, <1>3, <1>5
  <2>2. ASSUME NEW k \in DOMAIN tasks, k < pos, tasks[k] = Checked(t)
        PROVE  k < pos + 1 /\ tasks'[k] = Checked(t)
    BY <2>2, <1>1, <1>2, <1>3
  <2> QED BY <2>1, <2>2, <1>2, <1>3, <1>7, <1>10
<1> QED BY <1>2, <1>6, <1>7, <1>8, <1>9, <1>10 DEF TurnDone

LEMMA DeleteTurn ==
  ASSUME IInv, Examined, HalfWay, DeleteTask
  PROVE  TurnDone(pos)
<1>1. /\ TypeOK /\ tasks \in Seq(Task) /\ DOMAIN tasks = 1 .. Len(tasks)
      /\ Len(tasks) \in Nat
  BY SeqFacts DEF IInv, TypeOK
<1>2. /\ pc = "enable" /\ InPass /\ pos \in DOMAIN tasks /\ pos \in Nat \ {0}
      /\ told' = told /\ tasks' = RemoveAt(tasks, pos)
  BY <1>1 DEF TypeOK, DeleteTask, InPass
<1>3. /\ tasks' \in Seq(Task) /\ Len(tasks') = Len(tasks) - 1
      /\ \A k \in 1 .. Len(tasks) - 1 :
           tasks'[k] = IF k < pos THEN tasks[k] ELSE tasks[k + 1]
  BY <1>1, <1>2, RemoveAtFacts
<1>4. DOMAIN tasks' = 1 .. Len(tasks) - 1
  BY <1>3, SeqFacts
<1>5. \* Before position pos nothing changes.
      \A k \in DOMAIN tasks : k < pos => k \in DOMAIN tasks' /\ tasks'[k] = tasks[k]
  BY <1>1, <1>2, <1>3, <1>4
<1>6. \* What follows moves up by one.
      \A k \in DOMAIN tasks : k >= pos /\ k # pos =>
        k - 1 \in DOMAIN tasks' /\ k - 1 >= pos /\ tasks'[k - 1] = tasks[k]
  BY <1>1, <1>2, <1>3, <1>4
<1>7. \A k \in DOMAIN tasks' :
        \/ k < pos /\ k \in DOMAIN tasks /\ tasks'[k] = tasks[k]
        \/ ~(k < pos) /\ k + 1 \in DOMAIN tasks /\ ~(k + 1 < pos)
             /\ tasks'[k] = tasks[k + 1]
  BY <1>1, <1>2, <1>3, <1>4
<1>8. tasks[pos].path \in told
  BY <1>2 DEF Examined
<1>9. ASSUME NEW t \in Begun
      PROVE  \/ t.path \in told'
             \/ \E k \in DOMAIN tasks' : k < pos /\ tasks'[k] = Checked(t)
             \/ ~final /\ \E k \in DOMAIN tasks' : k >= pos /\ tasks'[k] = t
  <2>1. ASSUME NEW k \in DOMAIN tasks, k < pos, tasks[k] = Checked(t)
        PROVE  \E j \in DOMAIN tasks' : j < pos /\ tasks'[j] = Checked(t)
    BY <2>1, <1>5
  <2>2. ASSUME NEW k \in DOMAIN tasks, k >= pos, final => k = pos, tasks[k] = t
        PROVE  \/ t.path \in told
               \/ ~final /\ \E j \in DOMAIN tasks' : j >= pos /\ tasks'[j] = t
    <3>1. CASE k = pos
      BY <3>1, <2>2, <1>8
    <3>2. CASE k # pos
      BY <3>2, <2>2, <1>6
    <3> QED BY <3>1, <3>2
  <2> QED BY <1>2, <2>1, <2>2 DEF Examined
<1>10. ASSUME quiet
       PROVE  /\ final => pos = Len(tasks)
              /\ ~Waiting(tasks[pos])
              /\ \A k \in DOMAIN tasks :
                   IF k < pos
                   THEN \E t \in Begun : Waiting(t) /\ tasks[k] = Checked(t)
                   ELSE tasks[k] \in Begun
              /\ \A t \in Begun :
                   \/ \E k \in DOMAIN tasks : k >= pos /\ tasks[k] = t
                   \/ IF Waiting(t)
                      THEN \E k \in DOMAIN tasks : k < pos /\ tasks[k] = Checked(t)
                      ELSE t.path \in told
              /\ before.told \subseteq told
              /\ \A o \in told \ before.told :
                   \E t \in Begun : ~Waiting(t) /\ t.path = o
  BY <1>2, <1>10 DEF HalfWay
<1>11. ASSUME quiet, final PROVE Len(tasks') < pos
  BY <1>1, <1>2, <1>3, <1>10, <1>11
<1>12. ASSUME quiet, NEW k \in DOMAIN tasks'
       PROVE  IF k < pos
              THEN \E t \in Begun : Waiting(t) /\ tasks'[k] = Checked(t)
              ELSE tasks'[k] \in Begun
  BY <1>7, <1>10, <1>12
<1>13. ASSUME quiet, NEW t \in Begun
       PROVE  \/ \E k \in DOMAIN tasks' : k >= pos /\ tasks'[k] = t
              \/ IF Waiting(t)
                 THEN \E k \in DOMAIN tasks' : k < pos /\ tasks'[k] = Checked(t)
                 ELSE t.path \in told'
  <2>1. ASSUME NEW k \in DOMAIN tasks, k >= pos, tasks[k] = t
        PROVE  \/ \E j \in DOMAIN tasks' : j >= pos /\ tasks'[j] = t
               \/ ~Waiting(t) /\ t.path \in told
    <3>1. CASE k = pos
      BY <3>1, <2>1, <1>8, <1>10, <1>13
    <3>2. CASE k # pos
      BY <3>2, <2>1, <1>6
    <3> QED BY <3>1, <3>2
  <2>2. ASSUME NEW k \in DOMAIN tasks, k < pos, tasks[k] = Checked(t)
        PROVE  \E j \in DOMAIN tasks' : j < pos /\ tasks'[j] = Checked(t)
    BY <2>2, <1>5
  <2> QED BY <2>1, <2>2, <1>2, <1>10, <1>13
<1> QED BY <1>2, <1>9, <1>10, <1>11, <1>12, <1>13 DEF TurnDone

\* From one turn to the next: what was done of the list is what the next turn
\* finds, and after the last turn there is nothing left to do.
LEMMA TurnOver ==
  ASSUME NEW p, TurnDone(p), Advance(p), UNCHANGED ready, tasks' \in Seq(Task)
  PROVE  Examined' /\ HalfWay'
<1>1. CASE final
  <2>1. ~InPass'
    BY <1>1 DEF Advance, InPass
  <2> QED BY <2>1 DEF Examined, HalfWay
<1>2. CASE ~final
  <2>1. /\ pc' = "loop" /\ pos' = p /\ final' = (p = Len(tasks'))
        /\ quiet' = quiet /\ before' = before
    BY <1>2 DEF Advance, histVars
  <2>2. /\ DOMAIN tasks' = 1 .. Len(tasks') /\ Len(tasks') \in Nat
        /\ p \in Nat
    BY SeqFacts DEF TurnDone
  <2>3. Begun' = Begun /\ \A t : Waiting(t)' <=> Waiting(t)
    BY <2>1 DEF Begun, Waiting
  <2>4. \A k \in DOMAIN tasks' : k >= p => (final' => k = p)
    <3>1. final' => p = Len(tasks')
      BY <2>1, Zenon
    <3>2. \A k \in DOMAIN tasks' : k >= p /\ p = Len(tasks') => k = p
      BY <2>2
    <3> QED BY <3>1, <3>2
  <2>5. Examined'
    <3>1. ASSUME NEW t \in Begun
          PROVE  \/ t.path \in told'
                 \/ \E k \in DOMAIN tasks' : k < p /\ tasks'[k] = Checked(t)
                 \/ \E k \in DOMAIN tasks' :
                      k >= p /\ (final' => k = p) /\ tasks'[k] = t
      BY <2>4, <1>2 DEF TurnDone
    <3> QED BY <3>1, <2>1, <2>3 DEF Examined
  <2>6. HalfWay'
    <3> SUFFICES ASSUME quiet PROVE HalfWay'
      BY <2>1 DEF HalfWay
    <3>1. /\ \A k \in DOMAIN tasks' :
               IF k < p
               THEN \E t \in Begun : Waiting(t) /\ tasks'[k] = Checked(t)
               ELSE tasks'[k] \in Begun
          /\ \A t \in Begun :
               \/ \E k \in DOMAIN tasks' : k >= p /\ tasks'[k] = t
               \/ IF Waiting(t)
                  THEN \E k \in DOMAIN tasks' : k < p /\ tasks'[k] = Checked(t)
                  ELSE t.path \in told'
          /\ before.told \subseteq told'
          /\ \A o \in told' \ before.told :
               \E t \in Begun : ~Waiting(t) /\ t.path = o
      BY DEF TurnDone
    <3>2. (final' => pos' = Len(tasks')) /\ pc' # "enable"
      BY <2>1
    <3> QED BY <3>1, <3>2, <2>1, <2>3 DEF HalfWay
  <2> QED BY <2>5, <2>6
<1> QED BY <1>1, <1>2

\* What holds of the whole list after the last turn.
LEMMA LastTurn ==
  ASSUME NEW p, TurnDone(p), final, UNCHANGED ready, tasks' \in Seq(Task)
  PROVE  /\ \A t \in ToSet(before.tasks) :
              \/ t.path \in told'
              \/ [t EXCEPT !.cntr = @ + 1] \in ToSet(tasks')
         /\ quiet =>
              LET waiting == {t \in ToSet(before.tasks) : Waiting(t)} IN
              /\ ToSet(tasks') = {[t EXCEPT !.cntr = @ + 1] : t \in waiting}
              /\ told' = before.told \cup
                         {t.path : t \in ToSet(before.tasks) \ waiting}
<1> DEFINE waiting == {t \in Begun : Waiting(t)}
<1>1. /\ DOMAIN tasks' = 1 .. Len(tasks') /\ Len(tasks') \in Nat
      /\ p \in Nat /\ ToSet(tasks') = {tasks'[k] : k \in DOMAIN tasks'}
  BY SeqFacts DEF TurnDone, ToSet
<1>2. \A t \in Begun : t.path \in told' \/ Checked(t) \in ToSet(tasks')
  BY <1>1 DEF TurnDone
<1>3. ASSUME quiet
      PROVE  /\ ToSet(tasks') = {Checked(t) : t \in waiting}
             /\ told' = before.told \cup {t.path : t \in Begun \ waiting}
  <2>1. \A k \in DOMAIN tasks' : k < p /\ ~(k >= p)
    <3>1. Len(tasks') < p
      BY <1>3 DEF TurnDone
    <3> QED BY <3>1, <1>1
  <2>2. \A k \in DOMAIN tasks' : \E t \in waiting : tasks'[k] = Checked(t)
    BY <1>3, <2>1 DEF TurnDone
  <2>3. \A t \in Begun : IF Waiting(t)
                         THEN \E k \in DOMAIN tasks' : tasks'[k] = Checked(t)
                         ELSE t.path \in told'
    BY <1>3, <2>1 DEF TurnDone
  <2>4. /\ before.told \subseteq told'
        /\ \A o \in told' \ before.told : \E t \in Begun : ~Waiting(t) /\ t.path = o
    BY <1>3 DEF TurnDone
  <2>5. ToSet(tasks') = {Checked(t) : t \in waiting}
    BY <1>1, <2>2, <2>3
  <2>6. told' = before.told \cup {t.path : t \in Begun \ waiting}
    BY <2>3, <2>4
  <2> QED BY <2>5, <2>6
<1> QED BY <1>2, <1>3 DEF Begun, Checked
-----------------------------------------------------------------------------
LEMMA PassTimer ==
  ASSUME IInv, handle_rth_tasks
  PROVE  Examined' /\ HalfWay'
<1>1. /\ pc = "idle" /\ tasks' = tasks /\ ready' = ready /\ told' = told
      /\ DOMAIN tasks = 1 .. Len(tasks) /\ Len(tasks) \in Nat
      /\ (tasks # <<>> => Len(tasks) > 0)
  BY SeqFacts DEF IInv, TypeOK, handle_rth_tasks
<1>2. CASE tasks = <<>>
  BY <1>1, <1>2 DEF handle_rth_tasks, loopVars, Examined, HalfWay, InPass
<1>3. CASE tasks # <<>>
  <2>1. /\ pc' = "loop" /\ pos' = 1 /\ final' = (Len(tasks) = 1)
        /\ before'.tasks = tasks /\ before'.told = told
    BY <1>3 DEF handle_rth_tasks
  <2>2. Begun' = {tasks[k] : k \in DOMAIN tasks}
    BY <2>1 DEF Begun, ToSet
  <2>3. \A k \in DOMAIN tasks : k >= 1 /\ ~(k < 1)
    BY <1>1
  <2>4. final' => Len(tasks) = 1
    BY <2>1, Zenon
  <2>5. \A k \in DOMAIN tasks : k >= 1 /\ (Len(tasks) = 1 => k = 1)
    BY <1>1
  <2>6. Examined'
    BY <1>1, <2>1, <2>2, <2>4, <2>5 DEF Examined
  <2>7. HalfWay'
    <3>1. (final' => pos' = Len(tasks')) /\ pc' # "enable"
      BY <1>1, <2>1, <2>4
    <3> QED BY <3>1, <1>1, <2>1, <2>2, <2>3 DEF HalfWay
  <2> QED BY <2>6, <2>7
<1> QED BY <1>2, <1>3

LEMMA PassSetEnable ==
  ASSUME IInv, Examined, HalfWay, pon_ctrl_set_enable
  PROVE  Examined' /\ HalfWay'
<1>1. /\ pc = "loop" /\ InPass /\ pc' = "enable" /\ ~Waiting(tasks[pos])
      /\ told' = told \cup {tasks[pos].path}
      /\ UNCHANGED <<tasks, pos, final, ready, before, quiet>>
      /\ pos \in DOMAIN tasks /\ pos \in Nat /\ ~(pos < pos)
  BY SeqFacts DEF IInv, TypeOK, pon_ctrl_set_enable, histVars, InPass
<1>2. Begun' = Begun /\ \A t : Waiting(t)' <=> Waiting(t)
  BY <1>1 DEF Begun, Waiting
<1>3. Examined'
  BY <1>1, <1>2 DEF Examined
<1>4. HalfWay'
  <2> SUFFICES ASSUME quiet PROVE HalfWay'
    BY <1>1 DEF HalfWay
  <2>1. /\ final => pos = Len(tasks)
        /\ \A k \in DOMAIN tasks :
             IF k < pos
             THEN \E t \in Begun : Waiting(t) /\ tasks[k] = Checked(t)
             ELSE tasks[k] \in Begun
        /\ \A t \in Begun :
             \/ \E k \in DOMAIN tasks : k >= pos /\ tasks[k] = t
             \/ IF Waiting(t)
                THEN \E k \in DOMAIN tasks : k < pos /\ tasks[k] = Checked(t)
                ELSE t.path \in told
        /\ before.told \subseteq told
        /\ \A o \in told \ before.told : \E t \in Begun : ~Waiting(t) /\ t.path = o
    BY <1>1 DEF HalfWay
  <2>2. tasks[pos] \in Begun
    BY <1>1, <2>1
  <2>3. /\ before.told \subseteq told'
        /\ \A o \in told' \ before.told :
             \E t \in Begun : ~Waiting(t) /\ t.path = o
    BY <1>1, <2>1, <2>2
  <2>4. ~Waiting(tasks[pos])'
    BY <1>1 DEF Waiting
  <2> QED BY <1>1, <1>2, <2>1, <2>3, <2>4 DEF HalfWay
<1> QED BY <1>3, <1>4

\* A call of the vendor module only appends to the list.
LEMMA PassCallback ==
  ASSUME Examined, InCallback, UNCHANGED <<loopVars, told>>,
         InPass => pos \in DOMAIN tasks,
         DOMAIN tasks \subseteq DOMAIN tasks',
         \A k \in DOMAIN tasks : tasks'[k] = tasks[k]
  PROVE  Examined' /\ HalfWay'
<1>1. UNCHANGED <<pc, pos, final, told, before>> /\ quiet' = FALSE
  BY DEF InCallback, loopVars
<1>2. Begun' = Begun /\ InPass' = InPass
  BY <1>1 DEF Begun, InPass
<1> QED BY <1>1, <1>2 DEF Examined, HalfWay

LEMMA PassRequest ==
  ASSUME IInv, Examined, HalfWay, NEW o \in Object, Request(o)
  PROVE  Examined' /\ HalfWay'
<1>1. CASE FromEventLoop
  BY <1>1 DEF FromEventLoop, Request, loopVars, Examined, HalfWay, InPass
<1>2. CASE InCallback
  <2>1. tasks \in Seq(Task) /\ OneTaskPerObject /\ (InPass => pos \in DOMAIN tasks)
    BY SeqFacts DEF IInv, TypeOK, InPass
  <2>2. /\ DOMAIN tasks \subseteq DOMAIN tasks'
        /\ \A k \in DOMAIN tasks : tasks'[k] = tasks[k]
    <3>1. CASE Scheduled(o)
      BY <3>1 DEF Request, rth_schedule_enable
    <3>2. CASE ~Scheduled(o)
      BY <3>2, <2>1, Requested DEF Request
    <3> QED BY <3>1, <3>2
  <2> QED BY <1>2, <2>1, <2>2, PassCallback DEF Request
<1> QED BY <1>1, <1>2 DEF Request

LEMMA PassChangeReady ==
  ASSUME IInv, Examined, HalfWay, NEW o \in Onu, ChangeReady(o)
  PROVE  Examined' /\ HalfWay'
<1>1. CASE FromEventLoop
  BY <1>1 DEF FromEventLoop, ChangeReady, loopVars, Examined, HalfWay, InPass
<1>2. CASE InCallback
  <2>1. InPass => pos \in DOMAIN tasks
    BY SeqFacts DEF IInv, TypeOK, InPass
  <2> QED BY <1>2, <2>1, PassCallback DEF ChangeReady
<1> QED BY <1>1, <1>2 DEF ChangeReady

LEMMA PassStep == IInv /\ Examined /\ HalfWay /\ [Next]_vars => Examined' /\ HalfWay'
<1> SUFFICES ASSUME IInv, Examined, HalfWay, [Next]_vars
             PROVE  Examined' /\ HalfWay'
  OBVIOUS
<1>1. ASSUME NEW o \in Object, Request(o) PROVE Examined' /\ HalfWay'
  BY <1>1, PassRequest
<1>2. ASSUME NEW o \in Object, SetDisabled(o) \/ rth_disable(o)
      PROVE  Examined' /\ HalfWay'
  BY <1>2 DEF SetDisabled, rth_disable, Examined, HalfWay, InPass
<1>3. ASSUME NEW o \in Onu, ChangeReady(o) PROVE Examined' /\ HalfWay'
  BY <1>3, PassChangeReady
<1>4. ASSUME KeepTask PROVE Examined' /\ HalfWay'
  <2>1. TurnDone(pos + 1) /\ tasks' \in Seq(Task)
    BY <1>4, KeepTurn, InvKeepTask DEF IInv, TypeOK
  <2> QED BY <1>4, <2>1, TurnOver DEF KeepTask
<1>5. ASSUME DeleteTask PROVE Examined' /\ HalfWay'
  <2>1. TurnDone(pos) /\ tasks' \in Seq(Task)
    BY <1>5, DeleteTurn, InvDeleteTask DEF IInv, TypeOK
  <2> QED BY <1>5, <2>1, TurnOver DEF DeleteTask
<1>6. ASSUME UNCHANGED vars PROVE Examined' /\ HalfWay'
  BY <1>6 DEF vars, loopVars, histVars, Examined, HalfWay, InPass, Begun, Waiting
<1> QED
  BY <1>1, <1>2, <1>3, <1>4, <1>5, <1>6, PassTimer, PassSetEnable DEF Next

LEMMA PassInvariant == Spec => [](IInv /\ Examined /\ HalfWay)
<1>1. Init => Examined /\ HalfWay
  BY DEF Init, Examined, HalfWay, InPass
<1> QED BY <1>1, InvInit, InvStep, PassStep, PTL DEF Spec

\* Only the last turn ends a pass.
LEMMA PassEnding ==
  ASSUME IInv, Examined, HalfWay, [Next]_vars, PassEnds
  PROVE  /\ final /\ UNCHANGED ready /\ tasks' \in Seq(Task)
         /\ \E p : TurnDone(p)
<1>1. pc \in {"loop", "enable"} /\ pc' = "idle"
  BY DEF PassEnds
<1>2. KeepTask \/ DeleteTask
  <2>1. \A o \in Object : ~Request(o) /\ ~SetDisabled(o) /\ ~rth_disable(o)
    BY <1>1 DEF Request, loopVars, SetDisabled, rth_disable
  <2>2. \A o \in Onu : ~ChangeReady(o)
    BY <1>1 DEF ChangeReady, loopVars
  <2>3. ~handle_rth_tasks /\ ~pon_ctrl_set_enable /\ ~UNCHANGED vars
    BY <1>1 DEF handle_rth_tasks, pon_ctrl_set_enable, vars, loopVars
  <2> QED BY <2>1, <2>2, <2>3 DEF Next
<1>3. CASE KeepTask
  <2>1. TurnDone(pos + 1) /\ tasks' \in Seq(Task)
    BY <1>3, KeepTurn, InvKeepTask DEF IInv, TypeOK
  <2> QED BY <1>1, <1>3, <2>1 DEF KeepTask, Advance
<1>4. CASE DeleteTask
  <2>1. TurnDone(pos) /\ tasks' \in Seq(Task)
    BY <1>4, DeleteTurn, InvDeleteTask DEF IInv, TypeOK
  <2> QED BY <1>1, <1>4, <2>1 DEF DeleteTask, Advance
<1> QED BY <1>2, <1>3, <1>4

\* A pass of handle_rth_tasks() looks at every task the list had when the pass
\* began, and at none of them twice: at its end each is told or counted once,
\* whatever the vendor module appended or changed in between.
THEOREM EachTaskOnce == Spec => ExaminedOnce
<1>1. IInv /\ Examined /\ HalfWay /\ [Next]_vars =>
        [PassEnds =>
           \A t \in ToSet(before.tasks) :
             \/ t.path \in told'
             \/ [t EXCEPT !.cntr = @ + 1] \in ToSet(tasks')]_vars
  BY PassEnding, LastTurn
<1> QED BY <1>1, PassInvariant, PTL DEF Spec, ExaminedOnce

\* A pass during which the vendor module does not call back has the effect of
\* looking at all tasks at once: the step EnableRestore makes of
\* handle_rth_tasks().
THEOREM OneStep == Spec => PassIsOneStep
<1>1. IInv /\ Examined /\ HalfWay /\ [Next]_vars =>
        [PassEnds /\ quiet =>
           LET waiting == {t \in ToSet(before.tasks) : Waiting(t)} IN
           /\ ToSet(tasks') = {[t EXCEPT !.cntr = @ + 1] : t \in waiting}
           /\ told' = before.told \cup
                      {t.path : t \in ToSet(before.tasks) \ waiting}]_vars
  BY PassEnding, LastTurn
<1> QED BY <1>1, PassInvariant, PTL DEF Spec, PassIsOneStep
==============================================================================
