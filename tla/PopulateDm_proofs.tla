-------------------------- MODULE PopulateDm_proofs --------------------------
(***************************************************************************)
(* Proofs about PopulateDm, for any tree of objects, any number of polls   *)
(* and any order of the answers and of the calls of the vendor module.     *)
(***************************************************************************)
EXTENDS PopulateDm, SequenceTheorems, FiniteSetTheorems, TLAPS

\* The elements of two sequences put together.
LEMMA ConcatFacts ==
  ASSUME NEW T, NEW a \in Seq(T), NEW b \in Seq(T)
  PROVE  /\ a \o b \in Seq(T)
         /\ ToSet(a \o b) = ToSet(a) \cup ToSet(b)
         /\ ToSet(a) \subseteq T
<1>1. /\ Len(a) \in Nat /\ DOMAIN a = 1 .. Len(a)
      /\ Len(b) \in Nat /\ DOMAIN b = 1 .. Len(b)
  BY LenProperties
<1>2. /\ a \o b \in Seq(T) /\ Len(a \o b) = Len(a) + Len(b)
      /\ \A i \in 1 .. Len(a) + Len(b) :
           (a \o b)[i] = IF i <= Len(a) THEN a[i] ELSE b[i - Len(a)]
  BY ConcatProperties
<1>3. DOMAIN (a \o b) = 1 .. Len(a) + Len(b)
  BY <1>2, LenProperties
<1>4. ASSUME NEW i \in DOMAIN (a \o b)
      PROVE  (a \o b)[i] \in ToSet(a) \cup ToSet(b)
  <2>1. CASE i <= Len(a)
    BY <1>1, <1>2, <1>3, <2>1 DEF ToSet
  <2>2. CASE ~(i <= Len(a))
    <3>1. i - Len(a) \in DOMAIN b /\ (a \o b)[i] = b[i - Len(a)]
      BY <1>1, <1>2, <1>3, <2>2
    <3> QED BY <3>1 DEF ToSet
  <2> QED BY <2>1, <2>2
<1>5. ASSUME NEW i \in DOMAIN a
      PROVE  a[i] \in ToSet(a \o b)
  <2>1. i \in DOMAIN (a \o b) /\ (a \o b)[i] = a[i]
    BY <1>1, <1>2, <1>3
  <2> QED BY <2>1 DEF ToSet
<1>6. ASSUME NEW i \in DOMAIN b
      PROVE  b[i] \in ToSet(a \o b)
  <2>1. i + Len(a) \in DOMAIN (a \o b) /\ (a \o b)[i + Len(a)] = b[i]
    BY <1>1, <1>2, <1>3
  <2> QED BY <2>1 DEF ToSet
<1>7. ToSet(a) \subseteq T
  BY <1>1, ElementOfSeq DEF ToSet
<1> QED BY <1>2, <1>4, <1>5, <1>6, <1>7 DEF ToSet

\* The first task is taken from the list.
LEMMA TailFacts ==
  ASSUME NEW T, NEW s \in Seq(T), s # <<>>
  PROVE  /\ Head(s) \in T /\ Tail(s) \in Seq(T) /\ Head(s) \in ToSet(s)
         /\ ToSet(s) \subseteq {Head(s)} \cup ToSet(Tail(s))
         /\ ToSet(Tail(s)) \subseteq ToSet(s)
<1>1. /\ Head(s) \in T /\ Tail(s) \in Seq(T) /\ Len(Tail(s)) = Len(s) - 1
      /\ \A i \in 1 .. Len(Tail(s)) : Tail(s)[i] = s[i + 1]
      /\ Len(s) \in Nat /\ DOMAIN s = 1 .. Len(s) /\ Len(s) > 0
      /\ DOMAIN Tail(s) = 1 .. Len(s) - 1 /\ Head(s) = s[1]
  BY HeadTailProperties, LenProperties, EmptySeq
<1>2. ASSUME NEW i \in DOMAIN s
      PROVE  s[i] \in {Head(s)} \cup ToSet(Tail(s))
  <2>1. CASE i = 1
    BY <1>1, <2>1
  <2>2. CASE i # 1
    <3>1. i - 1 \in DOMAIN Tail(s) /\ Tail(s)[i - 1] = s[i]
      BY <1>1, <2>2
    <3> QED BY <3>1 DEF ToSet
  <2> QED BY <2>1, <2>2
<1>3. ASSUME NEW i \in DOMAIN Tail(s)
      PROVE  Tail(s)[i] \in ToSet(s)
  <2>1. i + 1 \in DOMAIN s /\ Tail(s)[i] = s[i + 1]
    BY <1>1
  <2> QED BY <2>1 DEF ToSet
<1>4. Head(s) \in ToSet(s)
  <2>1. 1 \in DOMAIN s
    BY <1>1
  <2> QED BY <1>1, <2>1 DEF ToSet
<1> QED BY <1>1, <1>2, <1>3, <1>4 DEF ToSet

\* Whatever the order of its answer, the vendor module lists each instance.
LEMMA SeqsFacts ==
  ASSUME NEW S, IsFiniteSet(S), NEW s \in SetToSeqs(S)
  PROVE  s \in Seq(S) /\ ToSet(s) = S
<1> DEFINE n == Cardinality(S)
<1>1. /\ n \in Nat /\ s \in [1 .. n -> S]
      /\ \A i, j \in 1 .. n : i # j => s[i] # s[j]
  BY FS_CardinalityType DEF SetToSeqs
<1>2. s \in Injection(1 .. n, S)
  BY <1>1 DEF Injection, IsInjective
<1>3. Cardinality(1 .. n) = n
  BY <1>1, FS_Interval
<1>4. s \in Surjection(1 .. n, S)
  BY <1>2, <1>3, FS_Injection
<1>5. s \in Seq(S)
  BY <1>1
<1> QED BY <1>1, <1>4, <1>5 DEF Surjection, ToSet

LEMMA ListedFacts ==
  ASSUME TypeOK, NEW t, NEW new \in NewInstances(t)
  PROVE  /\ new \in Seq(Object) /\ new \in Seq(Inst)
         /\ ToSet(new) = {i \in vendor : TemplateOf[i] = t /\ ~Known(i)}
         /\ ToSet(new) \cap FarOnu = {}
<1> DEFINE S == {i \in vendor : TemplateOf[i] = t /\ ~Known(i)}
<1>1. S \subseteq Inst /\ IsFiniteSet(S)
  BY TreeAssumption, FS_Subset DEF TypeOK, TreeAssumption
<1>2. new \in Seq(S) /\ ToSet(new) = S
  BY <1>1, SeqsFacts DEF NewInstances
<1>3. \A i \in FarOnu : Known(i)
  BY TreeAssumption DEF Known, TreeAssumption
<1> QED BY <1>1, <1>2, <1>3, SeqMonotonic DEF Object
-----------------------------------------------------------------------------
\* The list after its first task has given way to new ones.
LEMMA Replaced ==
  ASSUME tasks \in Seq(Object), tasks # <<>>, NEW new \in Seq(Object), Replace(new)
  PROVE  /\ tasks' \in Seq(Object) /\ tasksTimer' \in BOOLEAN
         /\ (tasks' # <<>> => tasksTimer')
         /\ ToSet(new) \subseteq ToSet(tasks')
         /\ ToSet(tasks) \subseteq {Head(tasks)} \cup ToSet(tasks')
         /\ ToSet(tasks') \subseteq ToSet(tasks) \cup ToSet(new)
<1>1. /\ Tail(tasks) \in Seq(Object)
      /\ ToSet(tasks) \subseteq {Head(tasks)} \cup ToSet(Tail(tasks))
      /\ ToSet(Tail(tasks)) \subseteq ToSet(tasks)
  BY TailFacts
<1>2. tasks' = Tail(tasks) \o new
  BY DEF Replace
<1>3. tasks' \in Seq(Object) /\ ToSet(tasks') = ToSet(Tail(tasks)) \cup ToSet(new)
  <2> DEFINE rest == Tail(tasks)
  <2>1. rest \in Seq(Object) /\ tasks' = rest \o new
    BY <1>1, <1>2
  <2> HIDE DEF rest
  <2>2. rest \o new \in Seq(Object) /\ ToSet(rest \o new) = ToSet(rest) \cup ToSet(new)
    BY <2>1, ConcatFacts
  <2> QED BY <2>1, <2>2 DEF rest
<1>4. tasksTimer' \in BOOLEAN /\ (tasks' # <<>> => tasksTimer')
  BY Zenon DEF Replace
<1> QED BY <1>1, <1>3, <1>4

LEMMA EmptyTasks == <<>> \in Seq(Object) /\ ToSet(<<>>) = {}
BY EmptySeq DEF ToSet

\* The children of an instance, in the order of object_info_t.
LEMMA ChildrenFacts ==
  ASSUME NEW x \in Inst
  PROVE  /\ query_children(x) \in Seq(Object)
         /\ ToSet(query_children(x)) \subseteq Single \cup Templ
         /\ Children(x) \subseteq ToSet(query_children(x))
         /\ x \notin FarOnu => ToSet(query_children(x)) = Children(x)
<1>1. Singletons[x] \in Seq(Single) /\ Templates[x] \in Seq(Templ)
  BY TreeAssumption DEF TreeAssumption
<1>2. /\ Singletons[x] \in Seq(Single \cup Templ) /\ Templates[x] \in Seq(Single \cup Templ)
  BY <1>1, SeqMonotonic
<1>3. /\ query_children(x) \in Seq(Single \cup Templ)
      /\ ToSet(query_children(x)) = ToSet(Singletons[x]) \cup ToSet(Templates[x])
      /\ ToSet(query_children(x)) \subseteq Single \cup Templ
  <2>1. /\ Singletons[x] \o Templates[x] \in Seq(Single \cup Templ)
        /\ ToSet(Singletons[x] \o Templates[x]) = ToSet(Singletons[x]) \cup ToSet(Templates[x])
        /\ ToSet(Singletons[x]) \subseteq Single \cup Templ
        /\ ToSet(Templates[x]) \subseteq Single \cup Templ
    BY <1>2, ConcatFacts
  <2> QED BY <2>1 DEF query_children
<1>4. query_children(x) \in Seq(Object)
  BY <1>3, SeqMonotonic DEF Object
<1>5. CASE x \in FarOnu
  BY <1>3, <1>4, <1>5, TreeAssumption DEF Children, TreeAssumption
<1>6. CASE x \notin FarOnu
  <2>1. x \in Onu \cup Child
    BY <1>6 DEF Inst
  <2>2. /\ ToSet(Singletons[x]) = {s \in Single : Owner[s] = x}
        /\ ToSet(Templates[x]) = {t \in Templ : Owner[t] = x}
    BY <2>1, TreeAssumption DEF TreeAssumption
  <2> QED BY <1>3, <1>4, <2>2 DEF Children
<1> QED BY <1>5, <1>6

\* What handle_task() does to the list and to the data model.
LEMMA Handled ==
  ASSUME TypeOK, handle_task
  PROVE  \E new \in Seq(Object) :
         /\ tasks # <<>> /\ Replace(new) /\ Head(tasks) \in Object
         /\ asked' = asked \cup {Head(tasks)}
         /\ UNCHANGED <<vendor, queryTimer, cntr>>
         /\ \/ /\ Head(tasks) \in Templ /\ new \in NewInstances(Head(tasks))
               /\ UNCHANGED <<dm, initialised, described, failures>>
            \/ /\ Head(tasks) \in Inst /\ InstanceDescribed(Head(tasks))
               /\ new = query_children(Head(tasks))
            \/ /\ failures > 0 /\ failures' = failures - 1
               /\ new = <<>> /\ UNCHANGED <<dm, initialised, described>>
            \/ /\ Head(tasks) \in Inst \cup Single
               /\ (Head(tasks) \in Inst => Vanished(Head(tasks)))
               /\ new = <<>> /\ UNCHANGED <<dm, initialised, described, failures>>
<1> DEFINE x == Head(tasks)
<1>1. /\ tasks # <<>> /\ tasks \in Seq(Object) /\ x \in Object
      /\ UNCHANGED <<vendor, queryTimer, cntr>>
  BY TailFacts DEF handle_task, TypeOK
<1>2. CASE x \in Templ /\ query_indexes(x)
  <2>1. CASE Fails /\ Replace(<<>>)
    BY <1>1, <1>2, <2>1, EmptyTasks DEF query_indexes, Fails
  <2>2. CASE (\E new \in NewInstances(x) : Replace(new)) /\ UNCHANGED failures
    <3>1. PICK new \in NewInstances(x) : Replace(new)
      BY <2>2
    <3>2. new \in Seq(Object)
      BY <3>1, ListedFacts
    <3> QED BY <1>1, <1>2, <2>2, <3>1, <3>2 DEF query_indexes
  <2> QED BY <1>2, <2>1, <2>2 DEF query_indexes
<1>3. CASE x \notin Templ /\ query_content(x)
  <2>1. CASE x \in Inst /\ InstanceDescribed(x)
    BY <1>1, <1>3, <2>1, ChildrenFacts DEF query_content, InstanceDescribed
  <2>2. CASE Fails /\ ContentLost
    BY <1>1, <1>3, <2>2, EmptyTasks DEF query_content, Fails, ContentLost
  <2>3. CASE /\ (x \in Inst /\ Vanished(x)) \/ x \in Single
             /\ ContentLost /\ UNCHANGED failures
    <3>1. x \in Inst => Vanished(x)
      BY <2>3, TreeAssumption DEF TreeAssumption
    <3> QED BY <1>1, <1>3, <2>3, <3>1, EmptyTasks DEF query_content, ContentLost
  <2> QED BY <1>3, <2>1, <2>2, <2>3 DEF query_content
<1> QED BY <1>2, <1>3 DEF handle_task

\* What a poll does to the list.
LEMMA Polled ==
  ASSUME TypeOK, query_onu_instances
  PROVE  /\ tasks' \in Seq(Object) /\ tasksTimer' \in BOOLEAN
         /\ ((tasks # <<>> => tasksTimer) => (tasks' # <<>> => tasksTimer'))
         /\ ToSet(tasks) \subseteq ToSet(tasks')
         /\ failures' \in 0 .. MaxFailures
         /\ failures' <= failures
         /\ ToSet(tasks') \subseteq ToSet(tasks)
              \cup {i \in vendor : TemplateOf[i] = Root /\ ~Known(i)}
<1>1. tasks \in Seq(Object) /\ tasksTimer \in BOOLEAN /\ failures \in 0 .. MaxFailures
  BY DEF TypeOK
<1>2. CASE UNCHANGED <<tasks, tasksTimer>> /\ (UNCHANGED failures \/ Fails)
  BY <1>1, <1>2, BoundAssumption DEF Fails, BoundAssumption
<1>3. CASE /\ \E new \in NewInstances(Root) : tasks' = tasks \o new
           /\ tasksTimer' = (tasksTimer \/ tasks' # <<>>)
           /\ UNCHANGED failures
  <2>1. PICK new \in NewInstances(Root) : tasks' = tasks \o new
    BY <1>3
  <2>2. /\ new \in Seq(Object)
        /\ ToSet(new) = {i \in vendor : TemplateOf[i] = Root /\ ~Known(i)}
    BY <2>1, ListedFacts
  <2>3. tasks' \in Seq(Object) /\ ToSet(tasks') = ToSet(tasks) \cup ToSet(new)
    BY <1>1, <2>1, <2>2, ConcatFacts
  <2>4. tasksTimer' \in BOOLEAN /\ (tasks' # <<>> => tasksTimer')
    BY <1>3, Zenon
  <2>5. failures' \in 0 .. MaxFailures /\ failures' <= failures
    BY <1>1, <1>3, BoundAssumption DEF BoundAssumption
  <2> QED BY <2>2, <2>3, <2>4, <2>5
<1> QED BY <1>2, <1>3 DEF query_onu_instances, PollOnus
-----------------------------------------------------------------------------
LEMMA SubtreeType ==
  ASSUME NEW i \in Inst
  PROVE  Subtree(i) \subseteq Inst
BY DEF Subtree, Down, Inst

LEMMA TypeInit == Init => TypeOK
<1> SUFFICES ASSUME Init PROVE TypeOK
  OBVIOUS
<1>1. vendor \subseteq Inst
  BY SubtreeType DEF Init, Inst
<1>2. /\ tasks \in Seq(Object) /\ tasksTimer \in BOOLEAN /\ queryTimer \in BOOLEAN
      /\ cntr \in 0 .. NrTimes + 1 /\ cntr <= NrTimes /\ failures \in 0 .. MaxFailures
  <2>1. tasks \in Seq(Object) /\ tasksTimer \in BOOLEAN /\ queryTimer \in BOOLEAN
    BY EmptyTasks, Zenon DEF Init
  <2> QED BY <2>1, BoundAssumption DEF Init, BoundAssumption
<1>3. ToSet(tasks) \cap FarOnu = {}
  BY EmptyTasks DEF Init
<1> QED BY <1>1, <1>2, <1>3 DEF Init, TypeOK

LEMMA TypeHandled == TypeOK /\ handle_task => TypeOK'
<1> SUFFICES ASSUME TypeOK, handle_task PROVE TypeOK'
  OBVIOUS
<1>1. PICK new \in Seq(Object) :
         /\ tasks # <<>> /\ Replace(new) /\ Head(tasks) \in Object
         /\ asked' = asked \cup {Head(tasks)}
         /\ UNCHANGED <<vendor, queryTimer, cntr>>
         /\ \/ \E t : new \in NewInstances(t)
            \/ Head(tasks) \in Inst /\ new = query_children(Head(tasks))
            \/ new = <<>>
         /\ \/ UNCHANGED <<dm, initialised, described, failures>>
            \/ Head(tasks) \in Inst /\ InstanceDescribed(Head(tasks))
            \/ /\ failures > 0 /\ failures' = failures - 1
               /\ UNCHANGED <<dm, initialised, described>>
  BY Handled
<1>2. /\ tasks' \in Seq(Object) /\ tasksTimer' \in BOOLEAN
      /\ ToSet(tasks') \subseteq ToSet(tasks) \cup ToSet(new)
  BY <1>1, Replaced DEF TypeOK
<1>3. /\ dm' \subseteq Inst /\ initialised' \subseteq Onu /\ described' \subseteq Inst
      /\ failures' \in 0 .. MaxFailures
  BY <1>1, BoundAssumption DEF TypeOK, InstanceDescribed, BoundAssumption
<1>4. ToSet(new) \cap FarOnu = {}
  <2>1. CASE \E t : new \in NewInstances(t)
    BY <2>1, ListedFacts
  <2>2. CASE Head(tasks) \in Inst /\ new = query_children(Head(tasks))
    BY <2>2, ChildrenFacts, TreeAssumption DEF TreeAssumption, Inst
  <2>3. CASE new = <<>>
    BY <2>3, EmptyTasks
  <2> QED BY <1>1, <2>1, <2>2, <2>3
<1>5. ToSet(tasks') \cap FarOnu = {}
  BY <1>2, <1>4 DEF TypeOK
<1> QED BY <1>1, <1>2, <1>3, <1>5 DEF TypeOK

LEMMA TypePolled == TypeOK /\ query_onu_instances => TypeOK'
<1> SUFFICES ASSUME TypeOK, query_onu_instances PROVE TypeOK'
  OBVIOUS
<1>1. tasks' \in Seq(Object) /\ tasksTimer' \in BOOLEAN /\ failures' \in 0 .. MaxFailures
  BY Polled
<1>2. /\ cntr' \in 0 .. NrTimes + 1 /\ queryTimer' \in BOOLEAN
      /\ (queryTimer' => cntr' <= NrTimes)
  <2>1. queryTimer /\ cntr \in 0 .. NrTimes
    BY BoundAssumption DEF TypeOK, query_onu_instances, BoundAssumption
  <2>2. \/ ~queryTimer' /\ cntr' = cntr
        \/ ~queryTimer' /\ cntr' = cntr + 1
        \/ cntr' = cntr + 1 /\ ~(cntr' > NrTimes)
    BY DEF query_onu_instances, LastPoll
  <2>3. queryTimer' \in BOOLEAN
    BY Zenon DEF TypeOK, query_onu_instances
  <2>4. cntr' \in 0 .. NrTimes + 1 /\ (queryTimer' => cntr' <= NrTimes)
    BY <2>1, <2>2, BoundAssumption DEF BoundAssumption
  <2> QED BY <2>3, <2>4
<1>3. ToSet(tasks') \cap FarOnu = {}
  <2>1. ToSet(tasks') \subseteq ToSet(tasks)
          \cup {i \in vendor : TemplateOf[i] = Root /\ ~Known(i)}
    BY Polled
  <2>2. \A i \in FarOnu : Known(i)
    BY TreeAssumption DEF Known, TreeAssumption
  <2> QED BY <2>1, <2>2 DEF TypeOK
<1> QED BY <1>1, <1>2, <1>3 DEF TypeOK, query_onu_instances

\* Every variable stays in its range; in particular query_indexes() makes no
\* task for an ONU whose index is not in 1 .. MAX_NR_OF_ONUS, from which
\* query_content() would index s_onu_initialised.
THEOREM TypeCorrect == Spec => []TypeOK
<1>1. TypeOK /\ [Next]_vars => TypeOK'
  <2> SUFFICES ASSUME TypeOK, [Next]_vars PROVE TypeOK'
    OBVIOUS
  <2>1. ASSUME NEW o \in Onu \cup FarOnu, VendorFindsOnu(o) PROVE TypeOK'
    BY <2>1, SubtreeType DEF VendorFindsOnu, TypeOK, Inst
  <2>2. ASSUME NEW i \in SelfAdded, dm_add_instance(i) PROVE TypeOK'
    BY <2>2 DEF dm_add_instance, TypeOK
  <2>3. ASSUME NEW i \in Removed, dm_remove_instance(i) PROVE TypeOK'
    BY <2>3 DEF dm_remove_instance, TypeOK
  <2>4. CASE UNCHANGED vars
    BY <2>4 DEF vars, TypeOK
  <2> QED BY <2>1, <2>2, <2>3, <2>4, TypeHandled, TypePolled DEF Next
<1> QED BY <1>1, TypeInit, PTL DEF Spec

\* handle_task() and query_onu_instances() never leave tasks without timer.
THEOREM TimerAlwaysArmed == Spec => []TasksTimerArmed
<1>1. Init => TasksTimerArmed
  BY DEF Init, TasksTimerArmed
<1>2. TypeOK /\ TasksTimerArmed /\ [Next]_vars => TasksTimerArmed'
  <2> SUFFICES ASSUME TypeOK, TasksTimerArmed, [Next]_vars PROVE TasksTimerArmed'
    OBVIOUS
  <2>1. CASE handle_task
    BY <2>1, Handled, Replaced DEF TypeOK, TasksTimerArmed
  <2>2. CASE query_onu_instances
    BY <2>2, Polled DEF TasksTimerArmed
  <2>3. CASE UNCHANGED <<tasks, tasksTimer>>
    BY <2>3 DEF TasksTimerArmed
  <2> QED
    BY <2>1, <2>2, <2>3
    DEF Next, VendorFindsOnu, dm_add_instance, dm_remove_instance, vars
<1> QED BY <1>1, <1>2, TypeCorrect, PTL DEF Spec
-----------------------------------------------------------------------------
LEMMA ChildrenHandled ==
  ASSUME TypeOK, ChildrenNotForgotten, handle_task
  PROVE  ChildrenNotForgotten'
<1>1. PICK new \in Seq(Object) :
         /\ tasks # <<>> /\ Replace(new)
         /\ asked' = asked \cup {Head(tasks)}
         /\ \/ UNCHANGED described
            \/ /\ Head(tasks) \in Inst /\ described' = described \cup {Head(tasks)}
               /\ new = query_children(Head(tasks))
  BY Handled DEF InstanceDescribed
<1>2. /\ ToSet(new) \subseteq ToSet(tasks')
      /\ ToSet(tasks) \subseteq {Head(tasks)} \cup ToSet(tasks')
  BY <1>1, Replaced DEF TypeOK
<1>3. \A x : HasTask(x) => x \in asked' \/ HasTask(x)'
  BY <1>1, <1>2 DEF HasTask, ToSet
<1>4. ASSUME NEW i \in described', NEW x \in Children(i)
      PROVE  x \in asked' \/ HasTask(x)'
  <2>1. CASE i \in described
    BY <1>1, <1>3, <2>1 DEF ChildrenNotForgotten
  <2>2. CASE i \notin described
    <3>1. i \in Inst /\ new = query_children(i)
      BY <1>1, <2>2
    <3>2. x \in ToSet(tasks')
      BY <1>2, <3>1, ChildrenFacts
    <3> QED BY <3>2 DEF HasTask, ToSet
  <2> QED BY <2>1, <2>2
<1> QED BY <1>4 DEF ChildrenNotForgotten

\* Once query_content() has put an instance in the data model, none of its
\* singletons and templates is forgotten.
THEOREM NoChildForgotten == Spec => []ChildrenNotForgotten
<1>1. Init => ChildrenNotForgotten
  BY DEF Init, ChildrenNotForgotten
<1>2. TypeOK /\ ChildrenNotForgotten /\ [Next]_vars => ChildrenNotForgotten'
  <2> SUFFICES ASSUME TypeOK, ChildrenNotForgotten, [Next]_vars
               PROVE  ChildrenNotForgotten'
    OBVIOUS
  <2>1. CASE query_onu_instances
    <3>1. UNCHANGED <<asked, described>> /\ ToSet(tasks) \subseteq ToSet(tasks')
      BY <2>1, Polled DEF query_onu_instances
    <3> QED BY <3>1 DEF ChildrenNotForgotten, HasTask, ToSet
  <2>2. ASSUME NEW i \in Removed, dm_remove_instance(i) PROVE ChildrenNotForgotten'
    <3>1. /\ described' = described \ Subtree(i) /\ UNCHANGED tasks
          /\ asked' = asked \ (Subtree(i) \cup
                       {x \in Single \cup Templ : Owner[x] \in Subtree(i)})
      BY <2>2 DEF dm_remove_instance
    <3>2. Subtree(i) \cap (Single \cup Templ) = {}
      BY SubtreeType, BoundAssumption, TreeAssumption DEF BoundAssumption, TreeAssumption
    <3> QED BY <3>1, <3>2 DEF ChildrenNotForgotten, Children, HasTask
  <2>3. CASE UNCHANGED <<tasks, asked, described>>
    BY <2>3 DEF ChildrenNotForgotten, HasTask
  <2> QED
    BY <2>1, <2>2, <2>3, ChildrenHandled
    DEF Next, VendorFindsOnu, dm_add_instance, vars
<1> QED BY <1>1, <1>2, TypeCorrect, PTL DEF Spec
-----------------------------------------------------------------------------
(***************************************************************************)
(* The walk is complete if the vendor module removes nothing, and announces*)
(* of its own accord only ONUs and instances without children.             *)
(***************************************************************************)

\* Instances that may be announced have nothing below them, ONUs aside.
OnlyLeaves == \A i \in SelfAdded \ Onu : Children(i) = {}

\* The vendor module knows an ONU with everything below it, or not at all.
WholeOnus ==
  \A o \in Onu \cup FarOnu :
    Subtree(o) \subseteq vendor \/ Subtree(o) \cap vendor = {}

\* Only a described instance has its templates handled, only a handled
\* template has instances, and only those of the vendor module are there.
TopDown ==
  /\ dm \subseteq vendor /\ initialised \subseteq described /\ described \subseteq dm
  /\ \A t \in Templ : t \in asked \/ t \in ToSet(tasks) => Owner[t] \in dm
  /\ \A i \in Inst \cap ToSet(tasks) :
       i \in vendor \ FarOnu /\ TemplateExists(TemplateOf[i])

\* No instance of a template that has been asked for is missed.
InstancesFound ==
  failures = MaxFailures =>
    \A c \in vendor : TemplateOf[c] \in Templ \cap asked => c \in dm \/ c \in ToSet(tasks)

\* An instance in the data model has been described, or needs not to be.
DescribedIfNeeded == \A c \in dm \cap Child : c \in described \/ Children(c) = {}

WInv == WholeOnus /\ TopDown /\ InstancesFound /\ DescribedIfNeeded

LEMMA ParentFacts ==
  /\ \A c \in Child : TemplateOf[c] \in Templ /\ Owner[TemplateOf[c]] \in Onu \cup Child
  /\ \A i \in Onu \cup FarOnu : TemplateOf[i] = Root /\ i \notin Child
  /\ \A i \in Inst : TemplateOf[i] \in Templ => i \in Child
  /\ Root \notin Templ
BY TreeAssumption DEF TreeAssumption, Inst

\* What is below an ONU, level by level.
LEMMA SubtreeFacts ==
  ASSUME NEW o, NEW c
  PROVE  c \in Subtree(o) <=>
           \/ c = o
           \/ c \in Child /\ Owner[TemplateOf[c]] = o
           \/ /\ c \in Child /\ Owner[TemplateOf[c]] \in Child
              /\ Owner[TemplateOf[Owner[TemplateOf[c]]]] = o
BY DEF Subtree, Down

\* An instance is below one ONU only.
LEMMA Disjoint ==
  ASSUME NEW o \in Onu \cup FarOnu, NEW p \in Onu \cup FarOnu, o # p
  PROVE  Subtree(o) \cap Subtree(p) = {}
BY SubtreeFacts, ParentFacts

LEMMA WalkInit == Init => WInv
<1> SUFFICES ASSUME Init PROVE WInv
  OBVIOUS
<1>1. WholeOnus
  <2>1. PICK S \in SUBSET (Onu \cup FarOnu) : vendor = UNION {Subtree(o) : o \in S}
    BY DEF Init
  <2>2. ASSUME NEW o \in Onu \cup FarOnu, o \notin S PROVE Subtree(o) \cap vendor = {}
    BY <2>1, <2>2, Disjoint
  <2>3. \A o \in S : Subtree(o) \subseteq vendor
    BY <2>1
  <2> QED BY <2>2, <2>3 DEF WholeOnus
<1>2. TopDown /\ InstancesFound /\ DescribedIfNeeded
  BY EmptyTasks DEF Init, TopDown, InstancesFound, DescribedIfNeeded
<1> QED BY <1>1, <1>2 DEF WInv

LEMMA WalkHandled ==
  ASSUME TypeOK, WInv, handle_task
  PROVE  WInv'
<1> DEFINE x == Head(tasks)
<1>1. PICK new \in Seq(Object) :
         /\ tasks # <<>> /\ Replace(new) /\ x \in Object
         /\ asked' = asked \cup {x} /\ UNCHANGED vendor
         /\ \/ /\ x \in Templ /\ new \in NewInstances(x)
               /\ UNCHANGED <<dm, initialised, described, failures>>
            \/ x \in Inst /\ InstanceDescribed(x) /\ new = query_children(x)
            \/ /\ failures > 0 /\ failures' = failures - 1
               /\ new = <<>> /\ UNCHANGED <<dm, initialised, described>>
            \/ /\ x \in Inst \cup Single
               /\ (x \in Inst => Vanished(x))
               /\ new = <<>> /\ UNCHANGED <<dm, initialised, described, failures>>
  BY Handled
<1>2. /\ ToSet(new) \subseteq ToSet(tasks') /\ x \in ToSet(tasks)
      /\ ToSet(tasks) \subseteq {x} \cup ToSet(tasks')
      /\ ToSet(tasks') \subseteq ToSet(tasks) \cup ToSet(new)
  BY <1>1, Replaced, TailFacts DEF TypeOK
<1>3. WholeOnus'
  BY <1>1 DEF WInv, WholeOnus
<1>4. CASE /\ x \in Templ /\ new \in NewInstances(x)
           /\ UNCHANGED <<dm, initialised, described, failures>>
  <2>1. ToSet(new) = {i \in vendor : TemplateOf[i] = x /\ ~Known(i)}
    BY <1>4, ListedFacts
  <2>2. Owner[x] \in dm
    BY <1>2, <1>4 DEF WInv, TopDown
  <2>3. \A i \in ToSet(new) : i \in Child \cap vendor /\ i \notin FarOnu \cup Templ
    BY <1>4, <2>1, ParentFacts, TreeAssumption DEF TypeOK, TreeAssumption, Inst
  <2>4. TopDown'
    <3>1. \A i \in ToSet(new) : TemplateExists(TemplateOf[i])
      BY <1>4, <2>1, <2>2 DEF TemplateExists
    <3> QED BY <1>1, <1>2, <1>4, <2>2, <2>3, <3>1 DEF WInv, TopDown, TemplateExists
  <2>5. InstancesFound'
    <3> SUFFICES ASSUME failures = MaxFailures, NEW c \in vendor,
                        TemplateOf[c] \in Templ \cap asked'
                 PROVE  c \in dm \/ c \in ToSet(tasks')
      BY <1>1, <1>4 DEF InstancesFound
    <3>1. c \in Child /\ c \notin Onu \cup FarOnu
      BY ParentFacts DEF TypeOK
    <3>2. CASE TemplateOf[c] = x
      BY <1>2, <2>1, <3>1, <3>2 DEF Known
    <3>3. CASE TemplateOf[c] # x
      <4>1. c \in dm \/ c \in ToSet(tasks)
        BY <1>1, <3>3 DEF WInv, InstancesFound
      <4>2. c # x
        BY <1>4, <3>1, TreeAssumption DEF TreeAssumption, Inst
      <4> QED BY <1>2, <4>1, <4>2
    <3> QED BY <3>2, <3>3
  <2>6. DescribedIfNeeded'
    BY <1>4 DEF WInv, DescribedIfNeeded
  <2> QED BY <1>3, <2>4, <2>5, <2>6 DEF WInv
<1>5. CASE x \in Inst /\ InstanceDescribed(x) /\ new = query_children(x)
  <2>1. /\ x \in vendor /\ x \notin FarOnu /\ x \notin Templ
        /\ dm' = dm \cup {x} /\ described' = described \cup {x}
        /\ initialised' \in {initialised, initialised \cup {x}} /\ UNCHANGED failures
    BY <1>2, <1>5, TreeAssumption DEF WInv, TopDown, InstanceDescribed, TreeAssumption
  <2>2. ToSet(new) = Children(x)
    BY <1>5, <2>1, ChildrenFacts
  <2>3. \A y \in Children(x) : y \notin Inst /\ (y \in Templ => Owner[y] = x)
    BY TreeAssumption DEF Children, TreeAssumption
  <2>4. TopDown'
    <3>1. \A t : TemplateExists(t) => TemplateExists(t)'
      BY <2>1 DEF TemplateExists
    <3> QED BY <1>1, <1>2, <2>1, <2>2, <2>3, <3>1 DEF WInv, TopDown
  <2>5. InstancesFound' /\ DescribedIfNeeded'
    BY <1>1, <1>2, <2>1 DEF WInv, InstancesFound, DescribedIfNeeded
  <2> QED BY <1>3, <2>4, <2>5 DEF WInv
<1>6. CASE /\ failures > 0 /\ failures' = failures - 1
           /\ new = <<>> /\ UNCHANGED <<dm, initialised, described>>
  <2>1. ToSet(new) = {} /\ failures' # MaxFailures
    BY <1>6, EmptyTasks, BoundAssumption DEF TypeOK, BoundAssumption
  <2>2. TopDown'
    BY <1>1, <1>2, <1>6, <2>1 DEF WInv, TopDown, TemplateExists
  <2>3. InstancesFound' /\ DescribedIfNeeded'
    BY <1>6, <2>1 DEF WInv, InstancesFound, DescribedIfNeeded
  <2> QED BY <1>3, <2>2, <2>3 DEF WInv
<1>7. CASE /\ x \in Inst \cup Single
           /\ (x \in Inst => Vanished(x))
           /\ new = <<>> /\ UNCHANGED <<dm, initialised, described, failures>>
  <2>1. x \in Single /\ x \notin Inst /\ x \notin Templ
    BY <1>2, <1>7, TreeAssumption DEF WInv, TopDown, Vanished, TreeAssumption
  <2>2. ToSet(new) = {}
    BY <1>7, EmptyTasks
  <2>3. TopDown'
    BY <1>1, <1>2, <1>7, <2>1, <2>2 DEF WInv, TopDown, TemplateExists
  <2>4. InstancesFound' /\ DescribedIfNeeded'
    BY <1>1, <1>2, <1>7, <2>1 DEF WInv, InstancesFound, DescribedIfNeeded, TypeOK
  <2> QED BY <1>3, <2>3, <2>4 DEF WInv
<1> QED BY <1>1, <1>4, <1>5, <1>6, <1>7

LEMMA WalkPolled ==
  ASSUME TypeOK, WInv, query_onu_instances
  PROVE  WInv'
<1>1. /\ UNCHANGED <<vendor, dm, initialised, asked, described>>
      /\ ToSet(tasks) \subseteq ToSet(tasks') /\ failures' <= failures
      /\ failures' \in 0 .. MaxFailures
      /\ ToSet(tasks') \subseteq ToSet(tasks)
           \cup {i \in vendor : TemplateOf[i] = Root /\ ~Known(i)}
  BY Polled DEF query_onu_instances
<1>2. \A i \in vendor : TemplateOf[i] = Root /\ ~Known(i) =>
        i \in vendor \ FarOnu /\ i \notin Templ /\ TemplateExists(TemplateOf[i])
  BY TreeAssumption DEF TypeOK, TreeAssumption, Known, TemplateExists
<1>3. TopDown'
  BY <1>1, <1>2 DEF WInv, TopDown, TemplateExists
<1>4. InstancesFound'
  BY <1>1, BoundAssumption DEF WInv, InstancesFound, TypeOK, BoundAssumption
<1> QED BY <1>1, <1>3, <1>4 DEF WInv, WholeOnus, DescribedIfNeeded

LEMMA WalkVendor ==
  ASSUME TypeOK, WInv, NEW o \in Onu \cup FarOnu, VendorFindsOnu(o)
  PROVE  WInv'
<1>1. /\ o \notin vendor /\ vendor' = vendor \cup Subtree(o)
      /\ UNCHANGED <<dm, tasks, initialised, failures, asked, described>>
  BY DEF VendorFindsOnu
<1>2. WholeOnus'
  BY <1>1, SubtreeFacts, Disjoint DEF WInv, WholeOnus
<1>3. TopDown'
  BY <1>1 DEF WInv, TopDown, TemplateExists
<1>4. ASSUME NEW c \in Subtree(o), TemplateOf[c] \in Templ \cap asked PROVE FALSE
  <2>1. Owner[TemplateOf[c]] \in vendor
    BY <1>4 DEF WInv, TopDown
  <2>2. c \in Child
    BY <1>4, SubtreeFacts, ParentFacts
  <2>3. Owner[TemplateOf[c]] \in Subtree(o)
    BY <1>4, <2>2, SubtreeFacts, ParentFacts
  <2>4. o \in Subtree(o)
    BY SubtreeFacts
  <2> QED BY <1>1, <2>1, <2>3, <2>4 DEF WInv, WholeOnus
<1>5. InstancesFound'
  BY <1>1, <1>4 DEF WInv, InstancesFound
<1> QED BY <1>1, <1>2, <1>3, <1>5 DEF WInv, DescribedIfNeeded

LEMMA WalkAnnounced ==
  ASSUME TypeOK, WInv, OnlyLeaves, NEW i \in SelfAdded, dm_add_instance(i)
  PROVE  WInv'
<1>1. /\ i \in vendor /\ dm' = dm \cup {i}
      /\ UNCHANGED <<vendor, tasks, initialised, failures, asked, described>>
  BY DEF dm_add_instance
<1>2. WholeOnus' /\ TopDown' /\ InstancesFound'
  BY <1>1 DEF WInv, WholeOnus, TopDown, TemplateExists, InstancesFound
<1>3. DescribedIfNeeded'
  BY <1>1, TreeAssumption
  DEF WInv, DescribedIfNeeded, OnlyLeaves, TreeAssumption
<1> QED BY <1>2, <1>3 DEF WInv

\* When handle_task() has no task left and no answer failed, everything below
\* an ONU that counts as initialised has been found and asked for.
THEOREM WalkIsComplete ==
  ASSUME Removed = {}, OnlyLeaves
  PROVE  Spec => []WalkComplete
<1>1. TypeOK /\ WInv /\ [Next]_vars => WInv'
  <2> SUFFICES ASSUME TypeOK, WInv, [Next]_vars PROVE WInv'
    OBVIOUS
  <2>1. CASE UNCHANGED vars
    BY <2>1
    DEF vars, WInv, WholeOnus, TopDown, TemplateExists, InstancesFound, DescribedIfNeeded
  <2> QED BY <2>1, WalkHandled, WalkPolled, WalkVendor, WalkAnnounced DEF Next
<1>2. TypeOK /\ ChildrenNotForgotten /\ WInv => WalkComplete
  <2> SUFFICES ASSUME TypeOK, ChildrenNotForgotten, WInv,
                      tasks = <<>>, failures = MaxFailures,
                      NEW o \in initialised \cap dm, NEW i \in Subtree(o) \cap vendor
               PROVE  i \in dm /\ Children(i) \subseteq asked
    BY DEF WalkComplete
  <2>1. \A j \in described : Children(j) \subseteq asked
    BY DEF ChildrenNotForgotten, HasTask
  <2>2. ASSUME NEW c \in Child \cap vendor, Owner[TemplateOf[c]] \in described \cup dm,
               Children(Owner[TemplateOf[c]]) \subseteq asked
        PROVE  c \in dm /\ Children(c) \subseteq asked
    <3>1. TemplateOf[c] \in Templ \cap asked
      BY <2>2, ParentFacts DEF Children
    <3>2. c \in dm
      BY <2>2, <3>1, EmptyTasks DEF WInv, InstancesFound
    <3> QED BY <2>1, <2>2, <3>2 DEF WInv, DescribedIfNeeded
  <2>3. o \in dm /\ o \in Onu /\ Children(o) \subseteq asked
    BY <2>1 DEF WInv, TopDown, TypeOK
  <2>4. CASE i = o
    BY <2>3, <2>4
  <2>5. CASE i \in Child /\ Owner[TemplateOf[i]] = o
    BY <2>2, <2>3, <2>5
  <2>6. CASE /\ i \in Child /\ Owner[TemplateOf[i]] \in Child
             /\ Owner[TemplateOf[Owner[TemplateOf[i]]]] = o
    <3> DEFINE c == Owner[TemplateOf[i]]
    <3>1. c \in Child \cap vendor
      BY <2>3, <2>6, SubtreeFacts DEF WInv, WholeOnus, TopDown
    <3>2. c \in dm /\ Children(c) \subseteq asked
      BY <2>2, <2>3, <2>6, <3>1
    <3> QED BY <2>2, <2>6, <3>2
  <2> QED BY <2>4, <2>5, <2>6, SubtreeFacts
<1> QED BY <1>1, <1>2, WalkInit, TypeCorrect, NoChildForgotten, PTL DEF Spec

\* If no ONU is removed, query_onu_instances() stops its timer only when all
\* are in the data model or the time is over.
THEOREM PollingNotStoppedEarly ==
  ASSUME Removed = {}
  PROVE  Spec => StopsPollingWhenFound
<1> DEFINE Present == initialised \subseteq dm
<1>1. Init => Present
  BY DEF Init
<1>2. TypeOK /\ Present /\ [Next]_vars => Present'
  <2> SUFFICES ASSUME TypeOK, Present, [Next]_vars PROVE Present'
    OBVIOUS
  <2>1. CASE handle_task
    BY <2>1, Handled DEF InstanceDescribed
  <2> QED
    BY <2>1
    DEF Next, query_onu_instances, VendorFindsOnu, dm_add_instance, vars
<1>3. Present /\ [Next]_vars =>
        [queryTimer /\ ~queryTimer' => Onu \subseteq dm \/ cntr' > NrTimes]_vars
  <2> SUFFICES ASSUME Present, Next, queryTimer, ~queryTimer'
               PROVE  Onu \subseteq dm \/ cntr' > NrTimes
    BY DEF vars
  <2>1. query_onu_instances
    BY Handled
    DEF Next, handle_task, VendorFindsOnu, dm_add_instance, dm_remove_instance
  <2> QED BY <2>1 DEF query_onu_instances, LastPoll
<1> QED
  BY <1>1, <1>2, <1>3, TypeCorrect, PTL DEF Spec, StopsPollingWhenFound
==============================================================================
