--------------------------- MODULE Password_proofs ---------------------------
(***************************************************************************)
(* Proofs about Password, for any set of passwords, any faults of the file *)
(* system, and a stop of the process between any two steps.                *)
(***************************************************************************)
EXTENDS Password, SequenceTheorems, TLAPS

Both == files["ascii"] # None /\ files["hex"] # None

\* What the file of the job's own format is to hold.
OwnValue == IF job.pw = Empty THEN None ELSE job.pw

\* How far the job has come with the files.
JobShape ==
  /\ job.pw = Empty => job.hex = FALSE
  /\ pc = "write" => Saved = before /\ failed = FALSE
  /\ pc \in {"unlink", "tell"} /\ ~failed => files[Own] = OwnValue
  /\ pc = "tell" => files[Other] = None

\* After a job there is one file, with what the vendor module was told.
FilesAgree ==
  pc = "idle" /\ told # Nothing /\ ~failed =>
    Saved = Target(told.pw, told.hex) /\ \E f \in Formats : files[f] = None

\* The last of the queued events, the job and the password last told is the
\* password of the data model.
Latest ==
  ~lagging =>
    /\ ~ani => events = <<>>
    /\ ani /\ events # <<>> => events[Len(events)] = password
    /\ ani /\ events = <<>> /\ pc # "idle" => job.pw = password
    /\ ani /\ events = <<>> /\ pc = "idle" =>
         IF told = Nothing THEN password = Empty ELSE told.pw = password

\* Two files left by a crash are put in order by a password that is not empty
\* before an empty one can be handled.
CrashRepaired ==
  ~lagging /\ Both =>
    /\ pc = "idle" /\ events # <<>> => Head(events) # Empty
    /\ pc = "idle" /\ events = <<>> => password = Empty
    /\ pc = "write" => job.pw # Empty

IInv ==
  /\ TypeOK /\ OldOrNew /\ JobShape /\ FilesAgree /\ Latest /\ CrashRepaired
-----------------------------------------------------------------------------
LEMMA SavedCases ==
  /\ files["ascii"] # None => Saved = Pair(files["ascii"], FALSE)
  /\ files["ascii"] = None /\ files["hex"] # None => Saved = Pair(files["hex"], TRUE)
  /\ files["ascii"] = None /\ files["hex"] = None => Saved = Nothing
BY DEF Saved, upgr_persistency_get_password

LEMMA SavedType ==
  ASSUME TypeOK
  PROVE  Saved \in [pw : Passwords \cup {None, Truncated}, hex : BOOLEAN]
<1>1. files["ascii"] \in Passwords \cup {None, Truncated}
  BY DEF TypeOK, Formats
<1>2. files["hex"] \in Passwords \cup {None, Truncated}
  BY DEF TypeOK, Formats
<1>3. \A p \in Passwords \cup {None, Truncated}, h \in BOOLEAN :
        Pair(p, h) \in [pw : Passwords \cup {None, Truncated}, hex : BOOLEAN]
  BY Zenon DEF Pair
<1>4. FALSE \in BOOLEAN /\ TRUE \in BOOLEAN /\ Nothing = Pair(None, FALSE)
  BY DEF Nothing
<1>5. CASE files["ascii"] # None
  BY <1>1, <1>3, <1>4, <1>5, SavedCases, Zenon
<1>6. CASE files["ascii"] = None
  BY <1>2, <1>3, <1>4, <1>6, SavedCases, Zenon
<1> QED BY <1>5, <1>6

\* The queue of Password events.
LEMMA Committed ==
  ASSUME TypeOK, NEW old, NEW new \in Passwords \cup {Empty}, CommitPassword(old, new)
  PROVE  /\ events' \in Seq(Passwords \cup {Empty}) /\ Len(events') <= MaxEvents
         /\ old = new => events' = events
         /\ old # new =>
              /\ events' # <<>> /\ events'[Len(events')] = new
              /\ events = <<>> => Head(events') = new
              /\ events # <<>> => Head(events') = Head(events)
<1>1. CASE old = new
  BY <1>1 DEF CommitPassword, TypeOK
<1>2. CASE old # new
  <2>1. /\ events' = Append(events, new) /\ Len(events) < MaxEvents
        /\ Len(events) \in Nat /\ events \in Seq(Passwords \cup {Empty})
    BY <1>2, LenProperties DEF CommitPassword, TypeOK
  <2>2. /\ events' \in Seq(Passwords \cup {Empty}) /\ Len(events') = Len(events) + 1
        /\ events' # <<>> /\ events'[Len(events) + 1] = new
        /\ \A i \in 1 .. Len(events) : events'[i] = events[i]
    BY <2>1, AppendProperties
  <2>3. Head(events') = events'[1]
    BY <2>2, HeadTailProperties
  <2>4. CASE events = <<>>
    BY <1>2, <2>1, <2>2, <2>3, <2>4, EnvironmentAssumption, EmptySeq
    DEF EnvironmentAssumption
  <2>5. CASE events # <<>>
    <3>1. 1 \in 1 .. Len(events) /\ Head(events) = events[1]
      BY <2>1, <2>5, HeadTailProperties, EmptySeq
    <3> QED BY <1>2, <2>1, <2>2, <2>3, <2>5, <3>1, EnvironmentAssumption
            DEF EnvironmentAssumption
  <2> QED BY <2>4, <2>5
<1> QED BY <1>1, <1>2

LEMMA Delivered ==
  ASSUME TypeOK, events # <<>>, events' = Tail(events)
  PROVE  /\ Head(events) \in Passwords \cup {Empty}
         /\ events' \in Seq(Passwords \cup {Empty}) /\ Len(events') <= MaxEvents
         /\ events' = <<>> => Head(events) = events[Len(events)]
         /\ events' # <<>> => events'[Len(events')] = events[Len(events)]
<1>1. /\ events \in Seq(Passwords \cup {Empty}) /\ Len(events) \in Nat
      /\ Len(events) > 0 /\ Len(events) <= MaxEvents
  BY LenProperties, EmptySeq DEF TypeOK
<1>2. /\ Head(events) \in Passwords \cup {Empty} /\ Head(events) = events[1]
      /\ events' \in Seq(Passwords \cup {Empty}) /\ Len(events') = Len(events) - 1
      /\ \A i \in 1 .. Len(events') : events'[i] = events[i + 1]
  BY <1>1, HeadTailProperties
<1>3. events' = <<>> => Len(events) = 1
  <2>1. events' = <<>> => Len(events') = 0
    BY Zenon, EmptySeq
  <2> QED BY <1>1, <1>2, <2>1
<1>4. events' # <<>> => Len(events') \in 1 .. Len(events')
  BY <1>1, <1>2, EmptySeq
<1> QED
  BY <1>1, <1>2, <1>3, <1>4, EnvironmentAssumption DEF EnvironmentAssumption
-----------------------------------------------------------------------------
LEMMA InvInit == Init => IInv
<1> SUFFICES ASSUME Init PROVE IInv
  OBVIOUS
<1>1. /\ events \in Seq(Passwords \cup {Empty}) /\ Len(events) = 0
  BY EmptySeq DEF Init
<1>2. ani \in BOOLEAN /\ hex \in BOOLEAN /\ failed \in BOOLEAN /\ lagging \in BOOLEAN
  BY Zenon DEF Init
<1>3. TypeOK
  BY <1>1, <1>2, EnvironmentAssumption
  DEF Init, TypeOK, NoJob, Nothing, Pair, Formats, EnvironmentAssumption
<1>4. Both = FALSE /\ job.hex = FALSE
  BY DEF Init, Both, NoJob, Formats
<1> QED
  BY <1>3, <1>4
  DEF IInv, Init, OldOrNew, JobShape, FilesAgree, Latest, CrashRepaired

\* While no job runs, a step that leaves the files alone concerns only the
\* queue and the data model.
LEMMA IdleStep ==
  ASSUME pc = "idle", UNCHANGED <<pc, job, before, failed, files>>, IInv,
         told' = told \/ told' = Nothing
  PROVE  /\ OldOrNew' /\ JobShape' /\ FilesAgree'
         /\ (Both' <=> Both)
BY DEF IInv, OldOrNew, JobShape, FilesAgree, Both, Saved,
       upgr_persistency_get_password, Own, OwnValue

LEMMA InvWrite ==
  ASSUME IInv, NEW w \in Writes, NEW p \in Passwords \cup {Empty}, NEW h \in BOOLEAN,
         WriteAuthentication(w, p, h)
  PROVE  IInv'
<1> DEFINE new == IF w = "hex" THEN password ELSE p
<1>1. /\ pc = "idle" /\ ani /\ password' = new /\ CommitPassword(password, new)
      /\ hex' = (IF w = "password" THEN hex ELSE h)
      /\ UNCHANGED <<ani, mode, pc, job, before, failed, files, told, lagging>>
  BY DEF WriteAuthentication, jobVars
<1>2. TypeOK /\ new \in Passwords \cup {Empty}
  BY DEF IInv, TypeOK
<1> HIDE DEF new
<1>3. /\ events' \in Seq(Passwords \cup {Empty}) /\ Len(events') <= MaxEvents
      /\ password = new => events' = events
      /\ password # new =>
           /\ events' # <<>> /\ events'[Len(events')] = new
           /\ events = <<>> => Head(events') = new
           /\ events # <<>> => Head(events') = Head(events)
  BY <1>1, <1>2, Committed
<1>4. TypeOK'
  <2>1. hex' \in BOOLEAN
    BY <1>1, <1>2 DEF TypeOK
  <2> QED BY <1>1, <1>2, <1>3, <2>1 DEF TypeOK
<1>5. OldOrNew' /\ JobShape' /\ FilesAgree' /\ (Both' <=> Both)
  BY <1>1, IdleStep
<1>6. Latest'
  BY <1>1, <1>3 DEF IInv, Latest
<1>7. CrashRepaired'
  BY <1>1, <1>3, <1>5 DEF IInv, CrashRepaired
<1> QED BY <1>4, <1>5, <1>6, <1>7 DEF IInv

LEMMA InvMode ==
  ASSUME IInv, NEW m \in Modes, ChangeMode(m)
  PROVE  IInv'
<1>1. /\ pc = "idle" /\ ani /\ mode' = m
      /\ UNCHANGED <<ani, password, hex, events, pc, job, before, failed, files,
                     told, lagging>>
  BY DEF ChangeMode, jobVars
<1>2. TypeOK'
  BY <1>1 DEF IInv, TypeOK
<1>3. OldOrNew' /\ JobShape' /\ FilesAgree' /\ (Both' <=> Both)
  BY <1>1, IdleStep
<1> QED BY <1>1, <1>2, <1>3 DEF IInv, Latest, CrashRepaired

LEMMA InvAdd ==
  ASSUME IInv, NEW m \in Modes, dm_add_instance(m)
  PROVE  IInv'
<1>1. /\ pc = "idle" /\ ~ani /\ ani' = TRUE /\ mode' = m /\ told' = Nothing
      /\ password' = Restored(m).pw /\ hex' = Restored(m).hex
      /\ CommitPassword(Empty, Restored(m).pw)
      /\ UNCHANGED <<pc, job, before, failed, files, lagging>>
  BY DEF dm_add_instance, jobVars
<1>2. TypeOK /\ (~lagging => events = <<>>)
  BY <1>1 DEF IInv, Latest
<1>3. Restored(m) \in [pw : Passwords \cup {Empty}, hex : BOOLEAN]
  <2>1. Saved \in [pw : Passwords \cup {None, Truncated}, hex : BOOLEAN]
    BY <1>2, SavedType
  <2>2. Accepted(FALSE, Saved.hex, m) \subseteq Passwords \cup {Empty}
    BY DEF Accepted
  <2>5. \A q \in Passwords \cup {Empty}, h \in BOOLEAN :
          [pw |-> q, hex |-> h] \in [pw : Passwords \cup {Empty}, hex : BOOLEAN]
    BY Zenon
  <2>3. CASE Saved.pw \in Accepted(FALSE, Saved.hex, m)
    <3>1. Saved.pw \in Passwords \cup {Empty} /\ Restored(m) = Saved
      BY <2>2, <2>3 DEF Restored
    <3>2. Restored(m) = [pw |-> Saved.pw, hex |-> Saved.hex]
      BY <2>1, <3>1
    <3>3. Saved.hex \in BOOLEAN
      BY <2>1
    <3> QED BY <2>5, <3>1, <3>2, <3>3
  <2>4. CASE Saved.pw \notin Accepted(FALSE, Saved.hex, m)
    <3>1. Restored(m) = [pw |-> Empty, hex |-> FALSE]
      BY <2>4 DEF Restored, Pair
    <3> QED BY <2>5, <3>1
  <2> QED BY <2>3, <2>4
<1>4. password' \in Passwords \cup {Empty} /\ hex' \in BOOLEAN /\ ani' \in BOOLEAN
  BY <1>1, <1>3, Zenon
<1>5. /\ events' \in Seq(Passwords \cup {Empty}) /\ Len(events') <= MaxEvents
      /\ Empty = password' => events' = events
      /\ Empty # password' =>
           /\ events' # <<>> /\ events'[Len(events')] = password'
           /\ events = <<>> => Head(events') = password'
  BY <1>1, <1>2, <1>4, Committed
<1>6. told' \in [pw : Passwords \cup {Empty, None}, hex : BOOLEAN]
  BY <1>1, Zenon DEF Nothing, Pair
<1>7. TypeOK'
  BY <1>1, <1>2, <1>4, <1>5, <1>6 DEF TypeOK
<1>8. OldOrNew' /\ JobShape' /\ FilesAgree' /\ (Both' <=> Both)
  BY <1>1, IdleStep
<1>9. Latest' /\ CrashRepaired'
  BY <1>1, <1>2, <1>5 DEF Latest, CrashRepaired
<1> QED BY <1>7, <1>8, <1>9 DEF IInv

LEMMA InvRemove ==
  ASSUME IInv, dm_remove_instance
  PROVE  IInv'
<1>1. /\ pc = "idle" /\ ani /\ ani' = FALSE /\ mode' = "Unknown" /\ told' = Nothing
      /\ password' = Empty /\ hex' = FALSE
      /\ lagging' = (lagging \/ events # <<>>)
      /\ UNCHANGED <<events, pc, job, before, failed, files>>
  BY DEF dm_remove_instance, jobVars
<1>2. /\ ani' \in BOOLEAN /\ hex' \in BOOLEAN /\ lagging' \in BOOLEAN
      /\ told' \in [pw : Passwords \cup {Empty, None}, hex : BOOLEAN]
  BY <1>1, Zenon DEF Nothing, Pair
<1>3. TypeOK'
  BY <1>1, <1>2 DEF IInv, TypeOK
<1>4. OldOrNew' /\ JobShape' /\ FilesAgree' /\ (Both' <=> Both)
  BY <1>1, IdleStep
<1>5. ~lagging' => events' = <<>>
  BY <1>1
<1>6. Latest' /\ CrashRepaired'
  BY <1>1, <1>5 DEF Latest, CrashRepaired
<1> QED BY <1>3, <1>4, <1>6 DEF IInv

LEMMA InvChanged ==
  ASSUME IInv, password_changed
  PROVE  IInv'
<1> DEFINE p == Head(events)
<1>1. /\ pc = "idle" /\ events # <<>> /\ events' = Tail(events) /\ TypeOK
      /\ UNCHANGED <<ani, mode, password, hex, files, told, lagging>>
  BY DEF password_changed, dmVars, IInv
<1>2. /\ p \in Passwords \cup {Empty}
      /\ events' \in Seq(Passwords \cup {Empty}) /\ Len(events') <= MaxEvents
      /\ events' = <<>> => p = events[Len(events)]
      /\ events' # <<>> => events'[Len(events')] = events[Len(events)]
  BY <1>1, Delivered
<1>3. CASE p # Empty /\ ~ani
  <2>1. UNCHANGED <<pc, job, before, failed>>
    BY <1>3 DEF password_changed, jobVars
  <2>2. lagging
    BY <1>1, <1>3 DEF IInv, Latest
  <2>3. TypeOK'
    BY <1>1, <1>2, <2>1 DEF TypeOK
  <2>4. OldOrNew' /\ JobShape' /\ FilesAgree'
    BY <1>1, <2>1, IdleStep
  <2> QED BY <1>1, <2>2, <2>3, <2>4 DEF IInv, Latest, CrashRepaired
<1>4. CASE ~(p # Empty /\ ~ani)
  <2>1. /\ job' = [pw |-> p, hex |-> p # Empty /\ hex, ok |-> TRUE]
        /\ pc' = "write" /\ before' = Saved /\ failed' = FALSE
    BY <1>4 DEF password_changed
  <2>2. /\ job' \in [pw : Passwords \cup {Empty}, hex : BOOLEAN, ok : BOOLEAN]
        /\ failed' \in BOOLEAN
    BY <1>2, <2>1, Zenon
  <2>3. job'.pw = p /\ (job'.pw = Empty => job'.hex = FALSE)
    BY <2>1
  <2>4. Saved' = Saved /\ (Both' <=> Both)
    BY <1>1 DEF Saved, upgr_persistency_get_password, Both
  <2>5. TypeOK'
    BY <1>1, <1>2, <2>1, <2>2, SavedType DEF TypeOK
  <2>6. OldOrNew' /\ JobShape' /\ FilesAgree'
    BY <2>1, <2>3, <2>4 DEF OldOrNew, JobShape, FilesAgree
  <2>7. Latest'
    BY <1>1, <1>2, <2>1, <2>3 DEF IInv, Latest
  <2>8. CrashRepaired'
    BY <1>1, <2>1, <2>3, <2>4 DEF IInv, CrashRepaired
  <2> QED BY <2>5, <2>6, <2>7, <2>8 DEF IInv
<1> QED BY <1>3, <1>4

\* The step that writes or removes the file of the job's own format.
LEMMA SavedFirst ==
  ASSUME TypeOK, JobShape, SaveFirst
  PROVE  /\ files' \in [Formats -> Passwords \cup {None, Truncated}]
         /\ files'[Other] = files[Other] /\ Own' = Own /\ Other' = Other
         /\ job' \in [pw : Passwords \cup {Empty}, hex : BOOLEAN, ok : BOOLEAN]
         /\ job'.pw = job.pw /\ job'.hex = job.hex /\ failed' \in BOOLEAN
         /\ ~failed' => files'[Own] = OwnValue
<1>1. /\ Own \in Formats /\ Other \in Formats /\ Own # Other
      /\ files \in [Formats -> Passwords \cup {None, Truncated}]
      /\ job \in [pw : Passwords \cup {Empty}, hex : BOOLEAN, ok : BOOLEAN]
  BY DEF TypeOK, Own, Other, Formats
<1>2. CASE job.pw = Empty
  <2>1. files' = [files EXCEPT ![Own] = None] /\ UNCHANGED <<job, failed>>
    BY <1>2 DEF SaveFirst
  <2> QED BY <1>1, <1>2, <2>1 DEF TypeOK, Own, Other, OwnValue
<1>3. CASE job.pw # Empty
  <2>1. PICK r \in WriteResults :
          /\ files' = [files EXCEPT ![Own] = write_file(r).text]
          /\ job' = [job EXCEPT !.ok = write_file(r).ok]
          /\ failed' = (files'[Own] # job.pw)
    BY <1>3 DEF SaveFirst
  <2>2. r \in {"ok", "write", "close", "sync"}
    BY EnvironmentAssumption DEF WriteResults, EnvironmentAssumption
  <2>3. /\ write_file(r).text \in {Truncated, files[Own], job.pw}
        /\ write_file(r).ok \in {TRUE, FALSE}
    BY <2>2 DEF write_file
  <2>4. /\ files' \in [Formats -> Passwords \cup {None, Truncated}]
        /\ files'[Other] = files[Other]
    BY <1>1, <1>3, <2>1, <2>3
  <2>5. failed' \in BOOLEAN /\ (~failed' => files'[Own] = job.pw)
    BY <2>1, Zenon
  <2>6. /\ job' \in [pw : Passwords \cup {Empty}, hex : BOOLEAN, ok : BOOLEAN]
        /\ job'.pw = job.pw /\ job'.hex = job.hex
    <3>1. write_file(r).ok \in BOOLEAN
      BY <2>3, Zenon
    <3> QED BY <1>1, <2>1, <3>1
  <2> QED BY <1>3, <2>4, <2>5, <2>6 DEF Own, Other, OwnValue
<1> QED BY <1>2, <1>3

LEMMA InvSaveFirst ==
  ASSUME IInv, SaveFirst
  PROVE  IInv'
<1>1. /\ pc = "write" /\ pc' = "unlink"
      /\ UNCHANGED <<ani, mode, password, hex, events, told, before, lagging>>
      /\ TypeOK /\ JobShape /\ Saved = before
  BY DEF SaveFirst, dmVars, IInv, JobShape
<1>2. /\ files' \in [Formats -> Passwords \cup {None, Truncated}]
      /\ files'[Other] = files[Other] /\ Own' = Own /\ Other' = Other
      /\ job' \in [pw : Passwords \cup {Empty}, hex : BOOLEAN, ok : BOOLEAN]
      /\ job'.pw = job.pw /\ job'.hex = job.hex /\ failed' \in BOOLEAN
      /\ ~failed' => files'[Own] = OwnValue
  BY <1>1, SavedFirst
<1>3. TypeOK'
  BY <1>1, <1>2 DEF TypeOK
<1>4. JobShape' /\ FilesAgree' /\ CrashRepaired'
  BY <1>1, <1>2 DEF JobShape, FilesAgree, CrashRepaired, OwnValue
<1>5. Latest'
  BY <1>1, <1>2 DEF IInv, Latest
<1>6. OldOrNew'
  <2> SUFFICES ASSUME ~failed', ~lagging
               PROVE  Saved' \in {before, Target(job.pw, job.hex)}
    BY <1>1, <1>2 DEF OldOrNew, Target
  <2>1. Both => job.pw # Empty
    BY <1>1 DEF IInv, CrashRepaired
  <2>2. /\ files'["ascii"] # None => Saved' = Pair(files'["ascii"], FALSE)
        /\ files'["ascii"] = None /\ files'["hex"] # None => Saved' = Pair(files'["hex"], TRUE)
        /\ files'["ascii"] = None /\ files'["hex"] = None => Saved' = Nothing
    BY DEF Saved, upgr_persistency_get_password
  <2>3. CASE job.pw = Empty
    <3>1. job.hex = FALSE /\ files'["ascii"] = None /\ files'["hex"] = files["hex"]
      BY <1>1, <1>2, <2>3 DEF JobShape, Own, Other, OwnValue
    <3>2. files["ascii"] # None => files["hex"] = None
      BY <2>1, <2>3 DEF Both
    <3> QED BY <1>1, <2>2, <2>3, <3>1, <3>2, SavedCases DEF Target
  <2>4. CASE job.pw # Empty /\ ~job.hex
    <3>1. files'["ascii"] = job.pw /\ job.pw # None /\ job.hex = FALSE
      BY <1>1, <1>2, <2>4, PasswordAssumption
      DEF TypeOK, Own, OwnValue, PasswordAssumption
    <3> QED BY <2>2, <2>4, <3>1 DEF Target
  <2>5. CASE job.pw # Empty /\ job.hex
    <3>1. /\ files'["hex"] = job.pw /\ files'["ascii"] = files["ascii"]
          /\ job.pw # None /\ job.hex = TRUE
      BY <1>1, <1>2, <2>5, PasswordAssumption
      DEF TypeOK, Own, Other, OwnValue, PasswordAssumption
    <3> QED BY <1>1, <2>2, <2>5, <3>1, SavedCases DEF Target
  <2> QED BY <2>3, <2>4, <2>5
<1> QED BY <1>3, <1>4, <1>5, <1>6 DEF IInv

\* Once the other file is gone, what can be read back is the job's password.
LEMMA OnlyOwn ==
  ASSUME NEW f, NEW p \in Passwords \cup {Empty}, NEW h \in BOOLEAN,
         p = Empty => h = FALSE,
         f[IF h THEN "hex" ELSE "ascii"] = (IF p = Empty THEN None ELSE p),
         f[IF h THEN "ascii" ELSE "hex"] = None
  PROVE  upgr_persistency_get_password(f) = Target(p, h)
<1>1. CASE h = TRUE
  <2>1. p # Empty /\ p # None /\ f["hex"] = p /\ f["ascii"] = None
    BY <1>1, PasswordAssumption DEF PasswordAssumption
  <2> QED BY <1>1, <2>1 DEF upgr_persistency_get_password, Target
<1>2. CASE h = FALSE
  <2>1. f["hex"] = None /\ f["ascii"] = (IF p = Empty THEN None ELSE p)
    BY <1>2
  <2>2. p # None
    BY PasswordAssumption DEF PasswordAssumption, Empty, None
  <2> QED BY <1>2, <2>1, <2>2 DEF upgr_persistency_get_password, Target
<1> QED BY <1>1, <1>2

LEMMA InvSaveSecond ==
  ASSUME IInv, SaveSecond
  PROVE  IInv'
<1>1. /\ pc = "unlink" /\ pc' = "tell" /\ files' = [files EXCEPT ![Other] = None]
      /\ UNCHANGED <<ani, mode, password, hex, events, job, told, before, failed, lagging>>
      /\ TypeOK /\ JobShape
  BY DEF SaveSecond, dmVars, IInv
<1>2. /\ Own \in Formats /\ Other \in Formats /\ Own # Other
      /\ Formats = {Own, Other}
  BY DEF Own, Other, Formats
<1>3. /\ files' \in [Formats -> Passwords \cup {None, Truncated}]
      /\ files'[Other] = None /\ files'[Own] = files[Own]
      /\ Own' = Own /\ Other' = Other /\ OwnValue' = OwnValue
  BY <1>1, <1>2 DEF TypeOK, Own, Other, OwnValue
<1>4. TypeOK'
  BY <1>1, <1>3 DEF TypeOK
<1>5. JobShape'
  BY <1>1, <1>3 DEF JobShape
<1>6. OldOrNew'
  <2>1. ~failed => files[Own] = OwnValue
    BY <1>1 DEF JobShape
  <2>2. /\ job.pw \in Passwords \cup {Empty} /\ job.hex \in BOOLEAN
        /\ job.pw = Empty => job.hex = FALSE
    BY <1>1 DEF TypeOK, JobShape
  <2>3. ~failed => upgr_persistency_get_password(files') = Target(job.pw, job.hex)
    BY <1>3, <2>1, <2>2, OnlyOwn DEF Own, Other, OwnValue
  <2>4. Saved' = upgr_persistency_get_password(files')
    BY DEF Saved, upgr_persistency_get_password
  <2>5. ~failed' => Saved' = Target(job.pw, job.hex)'
    BY <1>1, <2>3, <2>4 DEF Target
  <2> QED BY <2>5 DEF OldOrNew
<1>7. ~Both'
  BY <1>2, <1>3 DEF Both, Own, Other
<1>8. FilesAgree' /\ Latest' /\ CrashRepaired'
  BY <1>1, <1>7 DEF IInv, FilesAgree, Latest, CrashRepaired
<1> QED BY <1>4, <1>5, <1>6, <1>8 DEF IInv

LEMMA InvTell ==
  ASSUME IInv, pon_ctrl_set_password
  PROVE  IInv'
<1>1. /\ pc = "tell" /\ pc' = "idle" /\ told' = Pair(job.pw, job.hex)
      /\ job' = NoJob /\ before' = Nothing
      /\ UNCHANGED <<ani, mode, password, hex, events, files, failed, lagging>>
      /\ TypeOK /\ JobShape
  BY DEF pon_ctrl_set_password, dmVars, IInv
<1>2. told'.pw = job.pw /\ told'.hex = job.hex /\ told' # Nothing
  <2>1. told' = [pw |-> job.pw, hex |-> job.hex]
    BY <1>1 DEF Pair
  <2>2. job.pw # None
    BY <1>1, PasswordAssumption DEF TypeOK, PasswordAssumption, Empty, None
  <2> QED BY <2>1, <2>2 DEF Nothing, Pair
<1>3. /\ told' \in [pw : Passwords \cup {Empty, None}, hex : BOOLEAN]
      /\ before' \in [pw : Passwords \cup {None, Truncated}, hex : BOOLEAN]
      /\ job' \in [pw : Passwords \cup {Empty}, hex : BOOLEAN, ok : BOOLEAN]
      /\ job'.hex = FALSE
  <2>1. job.pw \in Passwords \cup {Empty, None} /\ job.hex \in BOOLEAN
    BY <1>1 DEF TypeOK
  <2> QED BY <1>1, <2>1, Zenon DEF Pair, Nothing, NoJob
<1>4. TypeOK'
  BY <1>1, <1>3 DEF TypeOK
<1>5. Saved' = Saved /\ (Both' <=> Both)
  BY <1>1 DEF Saved, upgr_persistency_get_password, Both
<1>6. OldOrNew' /\ JobShape'
  BY <1>1, <1>3 DEF OldOrNew, JobShape
<1>7. files[Other] = None /\ Other \in Formats /\ ~Both
  BY <1>1 DEF JobShape, Other, Formats, Both
<1>8. FilesAgree'
  <2>1. ~failed => Saved = Target(job.pw, job.hex)
    <3>1. /\ job.pw \in Passwords \cup {Empty} /\ job.hex \in BOOLEAN
          /\ job.pw = Empty => job.hex = FALSE
          /\ files[Other] = None /\ (~failed => files[Own] = OwnValue)
      BY <1>1 DEF TypeOK, JobShape
    <3> QED BY <3>1, OnlyOwn DEF Own, Other, OwnValue, Saved
  <2> QED BY <1>1, <1>2, <1>5, <1>7, <2>1 DEF FilesAgree
<1>9. Latest' /\ CrashRepaired'
  BY <1>1, <1>2, <1>5, <1>7 DEF IInv, Latest, CrashRepaired
<1> QED BY <1>4, <1>6, <1>8, <1>9 DEF IInv

LEMMA InvRestart ==
  ASSUME IInv, Restart
  PROVE  IInv'
<1>1. /\ ani' = FALSE /\ mode' = "Unknown" /\ password' = Empty /\ hex' = FALSE
      /\ events' = <<>> /\ pc' = "idle" /\ job' = NoJob /\ before' = Nothing
      /\ failed' = FALSE /\ told' = Nothing /\ lagging' = FALSE /\ UNCHANGED files
  BY DEF Restart
<1>2. /\ ani' \in BOOLEAN /\ hex' \in BOOLEAN /\ failed' \in BOOLEAN
      /\ lagging' \in BOOLEAN /\ ani' = FALSE
      /\ told' \in [pw : Passwords \cup {Empty, None}, hex : BOOLEAN]
      /\ before' \in [pw : Passwords \cup {None, Truncated}, hex : BOOLEAN]
      /\ job' \in [pw : Passwords \cup {Empty}, hex : BOOLEAN, ok : BOOLEAN]
      /\ job'.hex = FALSE
  BY <1>1, Zenon DEF Pair, Nothing, NoJob
<1>3. events' \in Seq(Passwords \cup {Empty}) /\ Len(events') <= MaxEvents
  BY <1>1, EmptySeq, EnvironmentAssumption DEF EnvironmentAssumption
<1>4. TypeOK'
  BY <1>1, <1>2, <1>3 DEF IInv, TypeOK
<1>5. OldOrNew' /\ JobShape' /\ FilesAgree' /\ Latest' /\ CrashRepaired'
  BY <1>1, <1>2 DEF OldOrNew, JobShape, FilesAgree, Latest, CrashRepaired
<1> QED BY <1>4, <1>5 DEF IInv

LEMMA InvStep == IInv /\ [Next]_vars => IInv'
<1> SUFFICES ASSUME IInv, [Next]_vars PROVE IInv'
  OBVIOUS
<1>1. CASE UNCHANGED vars
  <2>1. UNCHANGED <<ani, mode, password, hex, events, pc, job, before, failed, files,
                    told, lagging>>
    BY <1>1 DEF vars, dmVars, jobVars
  <2>2. /\ Saved' = Saved /\ (Both' <=> Both) /\ Own' = Own /\ Other' = Other
        /\ OwnValue' = OwnValue
    BY <2>1 DEF Saved, upgr_persistency_get_password, Both, Own, Other, OwnValue
  <2>3. TypeOK' /\ OldOrNew' /\ JobShape'
    BY <2>1, <2>2 DEF IInv, TypeOK, OldOrNew, JobShape
  <2>4. FilesAgree' /\ Latest' /\ CrashRepaired'
    BY <2>1, <2>2 DEF IInv, FilesAgree, Latest, CrashRepaired
  <2> QED BY <2>3, <2>4 DEF IInv
<1> QED
  BY <1>1, InvWrite, InvMode, InvAdd, InvRemove, InvChanged, InvSaveFirst,
     InvSaveSecond, InvTell, InvRestart
  DEF Next

LEMMA Invariant == Spec => []IInv
BY InvInit, InvStep, PTL DEF Spec
-----------------------------------------------------------------------------
\* Every variable keeps its range, and a data model without the ANI has
\* nothing of it.
THEOREM TypeCorrect == Spec => []TypeOK
<1>1. IInv => TypeOK
  BY DEF IInv
<1> QED BY <1>1, Invariant, PTL

\* Wherever upgr_persistency_set_password() is cut off, the next start reads
\* the old password or the new one.
THEOREM PasswordSurvives == Spec => []OldOrNew
<1>1. IInv => OldOrNew
  BY DEF IInv
<1> QED BY <1>1, Invariant, PTL

\* When all Password events have been delivered, data model, vendor module and
\* files agree.
THEOREM PasswordAgreed == Spec => []SettledPassword
<1>1. IInv => SettledPassword
  BY DEF IInv, SettledPassword, FilesAgree, Latest
<1> QED BY <1>1, Invariant, PTL
-----------------------------------------------------------------------------
(***************************************************************************)
(* The register.                                                           *)
(***************************************************************************)

\* What is pending, acknowledged and damaged in the register of Password.
Pending == IF pc = "idle" THEN {} ELSE {Target(job.pw, job.hex)}
Acked == IF told = Nothing THEN {} ELSE {Target(told.pw, told.hex)}
Damaged == failed \/ lagging

LEMMA ReadSavable ==
  ASSUME NEW f \in [Formats -> Passwords \cup {None, Truncated}]
  PROVE  upgr_persistency_get_password(f) \in Savable
<1>1. \A p \in Passwords \cup {Truncated}, h \in BOOLEAN : Pair(p, h) \in Savable
  BY DEF Savable
<1>2. Nothing \in Savable
  BY DEF Savable
<1>3. /\ f["ascii"] \in Passwords \cup {None, Truncated}
      /\ f["hex"] \in Passwords \cup {None, Truncated}
  BY DEF Formats
<1>4. TRUE \in BOOLEAN /\ FALSE \in BOOLEAN
  OBVIOUS
<1> QED BY <1>1, <1>2, <1>3, <1>4, Zenon DEF upgr_persistency_get_password

LEMMA TargetSavable ==
  ASSUME NEW p \in Passwords \cup {Empty}, NEW h \in BOOLEAN
  PROVE  Target(p, h) \in Savable
<1>1. \A q \in Passwords, g \in BOOLEAN : Pair(q, g) \in Savable
  BY DEF Savable
<1>2. Nothing \in Savable
  BY DEF Savable
<1> QED BY <1>1, <1>2 DEF Target

\* A step that leaves the files alone leaves what can be read back.
LEMMA SameSaved ==
  ASSUME UNCHANGED files
  PROVE  Saved' = Saved
BY DEF Saved, upgr_persistency_get_password

\* Once the other file is removed, the password of the job is what is saved.
LEMMA OtherGone ==
  ASSUME TypeOK, JobShape, pc \in {"unlink", "tell"}, ~failed,
         NEW f, f[Own] = files[Own], f[Other] = None
  PROVE  upgr_persistency_get_password(f) = Target(job.pw, job.hex)
<1>1. /\ job.pw \in Passwords \cup {Empty} /\ job.hex \in BOOLEAN
      /\ job.pw = Empty => job.hex = FALSE
      /\ files[Own] = OwnValue
  BY DEF TypeOK, JobShape
<1> QED BY <1>1, OnlyOwn DEF Own, Other, OwnValue

LEMMA RegisterSaveFirst ==
  ASSUME IInv, SaveFirst
  PROVE  [Register!Next]_Register!vars
<1>1. /\ pc = "write" /\ pc' = "unlink" /\ told' = told /\ lagging' = lagging
      /\ before' = before /\ failed = FALSE /\ Saved = before /\ TypeOK /\ JobShape
  BY DEF SaveFirst, IInv, JobShape
<1>2. job'.pw = job.pw /\ job'.hex = job.hex
  BY <1>1, SavedFirst
<1>3. Pending # {} /\ Pending' = Pending /\ Acked' = Acked
  BY <1>1, <1>2 DEF Pending, Acked, Target
<1>4. CASE ~failed' /\ ~lagging
  <2>1. Saved' = Saved \/ Saved' \in Pending
    <3>1. OldOrNew'
      BY InvSaveFirst DEF IInv
    <3>2. Saved' \in {before', Target(job.pw, job.hex)'}
      BY <1>1, <1>4, <3>1 DEF OldOrNew
    <3> QED BY <1>1, <1>2, <3>2 DEF Pending, Target
  <2>2. Damaged' = Damaged
    BY <1>1, <1>4 DEF Damaged
  <2> QED BY <1>3, <2>1, <2>2
          DEF Register!Next, Register!Take, Register!vars, Pending, Acked, Damaged
<1>5. CASE failed' \/ lagging
  <2>1. Damaged' = TRUE
    BY <1>1, <1>5, Zenon DEF Damaged
  <2>2. Saved' \in Savable
    <3>1. files' \in [Formats -> Passwords \cup {None, Truncated}]
      BY InvSaveFirst DEF IInv, TypeOK
    <3> QED BY <3>1, ReadSavable DEF Saved
  <2> QED BY <1>3, <2>1, <2>2
          DEF Register!Next, Register!Damage, Pending, Acked, Damaged
<1> QED BY <1>4, <1>5

LEMMA RegisterSaveSecond ==
  ASSUME IInv, SaveSecond
  PROVE  [Register!Next]_Register!vars
<1>1. /\ pc = "unlink" /\ pc' = "tell" /\ files' = [files EXCEPT ![Other] = None]
      /\ UNCHANGED <<job, told, failed, lagging>> /\ TypeOK /\ JobShape
  BY DEF SaveSecond, IInv
<1>2. Pending # {} /\ Pending' = Pending /\ Acked' = Acked /\ Damaged' = Damaged
  BY <1>1 DEF Pending, Acked, Damaged, Target
<1>3. CASE ~failed
  <2>1. files'[Own] = files[Own] /\ files'[Other] = None
    BY <1>1 DEF TypeOK, Own, Other, Formats
  <2>2. Saved' = Target(job.pw, job.hex)
    BY <1>1, <1>3, <2>1, OtherGone DEF Saved
  <2>3. Saved' \in Pending
    BY <1>1, <2>2 DEF Pending
  <2> QED BY <1>2, <2>3 DEF Register!Next, Register!Take, Pending, Acked, Damaged
<1>4. CASE failed
  <2>1. Damaged' = TRUE
    BY <1>1, <1>4, Zenon DEF Damaged
  <2>2. Saved' \in Savable
    <3>1. files' \in [Formats -> Passwords \cup {None, Truncated}]
      BY InvSaveSecond DEF IInv, TypeOK
    <3> QED BY <3>1, ReadSavable DEF Saved
  <2> QED BY <1>2, <2>1, <2>2
          DEF Register!Next, Register!Damage, Pending, Acked, Damaged
<1> QED BY <1>3, <1>4

LEMMA RegisterTell ==
  ASSUME IInv, pon_ctrl_set_password
  PROVE  [Register!Next]_Register!vars
<1>1. /\ pc = "tell" /\ pc' = "idle" /\ told' = Pair(job.pw, job.hex)
      /\ UNCHANGED <<files, failed, lagging>> /\ TypeOK /\ JobShape
  BY DEF pon_ctrl_set_password, IInv
<1>2. told'.pw = job.pw /\ told'.hex = job.hex /\ told' # Nothing
  <2>1. told' = [pw |-> job.pw, hex |-> job.hex]
    BY <1>1 DEF Pair
  <2>2. job.pw # None
    BY <1>1, PasswordAssumption DEF TypeOK, PasswordAssumption, Empty, None
  <2> QED BY <2>1, <2>2 DEF Nothing, Pair
<1>3. /\ Pending = {Target(job.pw, job.hex)} /\ Pending' = {} /\ Acked' = Pending
      /\ Damaged' = Damaged /\ Saved' = Saved
  BY <1>1, <1>2, SameSaved DEF Pending, Acked, Damaged, Target
<1>4. Damaged \/ Pending = {Saved}
  <2>1. ~failed => Saved = Target(job.pw, job.hex)
    BY <1>1, OtherGone DEF Saved, JobShape
  <2> QED BY <1>3, <2>1 DEF Damaged
<1> QED BY <1>3, <1>4
        DEF Register!Next, Register!Acknowledge, Pending, Acked, Damaged

LEMMA RegisterSet ==
  ASSUME IInv, password_changed
  PROVE  [Register!Next]_Register!vars
<1>1. pc = "idle" /\ UNCHANGED <<files, told, lagging>> /\ TypeOK
  BY DEF password_changed, IInv
<1>2. Saved' = Saved /\ Acked' = Acked /\ Pending = {}
  BY <1>1, SameSaved DEF Acked, Pending, Target
<1>3. CASE Head(events) # Empty /\ ~ani
  <2>1. UNCHANGED <<pc, job, failed>>
    BY <1>3 DEF password_changed, jobVars
  <2>2. Pending' = Pending /\ Damaged' = Damaged
    BY <1>1, <2>1 DEF Pending, Damaged
  <2> QED BY <1>2, <2>2 DEF Register!vars, Pending, Acked, Damaged
<1>4. CASE ~(Head(events) # Empty /\ ~ani)
  <2>1. pc' = "write" /\ failed' = FALSE
    BY <1>4 DEF password_changed
  <2>2. Pending' = {Target(job.pw, job.hex)'}
    BY <2>1 DEF Pending
  <2>3. Target(job.pw, job.hex)' \in Savable
    <3>1. job'.pw \in Passwords \cup {Empty} /\ job'.hex \in BOOLEAN
      BY InvChanged DEF IInv, TypeOK
    <3> QED BY <3>1, TargetSavable
  <2>4. Damaged' \in {Damaged, FALSE}
    BY <1>1, <2>1 DEF Damaged, IInv, TypeOK
  <2> QED BY <1>2, <2>2, <2>3, <2>4
          DEF Register!Next, Register!Set, Pending, Acked, Damaged
<1> QED BY <1>3, <1>4

\* The password that is saved and told to the vendor module is a register: it
\* changes at one moment of each upgr_persistency_set_password(), and
\* pon_ctrl_set_password() is called when no crash can bring back an older one.
THEOREM RegisterImplemented == Spec => ImplementsRegister
<1>1. Init => Register!Init
  <2> SUFFICES ASSUME Init PROVE Register!Init
    OBVIOUS
  <2>1. /\ pc = "idle" /\ told = Nothing /\ failed = FALSE /\ lagging = FALSE
        /\ files["ascii"] = None /\ files["hex"] = None
    BY DEF Init, Formats
  <2> QED BY <2>1, SavedCases DEF Register!Init
<1>2. IInv /\ [Next]_vars => [Register!Next]_Register!vars
  <2> SUFFICES ASSUME IInv, [Next]_vars PROVE [Register!Next]_Register!vars
    OBVIOUS
  <2>1. ASSUME UNCHANGED <<files, pc, job, told, failed, lagging>>
        PROVE  UNCHANGED Register!vars
    BY <2>1, SameSaved DEF Register!vars, Target
  <2>2. ASSUME NEW w \in Writes, NEW p \in Passwords \cup {Empty}, NEW h \in BOOLEAN,
               WriteAuthentication(w, p, h)
        PROVE  [Register!Next]_Register!vars
    BY <2>1, <2>2 DEF WriteAuthentication, jobVars
  <2>3. ASSUME NEW m \in Modes, ChangeMode(m)
        PROVE  [Register!Next]_Register!vars
    BY <2>1, <2>3 DEF ChangeMode, jobVars
  <2>4. ASSUME UNCHANGED <<files, pc, job, failed>>, told' = Nothing,
               pc = "idle", lagging' \in {lagging, TRUE}
        PROVE  Register!Next
    <3>1. Saved' = Saved /\ Pending' = Pending /\ Acked' = {}
      BY <2>4, SameSaved DEF Pending, Acked
    <3>2. Damaged' \in {Damaged, TRUE}
      BY <2>4 DEF Damaged, IInv, TypeOK
    <3> QED BY <3>1, <3>2 DEF Register!Next, Register!Forget, Pending, Acked, Damaged
  <2>5. ASSUME NEW m \in Modes, dm_add_instance(m) PROVE Register!Next
    BY <2>4, <2>5 DEF dm_add_instance, jobVars
  <2>6. ASSUME dm_remove_instance PROVE Register!Next
    <3>1. lagging' \in {lagging, TRUE}
      BY <2>6 DEF dm_remove_instance, IInv, TypeOK
    <3> QED BY <2>4, <2>6, <3>1 DEF dm_remove_instance, jobVars
  <2>7. ASSUME Restart PROVE Register!Next
    <3>1. Saved' = Saved /\ Pending' = {} /\ Acked' = {} /\ Damaged' = FALSE
      BY <2>7, SameSaved DEF Restart, Pending, Acked, Damaged
    <3> QED BY <3>1 DEF Register!Next, Register!Crash, Pending, Acked, Damaged
  <2>8. ASSUME UNCHANGED vars PROVE UNCHANGED Register!vars
    BY <2>1, <2>8 DEF vars, jobVars
  <2> QED
    BY <2>2, <2>3, <2>5, <2>6, <2>7, <2>8, RegisterSaveFirst,
       RegisterSaveSecond, RegisterTell, RegisterSet
    DEF Next
<1> QED BY <1>1, <1>2, Invariant, PTL DEF Spec, ImplementsRegister, Register!Spec
==============================================================================
