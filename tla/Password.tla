------------------------------- MODULE Password -------------------------------
(***************************************************************************)
(* The Password and HexadecimalPassword parameters of                      *)
(* XPON.ONU.{i}.ANI.{i}.TC.Authentication of one ANI, the one or two files *)
(* that survive an upgrade (upgrade_persistency.c, file_utils.c) and what  *)
(* the vendor module was last told (password.c).                           *)
(*                                                                         *)
(* The handler of a change is split where the process may stop between two *)
(* effects on the file system: "write", "unlink", "tell".                  *)
(***************************************************************************)
EXTENDS Naturals, Sequences

CONSTANTS
  Passwords,   \* the passwords in use, the empty one aside
  Length,      \* strlen() of each of them
  Xdigits,     \* those with hexadecimal digits only
  Modes,       \* the values of PONMode the vendor module reports
  Writes,      \* parameters one write sets: "password", "hex", "both"
  Order,       \* of the two, the parameter a transaction sets first
  Faults,      \* failures of write_file(): "write", "close", "sync"
  MaxEvents    \* bound on the queue of Password events

Empty == "empty"
None == "none"           \* no such file, or no password yet
Truncated == "truncated" \* a file whose first line cannot be read
Formats == {"ascii", "hex"}

ASSUME PasswordAssumption ==
  /\ {Empty, None, Truncated} \cap Passwords = {}
  /\ Length \in [Passwords -> Nat \ {0}]
  /\ Xdigits \subseteq Passwords

ASSUME EnvironmentAssumption ==
  /\ Modes \subseteq {"Unknown", "G-PON", "XG-PON", "NG-PON2", "XGS-PON"}
  /\ Writes \subseteq {"password", "hex", "both"}
  /\ Order \subseteq {"password", "hex"}
  /\ Faults \subseteq {"write", "close", "sync"}
  /\ MaxEvents \in Nat \ {0}

VARIABLES
  ani,       \* the ANI instance is in the data model
  mode,      \* its PONMode
  password,  \* Authentication.Password
  hex,       \* Authentication.HexadecimalPassword
  events,    \* values of Password queued for the event loop
  pc, job,   \* the step and the arguments of passwd_set_password()
  files,     \* contents of the two password files: survives a restart
  told,      \* the vendor module's password, or Nothing
  before,    \* history: what could be read back when the job started
  failed,    \* history: the last job could not write its file
  lagging    \* history: removed while an event was still queued

dmVars == <<ani, mode, password, hex>>
jobVars == <<pc, job, before, failed>>
vars == <<dmVars, events, jobVars, files, told, lagging>>

Pair(p, h) == [pw |-> p, hex |-> h]
Nothing == Pair(None, FALSE)
NoJob == [pw |-> Empty, hex |-> FALSE, ok |-> TRUE]
-----------------------------------------------------------------------------
(***************************************************************************)
(* Validation (password.c, dm_actions.c).                                  *)
(***************************************************************************)

MaxLen(m) == IF m = "G-PON" THEN 10 ELSE 36

\* passwd_check_password(): the vendor module's PONMode must be known.
passwd_check_password(p, h, m) ==
  /\ h => Length[p] % 2 = 0 /\ p \in Xdigits
  /\ m # "Unknown"
  /\ IF h THEN Length[p] = 2 * MaxLen(m) ELSE Length[p] <= MaxLen(m)

\* The passwords _check_password() lets a transaction set.  It sees the new
\* HexadecimalPassword only if the transaction has set that one already.
Accepted(old, new, m) ==
  {Empty} \cup
  {p \in Passwords : \E first \in Order :
     passwd_check_password(p, IF first = "hex" THEN new ELSE old, m)}
-----------------------------------------------------------------------------
(***************************************************************************)
(* The files (upgrade_persistency.c, file_utils.c).                        *)
(***************************************************************************)

\* upgr_persistency_get_password(): the ASCII file is looked for first.
upgr_persistency_get_password(f) ==
  CASE f["ascii"] # None -> Pair(f["ascii"], FALSE)
    [] f["ascii"] = None /\ f["hex"] # None -> Pair(f["hex"], TRUE)
    [] OTHER -> Nothing

Saved == upgr_persistency_get_password(files)

Own == IF job.hex THEN "hex" ELSE "ascii"

\* Mutant: the file just written is removed.
Other_swapped == IF job.hex THEN "hex" ELSE "ascii"

Other == IF job.hex THEN "ascii" ELSE "hex"

\* write_file(): a temporary file is renamed, so the contents change at once.
\* A failure of fclose(), which flushes the buffer, is only logged: the
\* truncated temporary file replaces the good one and the function succeeds.
\* After the rename, the file may fail to open for fdatasync(): "sync".
write_file(r) ==
  CASE r = "close" -> [text |-> Truncated, ok |-> TRUE]
    [] r = "write" -> [text |-> files[Own], ok |-> FALSE]
    [] r = "sync"  -> [text |-> job.pw, ok |-> FALSE]
    [] OTHER       -> [text |-> job.pw, ok |-> TRUE]

\* A file that has the value already is not written.
WriteResults == IF files[Own] = job.pw THEN {"ok"} ELSE {"ok"} \cup Faults

\* The first file operation of upgr_persistency_set_password(): the file of
\* the job's format is written, or removed if the password is empty.
SaveFirst ==
  /\ pc = "write"
  /\ IF job.pw = Empty
     THEN /\ files' = [files EXCEPT ![Own] = None]
          /\ UNCHANGED <<job, failed>>
     ELSE \E r \in WriteResults :
            /\ files' = [files EXCEPT ![Own] = write_file(r).text]
            /\ job' = [job EXCEPT !.ok = write_file(r).ok]
            /\ failed' = (files'[Own] # job.pw)
  /\ pc' = "unlink"
  /\ UNCHANGED <<dmVars, events, told, before, lagging>>

\* Mutant: the file of the other format is left behind.
SaveSecond_left ==
  /\ pc = "unlink"
  /\ pc' = "tell"
  /\ UNCHANGED <<dmVars, events, job, files, told, before, failed, lagging>>

\* Mutant: the file of the other format is removed only after a write_file()
\* that returned true.
SaveSecond_if_ok ==
  /\ pc = "unlink"
  /\ files' = IF job.ok THEN [files EXCEPT ![Other] = None] ELSE files
  /\ pc' = "tell"
  /\ UNCHANGED <<dmVars, events, job, told, before, failed, lagging>>

\* The second: the file of the other format is removed, whatever write_file()
\* returned.
SaveSecond ==
  /\ pc = "unlink"
  /\ files' = [files EXCEPT ![Other] = None]
  /\ pc' = "tell"
  /\ UNCHANGED <<dmVars, events, job, told, before, failed, lagging>>
-----------------------------------------------------------------------------
(***************************************************************************)
(* The change handler (dm_events.c, password.c).                           *)
(***************************************************************************)

\* _password_changed(): the format is looked up when the event is delivered,
\* and only of a password that is not empty.
password_changed ==
  LET p == Head(events) IN
  /\ pc = "idle"
  /\ events # <<>>
  /\ events' = Tail(events)
  /\ IF p # Empty /\ ~ani
     THEN UNCHANGED jobVars
     ELSE /\ job' = [pw |-> p, hex |-> p # Empty /\ hex, ok |-> TRUE]
          /\ pc' = "write"
          /\ before' = Saved
          /\ failed' = FALSE
  /\ UNCHANGED <<dmVars, files, told, lagging>>

pon_ctrl_set_password ==
  /\ pc = "tell"
  /\ told' = Pair(job.pw, job.hex)
  /\ pc' = "idle"
  /\ job' = NoJob
  /\ before' = Nothing
  /\ UNCHANGED <<dmVars, events, files, failed, lagging>>
-----------------------------------------------------------------------------
(***************************************************************************)
(* Changes of the data model.                                              *)
(***************************************************************************)

\* An event is queued only for a Password that differs.
CommitPassword(old, new) ==
  IF old = new
  THEN UNCHANGED events
  ELSE Len(events) < MaxEvents /\ events' = Append(events, new)

\* A bus user, or the vendor module with dm_change_object(), writes the
\* parameters of the Authentication object.
WriteAuthentication(what, p, h) ==
  LET new == IF what = "hex" THEN password ELSE p
      newHex == IF what = "password" THEN hex ELSE h
  IN
  /\ pc = "idle"
  /\ ani
  /\ new \in IF what = "hex" THEN {password} ELSE Accepted(hex, newHex, mode)
  /\ password' = new
  /\ hex' = newHex
  /\ CommitPassword(password, new)
  /\ UNCHANGED <<ani, mode, jobVars, files, told, lagging>>

\* The vendor module reports another PONMode; Password is not looked at again.
ChangeMode(m) ==
  /\ pc = "idle"
  /\ ani
  /\ m # mode
  /\ mode' = m
  /\ UNCHANGED <<ani, password, hex, events, jobVars, files, told, lagging>>

\* passwd_restore_password(): HexadecimalPassword is set only if it is true.
\* A password that is not valid for the ANI is dropped.
Restored(m) ==
  IF Saved.pw \in Accepted(FALSE, Saved.hex, m)
  THEN Saved
  ELSE Pair(Empty, FALSE)

\* add_instance() for the ANI, with the PONMode the vendor module gives.
dm_add_instance(m) ==
  /\ pc = "idle"
  /\ ~ani
  /\ ani' = TRUE
  /\ mode' = m
  /\ password' = Restored(m).pw
  /\ hex' = Restored(m).hex
  /\ CommitPassword(Empty, Restored(m).pw)
  /\ told' = Nothing
  /\ UNCHANGED <<jobVars, files, lagging>>

\* remove_instance(): the files and the queued events stay.
dm_remove_instance ==
  /\ pc = "idle"
  /\ ani
  /\ ani' = FALSE
  /\ mode' = "Unknown"
  /\ password' = Empty
  /\ hex' = FALSE
  /\ told' = Nothing
  /\ lagging' = (lagging \/ events # <<>>)
  /\ UNCHANGED <<events, jobVars, files>>

Init ==
  /\ ani = FALSE /\ mode = "Unknown" /\ password = Empty /\ hex = FALSE
  /\ events = <<>>
  /\ pc = "idle" /\ job = NoJob /\ before = Nothing /\ failed = FALSE
  /\ files = [f \in Formats |-> None]
  /\ told = Nothing
  /\ lagging = FALSE

\* The process stops between any two steps, and is started again.
Restart ==
  /\ ani' = FALSE /\ mode' = "Unknown" /\ password' = Empty /\ hex' = FALSE
  /\ events' = <<>>
  /\ pc' = "idle" /\ job' = NoJob /\ before' = Nothing /\ failed' = FALSE
  /\ told' = Nothing
  /\ lagging' = FALSE
  /\ UNCHANGED files

Next ==
  \/ \E w \in Writes, p \in Passwords \cup {Empty}, h \in BOOLEAN :
       WriteAuthentication(w, p, h)
  \/ \E m \in Modes : ChangeMode(m) \/ dm_add_instance(m)
  \/ dm_remove_instance
  \/ password_changed
  \/ SaveFirst
  \/ SaveSecond
  \/ pon_ctrl_set_password
  \/ Restart

Spec == Init /\ [][Next]_vars
-----------------------------------------------------------------------------
(***************************************************************************)
(* Properties.                                                             *)
(***************************************************************************)

\* Every variable stays in its range, and a data model without the ANI has
\* nothing of it.
TypeOK ==
  /\ ani \in BOOLEAN /\ hex \in BOOLEAN 
  /\ failed \in BOOLEAN /\ lagging \in BOOLEAN
  /\ mode \in Modes \cup {"Unknown"}
  /\ password \in Passwords \cup {Empty}
  /\ ~ani => mode = "Unknown" /\ password = Empty /\ ~hex
  /\ events \in Seq(Passwords \cup {Empty}) /\ Len(events) <= MaxEvents
  /\ pc \in {"idle", "write", "unlink", "tell"}
  /\ job \in [pw : Passwords \cup {Empty}, hex : BOOLEAN, ok : BOOLEAN]
  /\ files \in [Formats -> Passwords \cup {None, Truncated}]
  /\ told \in [pw : Passwords \cup {Empty, None}, hex : BOOLEAN]
  /\ before \in [pw : Passwords \cup {None, Truncated}, hex : BOOLEAN]

\* What a password means once saved: the empty one leaves no file.
Target(p, h) == IF p = Empty THEN Nothing ELSE Pair(p, h)

\* Wherever the process stops while it saves a password, the next start reads
\* the password of before the change or the new one: the order of the write
\* and the unlink never leaves nothing, and never brings back an older one.
\* (Not if the ANI was removed before the files of an earlier crash were put
\* in order: both can still exist when the empty password is handled.)
OldOrNew ==
  pc # "idle" /\ ~failed /\ ~lagging =>
    Saved \in {before, Target(job.pw, job.hex)}

\* The passwords that can be saved: also a file whose first line is no password.
Savable == {Nothing} \cup {Pair(p, h) : p \in Passwords \cup {Truncated}, h \in BOOLEAN}

Register == INSTANCE CrashSafeRegister WITH
  Value   <- Savable,
  saved   <- Saved,
  pending <- IF pc = "idle" THEN {} ELSE {Target(job.pw, job.hex)},
  acked   <- IF told = Nothing THEN {} ELSE {Target(told.pw, told.hex)},
  damaged <- failed \/ lagging

\* The two files implement a register: what the next start reads changes at one
\* moment of a setting, from the old password to the new one and never back,
\* and the vendor module is told a password only when it is the one that every
\* later start would read.
ImplementsRegister == Register!Spec

\* When every change has been delivered, the vendor module has the password of
\* the data model, and the next start reads what the vendor module was told,
\* in the same format and from the only file there is.
SettledPassword ==
  (ani /\ pc = "idle" /\ events = <<>> /\ ~lagging) =>
    /\ password # Empty => told # Nothing
    /\ told # Nothing =>
         /\ told.pw = password
         /\ ~failed => /\ Saved = Target(told.pw, told.hex)
                       /\ \E f \in Formats : files[f] = None

\* write_file() returns "true on success, else false": after a success the
\* file has the value.
WriteReported ==
  pc = "unlink" /\ job.ok /\ job.pw # Empty => files[Own] = job.pw

\* "The function does not need to check if the password is valid:
\* _check_password() already did that" (_password_changed): what it forwards
\* is valid in the format it forwards it with.
ForwardedIsValid ==
  pc = "tell" /\ job.pw # Empty => passwd_check_password(job.pw, job.hex, mode)
=============================================================================
