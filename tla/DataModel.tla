------------------------------ MODULE DataModel ------------------------------
(***************************************************************************)
(* The calls the vendor module makes to change the data model (pon_stat.c, *)
(* data_model.c): what they accept, what they do to the tree of objects,   *)
(* what they return, and the reads of transceiver parameters that          *)
(* dm_actions.c forwards to the vendor module.                             *)
(*                                                                         *)
(* Of the parameters only Status is kept; the others are as unknown to an  *)
(* object here as Status is to those without it.  What becomes of Enable,  *)
(* Password and LastChange is the subject of EnableRestore, Password and   *)
(* LastChange.                                                             *)
(***************************************************************************)
EXTENDS DmInfo, Integers

CONSTANTS
  Names,      \* the pairs of a path and an index the vendor module may give
  Values,     \* the values of Status; "Up" and "Down" among them
  MayFail     \* whether transactions can fail

ASSUME ValueAssumption ==
  /\ {"Up", "Down"} \subseteq Values
  /\ {"no_status", "absent", "unusable"} \cap Values = {}
  /\ MayFail \in BOOLEAN
  /\ \A n \in Names : n[1] \in Seq(STRING) /\ n[2] \in Index \cup {"absent", "0"}

Absent == "absent"
NoStatus == "no_status"  \* what is kept of an object without Status

\* The arguments of a call.  A key value can be too large for its template; the
\* parameters can be no table, or hold none the object has, or of another type.
Args(keys, parameters) ==
  {[path |-> n[1], index |-> n[2], keys |-> k, parameters |-> p] :
     n \in Names, k \in keys, p \in parameters}
Keys == {Absent, "large", "good"}
Parameters == Values \cup {Absent, "unusable"}

VARIABLES
  val,      \* the value of each object: its domain is the data model
  priv,     \* the objects XPON.ONU.{i} with private data
  fsm,      \* XPON.FsmState
  ignore,   \* s_ignore_param_reads
  pc,       \* "idle", or "removing" while an instance is being deleted
  removed,  \* the instance being deleted
  last,     \* history: the last call that returned
  misled    \* history: whether the vendor module was asked for a parameter
            \* of a transceiver it was about to be rid of

dmVars == <<val, priv, fsm>>
readVars == <<ignore, misled>>
vars == <<dmVars, ignore, pc, removed, last, misled>>

Succeeds == IF MayFail THEN BOOLEAN ELSE {TRUE}

\* amxd_dm_findf() of a path whose object id is known: a generic path leads to
\* no object, and no instance has index 0.
Exists(path) ==
  \A k \in DOMAIN path :
    /\ path[k] \notin {"x", "0"}
    /\ path[k] \in Index => SubSeq(path, 1, k) \in DOMAIN val

IsInstance(path) == path # <<>> /\ path[Len(path)] \in Index
IsTemplate(path) ==
  ~IsInstance(path) /\ OBJECT_INFO[dm_get_object_id(path)].key # NoKey

\* The singletons that exist whenever an instance does: no further index leads
\* to them.
Singles(inst) ==
  LET paths == {OBJECT_INFO[id].path :
                  id \in {d \in object_id : OBJECT_INFO[d].key = NoKey}}
      below(g) == SubSeq(g, Len(inst) + 1, Len(g))
  IN {inst \o below(g) :
        g \in {h \in paths : /\ IsStrictPrefix(Generalised(inst), h)
                             /\ ~Contains(below(h), "x")}}

\* The objects in S from p downwards.
Under(p, S) == {q \in S : IsPrefix(p, q)}

Trx(S) == {p \in S : IsInstance(p) /\ dm_get_object_id(p) = "transceiver"}
-----------------------------------------------------------------------------
(***************************************************************************)
(* Arguments.                                                              *)
(***************************************************************************)

\* process_args_common(): a key that is required must be there, and an index
\* that is required must be valid.
process_args_common(a, required) ==
  /\ \A k \in required : a[k] # Absent
  /\ "index" \in required => a.index \in Index
  /\ dm_get_object_id(a.path) # Unknown

\* An index that is not valid counts as none if none was required.
Target(a) == IF a.index \in Index THEN Append(a.path, a.index) ELSE a.path

\* A singleton has no key to look up.  Only keys that are numbers have a
\* maximum.
process_add_instance_args(a) ==
  LET key == OBJECT_INFO[dm_get_object_id(a.path)].key IN
  /\ process_args_common(a, {"path", "index", "keys"})
  /\ key # NoKey
  /\ a.keys = "good" \/ (a.keys = "large" /\ key = "Name")

\* Parameters that are no table, unknown or of the wrong type are skipped.
Sets(a) == a.parameters \in Values /\ dm_get_object_id(a.path) \in WithStatus

add_params_to_transaction(a, old) == IF Sets(a) THEN a.parameters ELSE old

Default(p) == IF dm_get_object_id(p) \in WithStatus THEN "Down" ELSE NoStatus
-----------------------------------------------------------------------------
(***************************************************************************)
(* The calls.  Each sets last.                                             *)
(***************************************************************************)

\* Of a call that failed only the failure is kept.
Returned(op, rc, target, want) ==
  last' = IF rc = 0 THEN [op |-> op, rc |-> 0, target |-> target, want |-> want]
          ELSE [op |-> op, rc |-> rc, target |-> <<>>, want |-> Absent]

Call(op, rc, a) ==
  Returned(op, rc, Target(a), IF Sets(a) THEN a.parameters ELSE Absent)

\* prepare_adding_instance()
CanAdd(a) ==
  /\ process_add_instance_args(a)
  /\ Exists(a.path) /\ IsTemplate(a.path)
  /\ Target(a) \notin DOMAIN val

\* Mutant: the parameters are set in a second transaction.
add_instance_stepwise(a, op) ==
  IF CanAdd(a)
  THEN /\ val' = [p \in DOMAIN val \cup {Target(a)} \cup Singles(Target(a)) |->
                    IF p \in DOMAIN val THEN val[p] ELSE Default(p)]
       /\ priv' = priv
       /\ \E ok \in Succeeds : Call(op, IF ok THEN 0 ELSE -1, a)
  ELSE UNCHANGED <<val, priv>> /\ Call(op, -1, a)

add_instance(a, op) ==
  \E ok \in IF CanAdd(a) THEN Succeeds ELSE {FALSE} :
    LET new == {Target(a)} \cup Singles(Target(a))
        Initial(p) == IF p = Target(a)
                      THEN add_params_to_transaction(a, Default(p)) ELSE Default(p)
    IN
    IF ok
    THEN /\ val' = [p \in DOMAIN val \cup new |->
                      IF p \in new THEN Initial(p) ELSE val[p]]
         /\ priv' = IF dm_get_object_id(a.path) = "onu"
                    THEN priv \cup {Target(a)} ELSE priv
         /\ Call(op, 0, a)
    ELSE /\ UNCHANGED <<val, priv>>
         /\ Call(op, -1, a)

\* Mutant: the private data is attached before the object is looked up.
change_object_early(a, op) ==
  /\ process_args_common(a, {"path", "parameters"})
  /\ priv' = IF dm_get_object_id(a.path) = "onu" THEN priv \cup {Target(a)} ELSE priv
  /\ UNCHANGED val
  /\ Call(op, 0, a)

\* An object that does not exist is ignored.  The path of a template without
\* an index leads to the template itself.
change_object(a, op) ==
  LET o == Target(a) IN
  IF ~process_args_common(a, {"path", "parameters"})
  THEN UNCHANGED <<val, priv>> /\ Call(op, -1, a)
  ELSE IF ~Exists(o)
  THEN UNCHANGED <<val, priv>> /\ Call(op, 0, a)
  ELSE /\ priv' = IF dm_get_object_id(a.path) = "onu" THEN priv \cup {o} ELSE priv
       /\ \E ok \in Succeeds :
            /\ val' = IF ok /\ o \in DOMAIN val
                      THEN [val EXCEPT ![o] = add_params_to_transaction(a, @)]
                      ELSE val
            /\ Call(op, IF ok THEN 0 ELSE -1, a)

dm_add_instance(a) ==
  /\ pc = "idle"
  /\ add_instance(a, "add")
  /\ UNCHANGED <<fsm, pc, removed, readVars>>

dm_change_object(a) ==
  /\ pc = "idle"
  /\ change_object(a, "change")
  /\ UNCHANGED <<fsm, pc, removed, readVars>>

\* Mutant: an existing instance is left as it is.
dm_add_or_change_instance_kept(a) ==
  /\ pc = "idle"
  /\ UNCHANGED <<fsm, pc, removed, readVars>>
  /\ IF process_args_common(a, {"path", "index"}) /\ Target(a) \in DOMAIN val
     THEN UNCHANGED <<val, priv>> /\ Call("add_or_change", 0, a)
     ELSE add_instance(a, "add_or_change")

dm_add_or_change_instance(a) ==
  /\ pc = "idle"
  /\ UNCHANGED <<fsm, pc, removed, readVars>>
  /\ IF ~process_args_common(a, {"path", "index"})
     THEN UNCHANGED <<val, priv>> /\ Call("add_or_change", -1, a)
     ELSE IF Target(a) \in DOMAIN val
     THEN change_object(a, "add_or_change")
     ELSE add_instance(a, "add_or_change")
-----------------------------------------------------------------------------
(***************************************************************************)
(* Removal.  While the transaction is applied, the framework reads the     *)
(* parameters of the objects it deletes.                                   *)
(***************************************************************************)

\* The call ends early: the path leads to no template, or to no instance.
RefuseRemoval(a) ==
  /\ pc = "idle"
  /\ Target(a) \notin DOMAIN val \/ ~process_args_common(a, {"path", "index"})
  /\ Call("remove",
          IF /\ process_args_common(a, {"path", "index"})
             /\ Exists(a.path) => IsTemplate(a.path)
          THEN 0 ELSE -1, a)
  /\ UNCHANGED <<dmVars, pc, removed, readVars>>

\* Mutant: the parameters of deleted instances are read like any other.
remove_instance_reading(a) ==
  /\ pc = "idle"
  /\ process_args_common(a, {"path", "index"})
  /\ Target(a) \in DOMAIN val
  /\ pc' = "removing" /\ removed' = Target(a)
  /\ UNCHANGED <<dmVars, last, readVars>>

remove_instance(a) ==
  /\ pc = "idle"
  /\ process_args_common(a, {"path", "index"})
  /\ Target(a) \in DOMAIN val
  /\ pc' = "removing" /\ removed' = Target(a)
  /\ ignore' = TRUE
  /\ UNCHANGED <<dmVars, last, misled>>

\* Mutant: an instance leaves the objects below it behind.
Deleted_alone(S) == {removed} \cap S

Deleted(S) == Under(removed, S)

ApplyRemoval(ok) ==
  /\ pc = "removing"
  /\ IF ok
     THEN /\ val' = [p \in DOMAIN val \ Deleted(DOMAIN val) |-> val[p]]
          /\ priv' = priv \ Deleted(priv)
     ELSE UNCHANGED <<val, priv>>
  /\ ignore' = FALSE
  /\ pc' = "idle" /\ removed' = <<>>
  /\ Returned("remove", IF ok THEN 0 ELSE -1, removed, Absent)
  /\ UNCHANGED <<fsm, misled>>

\* _read_trx_param(): a bus user, or the framework during a removal, reads a
\* parameter.  The vendor module has rid itself of what it asks to remove.
read_trx_param(t) ==
  /\ t \in Trx(DOMAIN val)
  /\ pc = "removing" => IsPrefix(removed, t)
  /\ misled' = (misled \/ (~ignore /\ pc = "removing"))
  /\ UNCHANGED <<dmVars, ignore, pc, removed, last>>
-----------------------------------------------------------------------------
(***************************************************************************)
(* The other calls.                                                        *)
(***************************************************************************)

Onu(i) == <<"XPON", "ONU", i>>
Unis(i) == {p \in DOMAIN val : \E k \in Index : p = Onu(i) \o <<"EthernetUNI", k>>}
Anis(i) == {p \in DOMAIN val : \E k \in Index : p = Onu(i) \o <<"ANI", k>>}
Ports(ani) ==
  {p \in DOMAIN val : \E k \in Index : p = ani \o <<"TC", "GEM", "Port", k>>}

\* Mutant: the loop is over the ports of the first ANI only.
Kept_one(i, failed) ==
  DOMAIN val \ UNION {Ports(ani) : ani \in (Anis(i) \ failed) \cap {Onu(i) \o <<"ANI", "1">>}}

\* remove_all_instances() is called for every ANI, also after a failure for
\* an earlier one: only the ports of the ANIs in failed stay.
Kept(i, failed) ==
  DOMAIN val \ UNION {Ports(ani) : ani \in Anis(i) \ failed}

dm_omci_reset_mib(i) ==
  /\ pc = "idle"
  /\ IF i \notin Index
     THEN /\ UNCHANGED val
          /\ Returned("reset", -1, <<>>, Absent)
     ELSE \E failed \in IF MayFail THEN SUBSET Anis(i) ELSE {{}} :
          /\ val' = [p \in Kept(i, failed) |->
                       IF p \in Unis(i) /\ val[p] = "Up" THEN "Down" ELSE val[p]]
          /\ Returned("reset", 0, Onu(i), IF failed = {} THEN "Down" ELSE Absent)
  /\ UNCHANGED <<priv, fsm, pc, removed, readVars>>

\* dm_set_xpon_parameter_impl(): only FsmState is accepted.
dm_set_xpon_parameter(name, v) ==
  /\ pc = "idle"
  /\ \E ok \in IF name = "FsmState" THEN Succeeds ELSE {FALSE} :
       /\ fsm' = IF ok THEN v ELSE fsm
       /\ Returned("xpon", IF ok THEN 0 ELSE -1, <<>>, v)
  /\ UNCHANGED <<val, priv, pc, removed, readVars>>
-----------------------------------------------------------------------------
Init ==
  /\ val = [p \in {} |-> "Down"]
  /\ priv = {}
  /\ fsm = "Down"
  /\ ignore = FALSE /\ misled = FALSE /\ pc = "idle" /\ removed = <<>>
  /\ last = [op |-> "none", rc |-> 0, target |-> <<>>, want |-> Absent]

Next ==
  \/ \E a \in Args(Keys, Parameters) : dm_add_instance(a)
  \/ \E a \in Args({Absent}, Parameters) : dm_change_object(a)
  \/ \E a \in Args(Keys, Parameters) : dm_add_or_change_instance(a)
  \/ \E a \in Args({Absent}, {Absent}) : RefuseRemoval(a) \/ remove_instance(a)
  \/ \E ok \in Succeeds : ApplyRemoval(ok)
  \/ \E t \in Trx(DOMAIN val) : read_trx_param(t)
  \/ \E i \in Index \cup {"0"} : dm_omci_reset_mib(i)
  \/ \E name \in {"FsmState", "ModuleName"}, v \in Values :
       dm_set_xpon_parameter(name, v)

Spec == Init /\ [][Next]_vars
-----------------------------------------------------------------------------
(***************************************************************************)
(* Properties.                                                             *)
(***************************************************************************)

\* Every variable stays in its range, and what is remembered of an instance
\* goes with it.
TypeOK ==
  /\ \A p \in DOMAIN val :
       /\ dm_get_object_id(p) # Unknown
       /\ val[p] \in IF dm_get_object_id(p) \in WithStatus THEN Values ELSE {NoStatus}
  /\ \A p \in DOMAIN val : IsTemplate(p) = FALSE
  /\ \A o \in priv : dm_get_object_id(o) = "onu" /\ Exists(o)
  /\ fsm \in Values
  /\ ignore \in BOOLEAN
  /\ pc \in {"idle", "removing"}
  /\ IF pc = "removing" THEN removed \in DOMAIN val ELSE removed = <<>>
  /\ misled \in BOOLEAN

\* A call that returns an error has changed no object, although some of them
\* work in several steps.
RefusedChangesNothing == [][last'.rc = -1 => UNCHANGED <<val, fsm>>]_vars

\* A call that returns 0 has done what it is named for: the instance is there,
\* or is gone, and the value given for a parameter is the one it has now ("the
\* function finds the required keys, independent from whether the instance
\* already exists or not", pon_stat.c).
SuccessIsTrue ==
  last.rc = 0 =>
    /\ last.op \in {"add", "add_or_change"} => last.target \in DOMAIN val
    /\ /\ last.op \in {"add", "change", "add_or_change"}
       /\ last.target \in DOMAIN val
       /\ last.want \in Values
       => val[last.target] = last.want
    /\ last.op = "remove" => last.target \notin DOMAIN val

\* An OMCI reset of the MIB leaves no EthernetUNI of the ONU Up and none of its
\* GEM ports, on whichever ANI, unless a deletion failed.
ResetClears ==
  last.op = "reset" /\ last.want = "Down" =>
    \A p \in DOMAIN val :
      IsPrefix(last.target, p) =>
        /\ dm_get_object_id(p) # "gem_port"
        /\ dm_get_object_id(p) = "ethernet_uni" => val[p] # "Up"

\* The vendor module is never asked for the parameters of a transceiver it is
\* removing, and the flag that sees to it is not left behind: outside of a
\* removal every read reaches the vendor module.
ReadsAnswerable == ~misled /\ (ignore => pc = "removing")

\* What an object is follows from its path, whatever the indexes in it: the
\* text of dm_convert_to_generic_path() finds the one entry of OBJECT_INFO that
\* denotes the object, for an instance as for a template or a singleton.
IdsAsDenoted ==
  \A p \in DOMAIN val \cup {last.target} :
    \A id \in object_id : dm_get_object_id(p) = id <=> Denotes(p, id)

\* The data model is a tree to its readers at every moment: no object without
\* the instances above it, one object per step.
Tree == INSTANCE XponTree WITH tree <- val
ImplementsTree == Tree!Spec
=============================================================================
