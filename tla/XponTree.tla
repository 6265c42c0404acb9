------------------------------ MODULE XponTree ------------------------------
(***************************************************************************)
(* What the XPON data model looks like to those who read it: a tree of     *)
(* objects that grows by one instance below an existing one, is changed    *)
(* one object at a time, and loses an instance with all that is below it,  *)
(* or, at an OMCI reset, objects below one ONU.                            *)
(***************************************************************************)
EXTENDS Naturals, Sequences, SequencesExt

CONSTANT Index  \* the indexes an instance can have

VARIABLE tree   \* the value of each object that exists, by its path

\* The instances a path leads through, its own included.
Through(p) == {SubSeq(p, 1, k) : k \in {j \in DOMAIN p : p[j] \in Index}}

NoOrphan(objects) == \A p \in objects : Through(p) \subseteq objects

Below(p) == {q \in DOMAIN tree : IsPrefix(p, q)}

SameValue(objects) == \A q \in objects : tree'[q] = tree[q]

Init == DOMAIN tree = {}

\* With an instance come the singletons it has.
Grow(p) ==
  /\ p \notin DOMAIN tree
  /\ DOMAIN tree \subseteq DOMAIN tree'
  /\ \A q \in DOMAIN tree' \ DOMAIN tree :
       IsPrefix(p, q) /\ Through(q) = Through(p)
  /\ SameValue(DOMAIN tree)

Change(p) ==
  /\ DOMAIN tree' = DOMAIN tree
  /\ SameValue(DOMAIN tree \ {p})

Cut(p) ==
  /\ DOMAIN tree' = DOMAIN tree \ Below(p)
  /\ SameValue(DOMAIN tree')

\* Only instances strictly below the ONU are changed or removed.
ResetMib(onu) ==
  /\ DOMAIN tree' \subseteq DOMAIN tree
  /\ DOMAIN tree \ DOMAIN tree' \subseteq Below(onu) \ {onu}
  /\ \A q \in DOMAIN tree' :
       tree'[q] # tree[q] => q \in Below(onu) \ {onu} /\ q[Len(q)] \in Index

Next ==
  /\ \/ \E p \in DOMAIN tree' : Grow(p) \/ Change(p)
     \/ \E p \in DOMAIN tree : Cut(p) \/ ResetMib(p)
  /\ NoOrphan(DOMAIN tree')

Spec == Init /\ [][Next]_tree
=============================================================================
