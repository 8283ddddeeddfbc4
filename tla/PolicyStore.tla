---------------------------- MODULE PolicyStore ----------------------------
(***************************************************************************)
(* The policies table and the calls internal/store/policy.go makes on it.  *)
(* Each call is one SQL statement, so each operator below is atomic.       *)
(*                                                                         *)
(* A row keeps the columns the rest of the program acts on: display_name,  *)
(* policy_type, priority, rego_code and enabled.  description and          *)
(* label_selector are read and written exactly as enabled is, and the two  *)
(* timestamps are never read back by the program.                          *)
(***************************************************************************)
EXTENDS PolicyData, Integers

CONSTANTS
  DisplayName,  \* non-blank display names
  PolicyType    \* strings a client may send as policy_type

VARIABLE db     \* the table: a row or None for each id

MinPriority == 1
MaxPriority == 1000
Priority == MinPriority .. MaxPriority

Row == [name: DisplayName \cup {Blank}, ptype: PolicyType, prio: Priority,
        rego: Rego, enabled: BOOLEAN]

Table == [PolicyID -> Row \cup {None}]

(* What ListAll hands to the engine: the Rego source of every row. *)
ModulesOf(table) ==
  [id \in PolicyID |-> IF table[id] = None THEN None ELSE table[id].rego]

-----------------------------------------------------------------------------
(* The unique indexes idx_display_name_policy_type and                     *)
(* idx_priority_policy_type, and the rows of other ids a value clashes on. *)

SameName(r, s) == r.name = s.name /\ r.ptype = s.ptype
SamePriority(r, s) == r.prio = s.prio /\ r.ptype = s.ptype

NameTaken(table, id, row) ==
  \E other \in PolicyID \ {id} : table[other] # None /\ SameName(table[other], row)

PriorityTaken(table, id, row) ==
  \E other \in PolicyID \ {id} :
    table[other] # None /\ SamePriority(table[other], row)

UniqueClash(table, id, row) ==
  NameTaken(table, id, row) \/ PriorityTaken(table, id, row)

-----------------------------------------------------------------------------
(* INSERT: refused when the key or either unique value is taken. *)
CanCreate(table, id, row) == table[id] = None /\ ~UniqueClash(table, id, row)

Created(table, id, row) == [table EXCEPT ![id] = row]

(* UPDATE ... WHERE id: writes the mutable columns only.  policy_type keeps
   the value the row has, which the indexes are checked against. *)
KeepType(table, id, row) == [row EXCEPT !.ptype = table[id].ptype]

CanUpdate(table, id, row) ==
  table[id] # None /\ ~UniqueClash(table, id, KeepType(table, id, row))

(* Fault: policy_type is one of the columns Update selects. *)
UpdatedWithType(table, id, row) == [table EXCEPT ![id] = row]

Updated(table, id, row) == [table EXCEPT ![id] = KeepType(table, id, row)]

(* DELETE ... WHERE id: the caller treats zero affected rows as not found. *)
Deleted(table, id) == [table EXCEPT ![id] = None]

(* mapUniqueConstraintError looks for the clash again with up to three
   reads: by id, by display name, by priority.  An update leaves its own row
   out of all three.  ClashFound is the answer of read number n. *)
ClashFound(table, n, id, row, isUpdate) ==
  LET seen == {table[x] : x \in IF isUpdate THEN PolicyID \ {id} ELSE PolicyID}
  IN CASE n = 1 -> ~isUpdate /\ table[id] # None
       [] n = 2 -> \E r \in seen \ {None} : SameName(r, row)
       [] n = 3 -> \E r \in seen \ {None} : SamePriority(r, row)

=============================================================================
