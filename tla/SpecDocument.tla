---------------------------- MODULE SpecDocument ----------------------------
(***************************************************************************)
(* JSON objects: the spec of a service instance and the patches policies   *)
(* apply to it.  A document gives every path what is found there; the      *)
(* members of an object are the paths one key longer.                      *)
(***************************************************************************)
EXTENDS Naturals, Sequences, FiniteSets

CONSTANTS
  Key,       \* keys of JSON objects
  Path,      \* paths that may occur: non-empty sequences of keys
  Scalar,    \* strings, numbers, booleans and arrays
  Object,    \* what is found at the path of a nested object
  Null,      \* JSON null
  Missing    \* no such key

IsPrefix(q, p) == Len(q) <= Len(p) /\ SubSeq(p, 1, Len(q)) = q

(* The paths from the top of the document to p, p among them. *)
Upto(p) == {q \in Path : IsPrefix(q, p)}

Above(p) == Upto(p) \ {p}

(* The paths from p on down, p among them. *)
From(p) == {q \in Path : IsPrefix(p, q)}

ASSUME PathAssumption ==
  /\ IsFiniteSet(Path)
  /\ \A p \in Path :
       /\ p \in Seq(Key) /\ p # <<>>
       /\ \A n \in 1 .. Len(p) : SubSeq(p, 1, n) \in Path
  /\ Object \notin Scalar /\ Null \notin Scalar /\ Missing \notin Scalar
  /\ Object # Null /\ Object # Missing /\ Null # Missing

Node == Scalar \cup {Object, Null, Missing}

(* Only an object has members. *)
Document ==
  {d \in [Path -> Node] :
     \A p \in Path : d[p] # Missing => \A q \in Above(p) : d[q] = Object}

(* The JSON value at p, members and all. *)
ValueAt(d, p) == [q \in From(p) |-> d[q]]

(* The members of the object at p; a null is one too. *)
Members(d, p) == {q \in From(p) : Len(q) = Len(p) + 1 /\ d[q] # Missing}

(* Fault: the members of an object that is removed or replaced stay. *)
MergePatchFlat(base, patch) ==
  [p \in Path |->
     CASE patch[p] = Missing -> base[p]
       [] patch[p] = Null -> Missing
       [] OTHER -> patch[p]]

(* mergePatch recurses into a key while patch and base both have an object
   there.  Of the keys it visits on the way to p, the last decides: one the
   patch lacks is kept, null removes what base has, anything else replaces
   it. *)
MergePatch(base, patch) ==
  LET Recurses(q) == patch[q] = Object /\ base[q] = Object
      Visited(p) == {q \in Upto(p) : \A r \in Above(q) : Recurses(r)}
  IN [p \in Path |->
        IF \E q \in Visited(p) : patch[q] = Missing THEN base[p]
        ELSE IF \E q \in Visited(p) : patch[q] = Null THEN Missing
        ELSE patch[p]]

=============================================================================
