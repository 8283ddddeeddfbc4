------------------------- MODULE ConstraintContext -------------------------
(***************************************************************************)
(* internal/service/constraints.go: how the JSON Schema constraints and    *)
(* the service provider constraints of successive policies accumulate, and *)
(* what they refuse.                                                       *)
(***************************************************************************)
EXTENDS SpecDocument, Integers

CONSTANTS
  Number,         \* the scalars that are numbers
  Literal,        \* the JSON values a const or an enum may name
  Pattern,        \* regular expressions
  Matches(_, _),  \* does a pattern match a string?
  Provider,       \* service providers
  URI(_),         \* the resource name a field path is compiled under
  None            \* no constraint, no keyword, no provider

(* The keywords of a field's schema, with values of the type JSON Schema
   gives them.  min and max stand for the bounds of numbers and of the lengths
   of strings and arrays, and allOf, here a set of patterns, for the keywords
   mergeSchemaKeywords overrides. *)
Schema ==
  [const: Literal \cup {None}, enum: (SUBSET Literal) \cup {None},
   min: Int \cup {None}, max: Int \cup {None},
   minProperties: Nat \cup {None}, maxProperties: Nat \cup {None},
   multipleOf: Nat \cup {None},
   pattern: Pattern \cup {None}, allOf: ((SUBSET Pattern) \ {{}}) \cup {None}]

(* The constraints of a policy, or of all policies so far. *)
Constraints == [Path -> Schema \cup {None}]

(* Constraints on service providers.  An empty allow list allows all. *)
SPConstraints == [allow: SUBSET Provider, patterns: SUBSET Pattern]

Or(value, default) == IF value = None THEN default ELSE value
Both(a, b) == a # None /\ b # None

ASSUME ConstraintAssumption ==
  /\ Number \subseteq Scalar \cap Int
  /\ None \notin Schema /\ None \notin SPConstraints /\ None \notin Int
  /\ \A v \in Literal : \E p \in Path : v \in [From(p) -> Node]
  /\ \A x \in Literal \cup (SUBSET Literal) \cup (SUBSET Pattern) : x # None

(* Is what d has at p valid against s?  Keywords about numbers, strings and
   objects accept what is none, and a schema that does not compile accepts
   nothing. *)
Satisfies(d, p, s) ==
  /\ s.const = None \/ ValueAt(d, p) = s.const
  /\ s.enum = None \/ ValueAt(d, p) \in s.enum
  /\ s.multipleOf # 0
  /\ d[p] \in Number =>
       /\ s.min = None \/ s.min <= d[p]
       /\ s.max = None \/ d[p] <= s.max
       /\ s.multipleOf = None \/ d[p] % s.multipleOf = 0
  /\ d[p] \in Scalar \ Number =>
       /\ s.pattern = None \/ Matches(s.pattern, d[p])
       /\ s.allOf = None \/ \A e \in s.allOf : Matches(e, d[p])
  /\ d[p] = Object =>
       /\ s.minProperties = None \/ s.minProperties <= Cardinality(Members(d, p))
       /\ s.maxProperties = None \/ Cardinality(Members(d, p)) <= s.maxProperties

-----------------------------------------------------------------------------
(* mergeSchemaKeywords and MergeConstraints *)

(* Fault: the comparison of the upper bounds is turned around. *)
LoosensUnlessHigher(old, new) ==
  \/ Both(old.const, new.const) /\ old.const # new.const
  \/ Both(old.enum, new.enum) /\ old.enum \cap new.enum = {}
  \/ Both(old.min, new.min) /\ new.min < old.min
  \/ Both(old.max, new.max) /\ new.max < old.max
  \/ Both(old.minProperties, new.minProperties) /\ new.minProperties < old.minProperties
  \/ Both(old.maxProperties, new.maxProperties) /\ new.maxProperties < old.maxProperties
  \/ Both(old.multipleOf, new.multipleOf) /\ old.multipleOf # 0
       /\ new.multipleOf % old.multipleOf # 0

(* A keyword both have is refused unless the new value is as tight. *)
Loosens(old, new) ==
  \/ Both(old.const, new.const) /\ old.const # new.const
  \/ Both(old.enum, new.enum) /\ old.enum \cap new.enum = {}
  \/ Both(old.min, new.min) /\ new.min < old.min
  \/ Both(old.max, new.max) /\ new.max > old.max
  \/ Both(old.minProperties, new.minProperties) /\ new.minProperties < old.minProperties
  \/ Both(old.maxProperties, new.maxProperties) /\ new.maxProperties > old.maxProperties
  \/ Both(old.multipleOf, new.multipleOf) /\ old.multipleOf # 0
       /\ new.multipleOf % old.multipleOf # 0

(* A second pattern goes to "allOf" together with the first, a further one
   is added there; an "allOf" of the new policy replaces what was there,
   after the pattern was added or before, as Go happens to range over the
   keywords. *)
AllOf(old, new, patternFirst) ==
  LET another == Both(old.pattern, new.pattern) /\ old.pattern # new.pattern
      Add(allOf) == IF ~another THEN allOf
                    ELSE {new.pattern} \cup (IF allOf = None THEN {old.pattern} ELSE allOf)
  IN IF new.allOf = None THEN Add(old.allOf)
     ELSE IF patternFirst THEN new.allOf ELSE Add(new.allOf)

Tightened(old, new, patternFirst) ==
  [const |-> Or(old.const, new.const),
   enum |-> IF Both(old.enum, new.enum) THEN old.enum \cap new.enum
            ELSE Or(old.enum, new.enum),
   min |-> Or(new.min, old.min),
   max |-> Or(new.max, old.max),
   minProperties |-> Or(new.minProperties, old.minProperties),
   maxProperties |-> Or(new.maxProperties, old.maxProperties),
   multipleOf |-> IF old.multipleOf = 0 THEN 0 ELSE Or(new.multipleOf, old.multipleOf),
   pattern |-> Or(old.pattern, new.pattern),
   allOf |-> AllOf(old, new, patternFirst)]

ConstraintsConflict(fields, new) ==
  \E p \in Path : Both(fields[p], new[p]) /\ Loosens(fields[p], new[p])

(* Fault: the schema of the later policy replaces the one before. *)
ReplaceConstraints(fields, new, patternFirst) == [p \in Path |-> Or(new[p], fields[p])]

(* patternFirst: the paths whose pattern Go meets before its "allOf". *)
MergeConstraints(fields, new, patternFirst) ==
  [p \in Path |->
     IF Both(fields[p], new[p]) THEN Tightened(fields[p], new[p], p \in patternFirst)
     ELSE Or(fields[p], new[p])]

-----------------------------------------------------------------------------
(* ValidatePatch *)

(* The paths of the patch that have a constraint. *)
Checked(fields, patch) == {p \in Path : patch[p] # Missing /\ fields[p] # None}

(* Fault: nested objects are not descended into. *)
PatchAllowedAtTop(fields, patch) ==
  \A p \in Checked(fields, patch) : Len(p) = 1 => Satisfies(patch, p, fields[p])

(* What the patch has there is validated, not what merging it will make of an
   object; compiling the schema of a second path under a resource name that is
   taken fails, which counts as a violation. *)
PatchAllowed(fields, patch) ==
  \A p \in Checked(fields, patch) :
    /\ Satisfies(patch, p, fields[p])
    /\ \A q \in Checked(fields, patch) \ {p} : URI(q) # URI(p)

-----------------------------------------------------------------------------
(* MergeSPConstraints and ValidateServiceProvider *)

(* Fault: an empty intersection is not refused. *)
NoSPConflict(sp, new) == FALSE

SPConflict(sp, new) ==
  /\ Both(sp, new)
  /\ sp.allow # {} /\ new.allow # {} /\ sp.allow \cap new.allow = {}

MergeSP(sp, new) ==
  CASE new = None -> sp
    [] sp = None /\ new # None ->
         IF new.allow = {} /\ new.patterns = {} THEN None ELSE new
    [] Both(sp, new) ->
         [allow |-> IF sp.allow # {} /\ new.allow # {} THEN sp.allow \cap new.allow
                    ELSE sp.allow \cup new.allow,
          patterns |-> sp.patterns \cup new.patterns]

ProviderAllowed(sp, provider) ==
  \/ sp = None
  \/ /\ sp.allow = {} \/ provider \in sp.allow
     /\ \A e \in sp.patterns : Matches(e, provider)

=============================================================================
