---------------------- MODULE EvaluationServiceProofs ----------------------
(***************************************************************************)
(* Theorems about EvaluationService, for any documents, constraints and    *)
(* decisions and any number of policies.                                   *)
(***************************************************************************)
EXTENDS EvaluationService, SequenceTheorems, FiniteSetTheorems, TLAPS

-----------------------------------------------------------------------------
(* Paths *)

(* A prefix agrees with the path at every key it has. *)
LEMMA PrefixByKeys ==
  ASSUME NEW p \in Seq(Key), NEW q \in Seq(Key)
  PROVE  IsPrefix(q, p) <=> Len(q) <= Len(p) /\ \A i \in 1 .. Len(q) : q[i] = p[i]
<1>1. ASSUME Len(q) <= Len(p)
      PROVE  /\ SubSeq(p, 1, Len(q)) \in Seq(Key)
             /\ Len(SubSeq(p, 1, Len(q))) = Len(q)
             /\ \A i \in 1 .. Len(q) : SubSeq(p, 1, Len(q))[i] = p[i]
  BY <1>1
<1>2. ASSUME Len(q) <= Len(p), \A i \in 1 .. Len(q) : q[i] = p[i]
      PROVE  SubSeq(p, 1, Len(q)) = q
  BY <1>1, <1>2, SeqEqual
<1> QED
  BY <1>1, <1>2 DEF IsPrefix

(* Prefixes of prefixes are prefixes; two prefixes of a path are prefixes one
   of the other; prefixes of each other are equal. *)
LEMMA PrefixOrder ==
  ASSUME NEW p \in Seq(Key), NEW q \in Seq(Key), NEW r \in Seq(Key)
  PROVE  /\ IsPrefix(r, q) /\ IsPrefix(q, p) => IsPrefix(r, p)
         /\ IsPrefix(q, p) /\ IsPrefix(r, p) => IsPrefix(q, r) \/ IsPrefix(r, q)
         /\ IsPrefix(q, p) /\ IsPrefix(p, q) => p = q
         /\ IsPrefix(p, p)
<1>1. IsPrefix(r, q) /\ IsPrefix(q, p) => IsPrefix(r, p)
  BY PrefixByKeys
<1>2. IsPrefix(q, p) /\ IsPrefix(r, p) => IsPrefix(q, r) \/ IsPrefix(r, q)
  BY PrefixByKeys
<1>3. IsPrefix(q, p) /\ IsPrefix(p, q) => p = q
  BY PrefixByKeys, SeqEqual
<1>4. IsPrefix(p, p)
  BY PrefixByKeys
<1> QED
  BY <1>1, <1>2, <1>3, <1>4

(* The paths above a path form a chain that ends in it. *)
LEMMA UptoChain ==
  ASSUME NEW p \in Path, NEW q \in Upto(p), NEW r \in Upto(p)
  PROVE  /\ p \in Upto(p)
         /\ Upto(q) \subseteq Upto(p)
         /\ r \in Upto(q) \/ q \in Above(r)
         /\ Above(q) \subseteq Above(p)
         /\ q # p => q \in Above(p)
<1>1. p \in Seq(Key) /\ q \in Seq(Key) /\ r \in Seq(Key) /\ q \in Path /\ r \in Path
  BY PathAssumption DEF Upto
<1>2. Path \subseteq Seq(Key)
  BY PathAssumption
<1>3. IsPrefix(q, p) /\ IsPrefix(r, p)
  BY DEF Upto
<1>4. p \in Upto(p)
  BY <1>1, PrefixOrder DEF Upto
<1>5. Upto(q) \subseteq Upto(p)
  BY <1>1, <1>2, <1>3, PrefixOrder DEF Upto
<1>6. r \in Upto(q) \/ q \in Above(r)
  BY <1>1, <1>3, PrefixOrder DEF Upto, Above
<1>7. Above(q) \subseteq Above(p)
  <2>1. ASSUME p \in Above(q) PROVE FALSE
    BY <2>1, <1>1, <1>3, PrefixOrder DEF Upto, Above
  <2> QED
    BY <2>1, <1>5 DEF Above
<1> QED
  BY <1>4, <1>5, <1>6, <1>7 DEF Above

-----------------------------------------------------------------------------
(* mergePatch *)

(* Where a patch has a value the merged document has that value, or nothing;
   where it has none, what base has, or nothing. *)
LEMMA MergePatchValue ==
  ASSUME NEW base \in Document, NEW patch \in Document, NEW p \in Path
  PROVE  LET merged == MergePatch(base, patch)
         IN  /\ patch[p] # Missing => merged[p] \in {patch[p], Missing}
             /\ patch[p] = Missing => merged[p] \in {base[p], Missing}
<1> DEFINE Recurses(q) == patch[q] = Object /\ base[q] = Object
           Visited(x) == {q \in Upto(x) : \A r \in Above(q) : Recurses(r)}
<1>1. MergePatch(base, patch)[p] =
        IF \E q \in Visited(p) : patch[q] = Missing THEN base[p]
        ELSE IF \E q \in Visited(p) : patch[q] = Null THEN Missing
        ELSE patch[p]
  BY DEF MergePatch
<1>2. ASSUME patch[p] # Missing, NEW q \in Visited(p) PROVE patch[q] # Missing
  BY <1>2, PathAssumption DEF Document, Above, Upto
<1> HIDE DEF Visited
<1>3. CASE \E q \in Visited(p) : patch[q] = Missing
  BY <1>1, <1>2, <1>3
<1>4. CASE ~\E q \in Visited(p) : patch[q] = Missing
  BY <1>1, <1>4
<1> QED
  BY <1>3, <1>4

(* A patched document is a document: no member outlives its object. *)
LEMMA MergePatchTyped ==
  ASSUME NEW base \in Document, NEW patch \in Document
  PROVE  MergePatch(base, patch) \in Document
<1> DEFINE merged == MergePatch(base, patch)
           Recurses(q) == patch[q] = Object /\ base[q] = Object
           Visited(x) == {q \in Upto(x) : \A r \in Above(q) : Recurses(r)}
<1>1. \A p \in Path : merged[p] =
        IF \E q \in Visited(p) : patch[q] = Missing THEN base[p]
        ELSE IF \E q \in Visited(p) : patch[q] = Null THEN Missing
        ELSE patch[p]
  BY DEF MergePatch
<1>2. ASSUME NEW x \in Path, \E y \in Visited(x) : patch[y] = Missing
      PROVE  merged[x] = base[x]
  BY <1>1, <1>2
<1>3. base \in [Path -> Node] /\ patch \in [Path -> Node] /\ Missing \in Node
  BY DEF Document, Node
<1>4. merged \in [Path -> Node]
  <2>1. merged = [p \in Path |-> merged[p]]
    BY DEF MergePatch
  <2>2. ASSUME NEW p \in Path PROVE merged[p] \in {base[p], patch[p], Missing}
    <3>1. CASE \E q \in Visited(p) : patch[q] = Missing
      BY <1>1, <3>1
    <3>2. CASE ~\E q \in Visited(p) : patch[q] = Missing
      BY <1>1, <3>2
    <3> QED
      BY <3>1, <3>2
  <2> HIDE DEF merged
  <2> QED
    BY <1>3, <2>1, <2>2
<1>5. ASSUME NEW p \in Path, merged[p] # Missing, NEW q \in Above(p)
      PROVE  merged[q] = Object
  <2>1. q \in Path /\ q \in Upto(p) /\ p \in Upto(p)
    BY UptoChain DEF Above, Upto
  <2>2. Visited(q) \subseteq Visited(p)
    BY <2>1, UptoChain
  <2>3. CASE \E r \in Visited(p) : patch[r] = Missing
    <3>1. PICK r \in Visited(p) : patch[r] = Missing
      BY <2>3
    <3>2. base[p] # Missing /\ base[q] = Object
      BY <1>1, <1>5, <2>3 DEF Document
    <3>3. CASE r \in Upto(q)
      <4>1. \E x \in Visited(q) : patch[x] = Missing
        BY <3>1, <3>3
      <4>2. merged[q] = base[q]
        BY <1>2, <2>1, <4>1
      <4> QED
        BY <3>2, <4>2
    <3>4. CASE q \in Above(r)
      <4>1. patch[q] = Object
        BY <3>1, <3>4
      <4>2. ASSUME NEW x \in Visited(q) PROVE patch[x] = Object
        <5>1. x \in Upto(q) /\ x \in Upto(r)
          BY <3>1, <3>4, UptoChain DEF Above, Upto
        <5>2. CASE x = q
          BY <4>1, <5>2
        <5>3. CASE x # q
          BY <2>1, <3>1, <3>4, <5>1, <5>3, UptoChain DEF Above, Upto
        <5> QED
          BY <5>2, <5>3
      <4> QED
        BY <1>1, <2>1, <4>1, <4>2, PathAssumption
    <3> QED
      BY <2>1, <3>1, <3>3, <3>4, UptoChain
  <2>4. CASE ~\E r \in Visited(p) : patch[r] = Missing
    <3>1. ~(\E r \in Visited(p) : patch[r] = Null) /\ patch[p] # Missing
      BY <1>1, <1>5, <2>4
    <3>2. patch[q] = Object
      BY <1>5, <3>1 DEF Document
    <3> QED
      BY <1>1, <2>1, <2>2, <2>4, <3>1, <3>2
  <2> QED
    BY <2>3, <2>4
<1> QED
  BY <1>4, <1>5 DEF Document

-----------------------------------------------------------------------------
(* Constraints *)

(* Divisibility is transitive; a schema's multipleOf may be zero. *)
LEMMA DividesTransitive ==
  ASSUME NEW a \in Nat, NEW b \in Nat, NEW x \in Int, a # 0, b # 0,
         b % a = 0, x % b = 0
  PROVE  x % a = 0
<1>1. PICK k \in Int : b = a * k
  <2>1. b = a * (b \div a) /\ b \div a \in Int
    OBVIOUS
  <2> QED
    BY <2>1
<1>2. PICK l \in Int : x = b * l
  <2>1. x = b * (x \div b) /\ x \div b \in Int
    OBVIOUS
  <2> QED
    BY <2>1
<1>3. PICK n \in Int : x = a * n
  <2>1. x = a * (k * l) /\ k * l \in Int
    BY <1>1, <1>2
  <2> QED
    BY <2>1
<1>4. (a * n) % a = 0
  OBVIOUS
<1> QED
  BY <1>3, <1>4

(* A schema merged without a conflict is a schema that accepts only what both
   accept, unless the new one has an allOf. *)
LEMMA TightenedTyped ==
  ASSUME NEW old \in Schema, NEW new \in Schema, NEW patternFirst
  PROVE  Tightened(old, new, patternFirst) \in Schema
<1>1. AllOf(old, new, patternFirst) \in ((SUBSET Pattern) \ {{}}) \cup {None}
  BY DEF AllOf, Both, Schema
<1>2. /\ Or(old.const, new.const) \in Literal \cup {None}
      /\ (IF Both(old.enum, new.enum) THEN old.enum \cap new.enum
          ELSE Or(old.enum, new.enum)) \in (SUBSET Literal) \cup {None}
      /\ Or(new.min, old.min) \in Int \cup {None}
      /\ Or(new.max, old.max) \in Int \cup {None}
      /\ Or(new.minProperties, old.minProperties) \in Nat \cup {None}
      /\ Or(new.maxProperties, old.maxProperties) \in Nat \cup {None}
      /\ Or(old.pattern, new.pattern) \in Pattern \cup {None}
  BY DEF Or, Both, Schema
<1>3. (IF old.multipleOf = 0 THEN 0 ELSE Or(new.multipleOf, old.multipleOf))
        \in Nat \cup {None}
  BY DEF Or, Schema
<1> QED
  BY <1>1, <1>2, <1>3 DEF Tightened, Schema

(* An object has finitely many members. *)
LEMMA SizeIsNat ==
  ASSUME NEW d, NEW p
  PROVE  Cardinality(Members(d, p)) \in Nat
<1>1. Members(d, p) \in SUBSET Path
  BY DEF Members, From
<1>2. IsFiniteSet(Members(d, p))
  BY <1>1, PathAssumption, FS_Subset
<1> QED
  BY <1>2, FS_CardinalityType

LEMMA TightenedImplies ==
  ASSUME NEW old \in Schema, NEW new \in Schema, NEW patternFirst,
         ~Loosens(old, new), new.allOf = None,
         NEW d \in Document, NEW p \in Path,
         Satisfies(d, p, Tightened(old, new, patternFirst))
  PROVE  Satisfies(d, p, old) /\ Satisfies(d, p, new)
<1> DEFINE t == Tightened(old, new, patternFirst)
<1>1. /\ old.const = None \/ ValueAt(d, p) = old.const
      /\ new.const = None \/ ValueAt(d, p) = new.const
  BY DEF Tightened, Satisfies, Loosens, Or, Both
<1>2. /\ old.enum = None \/ ValueAt(d, p) \in old.enum
      /\ new.enum = None \/ ValueAt(d, p) \in new.enum
  <2>1. t.enum = IF Both(old.enum, new.enum) THEN old.enum \cap new.enum
                 ELSE Or(old.enum, new.enum)
    BY DEF Tightened
  <2>2. t.enum = None \/ ValueAt(d, p) \in t.enum
    BY DEF Satisfies
  <2>3. Both(old.enum, new.enum) => old.enum \cap new.enum \in SUBSET Literal
    BY DEF Both, Schema
  <2> QED
    BY <2>1, <2>2, <2>3, ConstraintAssumption DEF Or, Both
<1>3. old.multipleOf # 0 /\ new.multipleOf # 0
  BY ConstraintAssumption DEF Tightened, Satisfies, Or, Both, Loosens, Schema
<1>4. ASSUME d[p] \in Number
      PROVE  /\ old.min = None \/ old.min <= d[p]
             /\ new.min = None \/ new.min <= d[p]
             /\ old.max = None \/ d[p] <= old.max
             /\ new.max = None \/ d[p] <= new.max
  <2>1. d[p] \in Int
    BY <1>4, ConstraintAssumption
  <2>2. /\ old.min # None => old.min \in Int
        /\ new.min # None => new.min \in Int
        /\ old.max # None => old.max \in Int
        /\ new.max # None => new.max \in Int
    BY DEF Schema
  <2>3. /\ Or(new.min, old.min) = None \/ Or(new.min, old.min) <= d[p]
        /\ Or(new.max, old.max) = None \/ d[p] <= Or(new.max, old.max)
    BY <1>4 DEF Tightened, Satisfies
  <2>4. Both(old.min, new.min) => ~(new.min < old.min)
    BY DEF Loosens
  <2>5. Both(old.max, new.max) => ~(new.max > old.max)
    BY DEF Loosens
  <2> QED
    BY <2>1, <2>2, <2>3, <2>4, <2>5 DEF Or, Both
<1>5. ASSUME d[p] \in Number
      PROVE  /\ old.multipleOf = None \/ d[p] % old.multipleOf = 0
             /\ new.multipleOf = None \/ d[p] % new.multipleOf = 0
  <2>1. d[p] \in Int
    BY <1>5, ConstraintAssumption
  <2>2. Or(new.multipleOf, old.multipleOf) = None
          \/ d[p] % Or(new.multipleOf, old.multipleOf) = 0
    BY <1>3, <1>5 DEF Tightened, Satisfies
  <2>3. CASE Both(old.multipleOf, new.multipleOf)
    <3>1. old.multipleOf \in Nat /\ new.multipleOf \in Nat
      BY <2>3 DEF Both, Schema
    <3>2. new.multipleOf % old.multipleOf = 0
      BY <1>3, <2>3 DEF Loosens
    <3>3. d[p] % new.multipleOf = 0
      BY <2>2, <2>3 DEF Or, Both
    <3> QED
      BY <1>3, <2>1, <3>1, <3>2, <3>3, DividesTransitive
  <2>4. CASE ~Both(old.multipleOf, new.multipleOf)
    BY <2>2, <2>4 DEF Or, Both
  <2> QED
    BY <2>3, <2>4
<1>6. ASSUME d[p] \in Scalar \ Number
      PROVE  /\ old.pattern = None \/ Matches(old.pattern, d[p])
             /\ new.pattern = None \/ Matches(new.pattern, d[p])
             /\ old.allOf = None \/ \A e \in old.allOf : Matches(e, d[p])
  <2>1. t.pattern = Or(old.pattern, new.pattern) /\ t.allOf = AllOf(old, new, patternFirst)
    BY DEF Tightened
  <2>2. /\ t.pattern = None \/ Matches(t.pattern, d[p])
        /\ t.allOf = None \/ \A e \in t.allOf : Matches(e, d[p])
    BY <1>6 DEF Satisfies
  <2> HIDE DEF t
  <2>3. CASE Both(old.pattern, new.pattern) /\ old.pattern # new.pattern
    <3>1. t.allOf = {new.pattern} \cup (IF old.allOf = None THEN {old.pattern} ELSE old.allOf)
      BY <2>1, <2>3 DEF AllOf
    <3>2. t.allOf \in SUBSET Pattern
      BY <2>3, <3>1 DEF Both, Schema
    <3>3. t.allOf # None
      BY <3>2, ConstraintAssumption
    <3> QED
      BY <2>1, <2>2, <2>3, <3>1, <3>3 DEF Or, Both
  <2>4. CASE ~(Both(old.pattern, new.pattern) /\ old.pattern # new.pattern)
    BY <2>1, <2>2, <2>4 DEF AllOf, Or, Both
  <2> QED
    BY <2>3, <2>4
<1>7. ASSUME d[p] = Object
      PROVE  LET size == Cardinality(Members(d, p))
             IN  /\ old.minProperties = None \/ old.minProperties <= size
                 /\ new.minProperties = None \/ new.minProperties <= size
                 /\ old.maxProperties = None \/ size <= old.maxProperties
                 /\ new.maxProperties = None \/ size <= new.maxProperties
  <2> DEFINE size == Cardinality(Members(d, p))
  <2>1. size \in Nat
    BY SizeIsNat
  <2>2. /\ old.minProperties # None => old.minProperties \in Nat
        /\ new.minProperties # None => new.minProperties \in Nat
        /\ old.maxProperties # None => old.maxProperties \in Nat
        /\ new.maxProperties # None => new.maxProperties \in Nat
    BY DEF Schema
  <2>3. /\ t.minProperties = Or(new.minProperties, old.minProperties)
        /\ t.maxProperties = Or(new.maxProperties, old.maxProperties)
    BY DEF Tightened
  <2>4. /\ t.minProperties = None \/ t.minProperties <= size
        /\ t.maxProperties = None \/ size <= t.maxProperties
    BY <1>7 DEF Satisfies
  <2>5. Both(old.minProperties, new.minProperties) => ~(new.minProperties < old.minProperties)
    BY DEF Loosens
  <2>6. Both(old.maxProperties, new.maxProperties) => ~(new.maxProperties > old.maxProperties)
    BY DEF Loosens
  <2> HIDE DEF t, size
  <2>7. /\ old.minProperties = None \/ old.minProperties <= size
        /\ new.minProperties = None \/ new.minProperties <= size
    BY <2>1, <2>2, <2>3, <2>4, <2>5 DEF Or, Both
  <2>8. /\ old.maxProperties = None \/ size <= old.maxProperties
        /\ new.maxProperties = None \/ size <= new.maxProperties
    BY <2>1, <2>2, <2>3, <2>4, <2>6 DEF Or, Both
  <2> QED
    BY <2>7, <2>8 DEF size
<1> QED
  BY <1>1, <1>2, <1>3, <1>4, <1>5, <1>6, <1>7 DEF Satisfies

(* The constraints of a policy merged into those before it. *)
LEMMA MergeConstraintsTyped ==
  ASSUME NEW old \in Constraints, NEW new \in Constraints, NEW patternFirst
  PROVE  MergeConstraints(old, new, patternFirst) \in Constraints
<1>1. ASSUME NEW p \in Path
      PROVE  (IF Both(old[p], new[p]) THEN Tightened(old[p], new[p], p \in patternFirst)
              ELSE Or(old[p], new[p])) \in Schema \cup {None}
  <2>1. old[p] \in Schema \cup {None} /\ new[p] \in Schema \cup {None}
    BY DEF Constraints
  <2>2. CASE Both(old[p], new[p])
    BY <2>1, <2>2, TightenedTyped DEF Both
  <2>3. CASE ~Both(old[p], new[p])
    BY <2>1, <2>3 DEF Or
  <2> QED
    BY <2>2, <2>3
<1> QED
  BY <1>1 DEF MergeConstraints, Constraints

(* What the merged constraints accept at a path, the new constraint and those
   before it accept. *)
LEMMA MergeConstraintsImplies ==
  ASSUME NEW old \in Constraints, NEW new \in Constraints, NEW patternFirst,
         ~ConstraintsConflict(old, new),
         NEW p \in Path, new[p] = None \/ new[p].allOf = None,
         NEW d \in Document
  PROVE  LET merged == MergeConstraints(old, new, patternFirst)
         IN  /\ old[p] # None =>
                  merged[p] # None /\ (Satisfies(d, p, merged[p]) => Satisfies(d, p, old[p]))
             /\ new[p] # None =>
                  merged[p] # None /\ (Satisfies(d, p, merged[p]) => Satisfies(d, p, new[p]))
<1> DEFINE merged == MergeConstraints(old, new, patternFirst)
<1>1. merged[p] = IF Both(old[p], new[p])
                  THEN Tightened(old[p], new[p], p \in patternFirst)
                  ELSE Or(old[p], new[p])
  BY DEF MergeConstraints
<1>2. CASE Both(old[p], new[p])
  <2>1. old[p] \in Schema /\ new[p] \in Schema
    BY <1>2 DEF Both, Constraints
  <2>2. ~Loosens(old[p], new[p]) /\ new[p].allOf = None
    BY <1>2 DEF ConstraintsConflict, Both
  <2>3. merged[p] \in Schema
    BY <1>1, <1>2, <2>1, TightenedTyped
  <2>4. merged[p] # None
    BY <2>3, ConstraintAssumption
  <2>5. Satisfies(d, p, merged[p]) => Satisfies(d, p, old[p]) /\ Satisfies(d, p, new[p])
    BY <1>1, <1>2, <2>1, <2>2, TightenedImplies
  <2> QED
    BY <2>4, <2>5
<1>3. CASE ~Both(old[p], new[p])
  <2>1. merged[p] = Or(old[p], new[p])
    BY <1>1, <1>3
  <2> QED
    BY <1>3, <2>1 DEF Or, Both
<1> QED
  BY <1>2, <1>3

(* Provider constraints merged without a conflict allow no provider that was
   not allowed before. *)
LEMMA MergeSPNarrows ==
  ASSUME NEW old \in SPConstraints \cup {None}, NEW new \in SPConstraints \cup {None}
  PROVE  /\ MergeSP(old, new) \in SPConstraints \cup {None}
         /\ ~SPConflict(old, new) =>
              \A x \in Provider :
                ProviderAllowed(MergeSP(old, new), x) => ProviderAllowed(old, x)
<1>1. CASE old = None \/ new = None
  BY <1>1 DEF MergeSP, ProviderAllowed, Both
<1>2. CASE Both(old, new)
  <2> DEFINE allow == IF old.allow # {} /\ new.allow # {} THEN old.allow \cap new.allow
                      ELSE old.allow \cup new.allow
  <2>1. MergeSP(old, new) = [allow |-> allow, patterns |-> old.patterns \cup new.patterns]
    BY <1>2 DEF MergeSP, Both
  <2>2. old \in SPConstraints /\ new \in SPConstraints
    BY <1>2 DEF Both
  <2>3. allow \in SUBSET Provider /\ old.patterns \cup new.patterns \in SUBSET Pattern
    BY <2>2 DEF SPConstraints
  <2>4. MergeSP(old, new) \in SPConstraints
    BY <2>1, <2>3 DEF SPConstraints
  <2>5. ASSUME ~SPConflict(old, new), NEW x \in Provider,
               ProviderAllowed(MergeSP(old, new), x)
        PROVE  ProviderAllowed(old, x)
    <3>1. /\ allow = {} \/ x \in allow
          /\ \A e \in old.patterns : Matches(e, x)
      <4>1. MergeSP(old, new) # None
        BY <2>4, ConstraintAssumption
      <4>2. /\ MergeSP(old, new).allow = allow
            /\ MergeSP(old, new).patterns = old.patterns \cup new.patterns
        BY <2>1
      <4> HIDE DEF allow
      <4>3. /\ allow = {} \/ x \in allow
            /\ \A e \in old.patterns \cup new.patterns : Matches(e, x)
        BY <2>5, <4>1, <4>2 DEF ProviderAllowed
      <4> QED
        BY <4>3
    <3>2. old.allow = {} \/ x \in old.allow
      BY <1>2, <2>5, <3>1 DEF SPConflict
    <3> QED
      BY <3>1, <3>2 DEF ProviderAllowed
  <2> QED
    BY <2>4, <2>5
<1> QED
  BY <1>1, <1>2 DEF Both

(* What is no object has no members, so that two documents that have the same
   there have the same value, and satisfy the same constraints. *)
LEMMA SameScalar ==
  ASSUME NEW d \in Document, NEW e \in Document, NEW p \in Path,
         d[p] = e[p], d[p] # Object, NEW s
  PROVE  Satisfies(d, p, s) <=> Satisfies(e, p, s)
<1>1. ASSUME NEW q \in From(p), q # p PROVE d[q] = Missing /\ e[q] = Missing
  <2>1. q \in Path /\ p \in Above(q)
    BY <1>1 DEF From, Above, Upto
  <2> QED
    BY <2>1 DEF Document
<1>2. ValueAt(d, p) = ValueAt(e, p)
  BY <1>1 DEF ValueAt
<1> QED
  BY <1>2 DEF Satisfies

-----------------------------------------------------------------------------
(* The evaluation *)

(* A policy that is refused, and the end of an evaluation, change the status
   and nothing else. *)
LEMMA StepKinds ==
  ASSUME [Next]_vars
  PROVE  \/ \E d \in Decision : \E patternFirst :
              LET merged == MergeConstraints(fields, d.constraints, patternFirst)
              IN  ~Conflicts(d, merged) /\ Apply(d, merged)
         \/ /\ UNCHANGED <<request, spec, renumbered, provider, fields, sp, laid, promised>>
            /\ status' \in {status, "approved", "modified", "rejected", "conflict", "internal"}
<1>1. CASE \E d \in Decision : Evaluate(d)
  <2>1. PICK d \in Decision : Evaluate(d)
    BY <1>1
  <2>2. CASE d.rejected
    BY <2>1, <2>2 DEF Evaluate, End
  <2>3. CASE ~d.rejected
    <3>1. PICK patternFirst \in SUBSET EitherOrder(d) :
            LET merged == MergeConstraints(fields, d.constraints, patternFirst)
            IN IF Conflicts(d, merged) THEN End("conflict") ELSE Apply(d, merged)
      BY <2>1, <2>3 DEF Evaluate
    <3>2. CASE Conflicts(d, MergeConstraints(fields, d.constraints, patternFirst))
      BY <3>1, <3>2 DEF End
    <3>3. CASE ~Conflicts(d, MergeConstraints(fields, d.constraints, patternFirst))
      BY <3>1, <3>3
    <3> QED
      BY <3>2, <3>3
  <2> QED
    BY <2>2, <2>3
<1>2. CASE Fail \/ Finish
  BY <1>2 DEF Fail, Finish, End
<1>3. CASE UNCHANGED vars
  BY <1>3 DEF vars
<1> QED
  BY <1>1, <1>2, <1>3 DEF Next

LEMMA DecisionTyped ==
  ASSUME NEW d \in Decision
  PROVE  /\ d.constraints \in Constraints /\ d.sp \in SPConstraints \cup {None}
         /\ d.patch \in Document /\ d.provider \in Provider \cup {None}
BY DecisionAssumption DEF Decisions

LEMMA TypeStep == TypeOK /\ [Next]_vars => TypeOK'
<1> SUFFICES ASSUME TypeOK, [Next]_vars PROVE TypeOK'
  OBVIOUS
<1>1. ASSUME NEW d \in Decision, NEW patternFirst,
             Apply(d, MergeConstraints(fields, d.constraints, patternFirst))
      PROVE  TypeOK'
  <2>1. spec' \in Document
    BY <1>1, DecisionTyped, MergePatchTyped DEF Apply, TypeOK
  <2>7. renumbered' \subseteq Path
    BY <1>1 DEF Apply
  <2>2. fields' \in Constraints
    BY <1>1, DecisionTyped, MergeConstraintsTyped DEF Apply, TypeOK
  <2>3. sp' \in SPConstraints \cup {None}
    BY <1>1, DecisionTyped, MergeSPNarrows DEF Apply, TypeOK
  <2>4. provider' \in Provider \cup {None}
    BY <1>1, DecisionTyped DEF Apply, TypeOK, Or
  <2>5. laid' \in [Path -> SUBSET Schema]
    BY <1>1, DecisionTyped DEF Apply, TypeOK, Constraints
  <2>6. \A p \in Path : promised'[p] \subseteq laid'[p]
    BY <1>1 DEF Apply, TypeOK
  <2> QED
    BY <1>1, <2>1, <2>2, <2>3, <2>4, <2>5, <2>6, <2>7 DEF Apply, TypeOK
<1>2. CASE /\ UNCHANGED <<request, spec, renumbered, provider, fields, sp, laid, promised>>
           /\ status' \in {status, "approved", "modified", "rejected", "conflict", "internal"}
  BY <1>2 DEF TypeOK
<1> QED
  BY <1>1, <1>2, StepKinds

(* The spec is a document, the constraints are schemas and the provider is
   one the policies named, whatever they decide. *)
THEOREM EvaluationTyped == Spec => []TypeOK
<1>1. Init => TypeOK
  <2> SUFFICES ASSUME Init PROVE TypeOK
    OBVIOUS
  <2>1. request \in Document /\ spec \in Document
    BY DecisionAssumption DEF Init
  <2> QED
    BY <2>1 DEF Init, TypeOK, Constraints
<1> QED
  BY <1>1, TypeStep, PTL DEF Spec

(* No policy makes a provider selectable again that was ruled out. *)
THEOREM ProvidersNarrow == Spec => ProvidersOnlyNarrow
<1>1. TypeOK /\ [Next]_vars =>
        [\A x \in Provider : ProviderAllowed(sp', x) => ProviderAllowed(sp, x)]_vars
  <2> SUFFICES ASSUME TypeOK, [Next]_vars, NEW x \in Provider, ProviderAllowed(sp', x)
               PROVE  ProviderAllowed(sp, x)
    OBVIOUS
  <2>1. ASSUME NEW d \in Decision, NEW patternFirst,
               ~Conflicts(d, MergeConstraints(fields, d.constraints, patternFirst)),
               Apply(d, MergeConstraints(fields, d.constraints, patternFirst))
        PROVE  ProviderAllowed(sp, x)
    <3>1. sp' = MergeSP(sp, d.sp) /\ ~SPConflict(sp, d.sp)
      BY <2>1 DEF Apply, Conflicts
    <3> QED
      BY <3>1, DecisionTyped, MergeSPNarrows DEF TypeOK
  <2>2. CASE UNCHANGED <<request, spec, renumbered, provider, fields, sp, laid, promised>>
    BY <2>2
  <2> QED
    BY <2>1, <2>2, StepKinds
<1> QED
  BY <1>1, EvaluationTyped, PTL DEF Spec, ProvidersOnlyNarrow

(* A policy that selects a provider selects one that the constraints on
   providers allow, its own included; by ProvidersNarrow those allow no
   provider an earlier policy ruled out. *)
THEOREM SelectionsAllowed == Spec => SelectionAllowed
<1>1. [Next]_vars => [provider' # provider => ProviderAllowed(sp', provider')]_vars
  <2> SUFFICES ASSUME [Next]_vars, provider' # provider
               PROVE  ProviderAllowed(sp', provider')
    OBVIOUS
  <2>1. PICK d \in Decision :
          \E merged : ~Conflicts(d, merged) /\ Apply(d, merged)
    BY StepKinds
  <2>2. d.provider # None /\ provider' = d.provider
    BY <2>1 DEF Apply, Or
  <2>3. sp' = MergeSP(sp, d.sp)
    BY <2>1 DEF Apply
  <2> QED
    BY <2>1, <2>2, <2>3 DEF Conflicts
<1> QED
  BY <1>1, PTL DEF Spec, SelectionAllowed

(* A const stays in the merged constraint, whatever is merged with it. *)
LEMMA ConstStays ==
  ASSUME NEW old \in Constraints, NEW new \in Constraints, NEW patternFirst,
         NEW p \in Path, old[p] # None, old[p].const # None
  PROVE  LET merged == MergeConstraints(old, new, patternFirst)
         IN merged[p] # None /\ merged[p].const = old[p].const
<1>1. MergeConstraints(old, new, patternFirst)[p] =
        IF Both(old[p], new[p])
        THEN Tightened(old[p], new[p], p \in patternFirst)
        ELSE Or(old[p], new[p])
  BY DEF MergeConstraints
<1>2. CASE Both(old[p], new[p])
  <2>1. old[p] \in Schema /\ new[p] \in Schema
    BY <1>2 DEF Both, Constraints
  <2>2. Tightened(old[p], new[p], p \in patternFirst) \in Schema
    BY <2>1, TightenedTyped
  <2>3. Tightened(old[p], new[p], p \in patternFirst).const = old[p].const
    BY DEF Tightened, Or
  <2> QED
    BY <1>1, <1>2, <2>2, <2>3, ConstraintAssumption
<1>3. CASE ~Both(old[p], new[p])
  BY <1>1, <1>3 DEF Both, Or
<1> QED
  BY <1>2, <1>3

(* A patch that lacks a path changes what is there, or deeper, only by taking
   away an object around the path. *)
LEMMA LackedPathStays ==
  ASSUME NEW base \in Document, NEW patch \in Document, NEW p \in Path,
         patch[p] = Missing,
         \A q \in Above(p) : MergePatch(base, patch)[q] = Object,
         NEW x \in From(p)
  PROVE  MergePatch(base, patch)[x] = base[x]
<1> DEFINE merged == MergePatch(base, patch)
           Recurses(q) == patch[q] = Object /\ base[q] = Object
           Visited(y) == {q \in Upto(y) : \A r \in Above(q) : Recurses(r)}
<1>1. \A y \in Path : merged[y] =
        IF \E q \in Visited(y) : patch[q] = Missing THEN base[y]
        ELSE IF \E q \in Visited(y) : patch[q] = Null THEN Missing
        ELSE patch[y]
  BY DEF MergePatch
<1>2. x \in Path /\ p \in Upto(x)
  BY DEF From, Upto
<1>3. patch[x] = Missing
  <2>1. CASE x = p
    BY <2>1
  <2>2. CASE x # p
    <3>1. p \in Above(x)
      BY <1>2, <2>2 DEF Above
    <3> QED
      BY <1>2, <3>1, PathAssumption DEF Document
  <2> QED
    BY <2>1, <2>2
<1>4. SUFFICES ASSUME base[x] # Missing, ~\E q \in Visited(x) : patch[q] = Missing
               PROVE  FALSE
  <2>1. merged[x] \in {base[x], Missing}
    BY <1>2, <1>3, MergePatchValue
  <2> QED
    BY <1>1, <1>2, <2>1
<1>5. ASSUME NEW r \in Above(p) PROVE Recurses(r)
  <2>1. r \in Path /\ r \in Upto(x) /\ r \in Above(x)
    BY <1>2, UptoChain DEF Above, Upto
  <2>2. base[r] = Object
    BY <1>2, <1>4, <2>1 DEF Document
  <2>3. Visited(r) \subseteq Visited(x)
    BY <1>2, <2>1, UptoChain
  <2>4. merged[r] = Object
    OBVIOUS
  <2>5. merged[r] \in {Missing, patch[r]}
    <3>1. ~\E q \in Visited(r) : patch[q] = Missing
      BY <1>4, <2>3
    <3> HIDE DEF merged, Visited
    <3> QED
      BY <1>1, <2>1, <3>1
  <2>6. patch[r] = Object
    BY <2>4, <2>5, PathAssumption
  <2> QED
    BY <2>2, <2>6
<1>6. p \in Visited(x)
  BY <1>2, <1>5
<1> QED
  BY <1>4, <1>6

(* A patch that has a value at a path puts it there, unless it is null. *)
LEMMA PatchedPathTaken ==
  ASSUME NEW base \in Document, NEW patch \in Document, NEW p \in Path,
         patch[p] \notin {Missing, Null}
  PROVE  MergePatch(base, patch)[p] = patch[p]
<1> DEFINE Recurses(q) == patch[q] = Object /\ base[q] = Object
           Visited(x) == {q \in Upto(x) : \A r \in Above(q) : Recurses(r)}
<1>1. MergePatch(base, patch)[p] =
        IF \E q \in Visited(p) : patch[q] = Missing THEN base[p]
        ELSE IF \E q \in Visited(p) : patch[q] = Null THEN Missing
        ELSE patch[p]
  BY DEF MergePatch
<1>2. ASSUME NEW q \in Visited(p) PROVE patch[q] # Missing /\ patch[q] # Null
  BY <1>2, PathAssumption DEF Document, Above, Upto
<1> HIDE DEF Visited
<1> QED
  BY <1>1, <1>2

(* A patch of the value that is there already changes nothing. *)
LEMMA SamePatchStays ==
  ASSUME NEW base \in Document, NEW patch \in Document, NEW p \in Path,
         ValueAt(patch, p) = ValueAt(base, p),
         NEW x \in From(p), base[x] # Null
  PROVE  MergePatch(base, patch)[x] = base[x]
<1>1. x \in Path /\ patch[x] = base[x]
  <2>1. ValueAt(patch, p)[x] = patch[x] /\ ValueAt(base, p)[x] = base[x]
    BY DEF ValueAt
  <2> QED
    BY <2>1 DEF From
<1>2. CASE base[x] = Missing
  BY <1>1, <1>2, MergePatchValue
<1>3. CASE base[x] # Missing
  BY <1>1, <1>3, PatchedPathTaken
<1> QED
  BY <1>2, <1>3

(* No policy changes or removes a value locked by a const, an object with all
   its members included, unless its patch takes away the object around it. *)
THEOREM LocksHold == Spec => LockHolds
<1>1. TypeOK /\ [Next]_vars =>
        [\A p \in Path :
           /\ fields[p] # None /\ fields[p].const # None
           /\ fields[p].const = ValueAt(spec, p)
           /\ \A q \in From(p) : spec[q] # Null
           /\ ValueAt(spec', p) # ValueAt(spec, p)
           => \E q \in Above(p) : spec'[q] # Object]_vars
  <2> SUFFICES ASSUME TypeOK, [Next]_vars, NEW p \in Path,
                      fields[p] # None, fields[p].const # None,
                      fields[p].const = ValueAt(spec, p),
                      \A q \in From(p) : spec[q] # Null,
                      \A q \in Above(p) : spec'[q] = Object,
                      NEW x \in From(p)
               PROVE  spec'[x] = spec[x]
    BY DEF ValueAt
  <2>1. ASSUME NEW d \in Decision, NEW patternFirst,
               ~Conflicts(d, MergeConstraints(fields, d.constraints, patternFirst)),
               Apply(d, MergeConstraints(fields, d.constraints, patternFirst))
        PROVE  spec'[x] = spec[x]
    <3> DEFINE merged == MergeConstraints(fields, d.constraints, patternFirst)
    <3>1. spec' = MergePatch(spec, d.patch) /\ d.patch \in Document /\ spec \in Document
      BY <2>1, DecisionTyped DEF Apply, TypeOK
    <3>2. merged[p] # None /\ merged[p].const = fields[p].const
      BY DecisionTyped, ConstStays DEF TypeOK
    <3>3. CASE d.patch[p] = Missing
      BY <3>1, <3>3, LackedPathStays
    <3>4. CASE d.patch[p] # Missing
      <4>1. Satisfies(d.patch, p, merged[p])
        <5>1. p \in Checked(merged, d.patch)
          BY <3>2, <3>4 DEF Checked
        <5>2. PatchAllowed(merged, d.patch)
          BY <2>1 DEF Conflicts
        <5> HIDE DEF merged
        <5> QED
          BY <5>1, <5>2 DEF PatchAllowed
      <4>2. ValueAt(d.patch, p) = ValueAt(spec, p)
        BY <3>2, <4>1 DEF Satisfies
      <4> QED
        BY <3>1, <4>2, SamePatchStays
    <3> QED
      BY <3>3, <3>4
  <2>2. CASE UNCHANGED <<request, spec, renumbered, provider, fields, sp, laid, promised>>
    BY <2>2
  <2> QED
    BY <2>1, <2>2, StepKinds
<1> QED
  BY <1>1, EvaluationTyped, PTL DEF Spec, LockHolds

-----------------------------------------------------------------------------
(* No policy sets an allOf: the code lets one override what it merged. *)
NoAllOf ==
  \A d \in Decision, p \in Path :
    d.constraints[p] = None \/ d.constraints[p].allOf = None

(* The constraint in force on a path implies every one laid on it. *)
LaidImplied ==
  \A p \in Path : \A s \in laid[p] :
    /\ fields[p] # None
    /\ \A d \in Document : Satisfies(d, p, fields[p]) => Satisfies(d, p, s)

GuardInv == TypeOK /\ LaidImplied /\ GuardrailsHold

LEMMA ApplyKeepsLaidImplied ==
  ASSUME NoAllOf, TypeOK, LaidImplied, NEW d \in Decision, NEW patternFirst,
         ~ConstraintsConflict(fields, d.constraints),
         Apply(d, MergeConstraints(fields, d.constraints, patternFirst))
  PROVE  LaidImplied'
<1> SUFFICES ASSUME NEW p \in Path, NEW s \in laid'[p]
             PROVE  /\ fields'[p] # None
                    /\ \A doc \in Document : Satisfies(doc, p, fields'[p]) => Satisfies(doc, p, s)
  BY DEF LaidImplied
<1>1. fields' = MergeConstraints(fields, d.constraints, patternFirst)
  BY DEF Apply
<1>2. s \in laid[p] \/ (s = d.constraints[p] /\ d.constraints[p] # None)
  BY DEF Apply
<1>3. spec \in Document
  BY DEF TypeOK
<1>4. \A doc \in Document :
        /\ fields[p] # None =>
             /\ fields'[p] # None
             /\ Satisfies(doc, p, fields'[p]) => Satisfies(doc, p, fields[p])
        /\ d.constraints[p] # None =>
             /\ fields'[p] # None
             /\ Satisfies(doc, p, fields'[p]) => Satisfies(doc, p, d.constraints[p])
  BY <1>1, DecisionTyped, MergeConstraintsImplies DEF NoAllOf, TypeOK
<1> QED
  BY <1>2, <1>3, <1>4 DEF LaidImplied

LEMMA ApplyKeepsGuardrails ==
  ASSUME TypeOK, TypeOK', GuardrailsHold, LaidImplied', NEW d \in Decision, NEW merged,
         PatchAllowed(merged, d.patch), Apply(d, merged)
  PROVE  GuardrailsHold'
<1> SUFFICES ASSUME NEW p \in Path, spec'[p] \notin {Missing, Object}, NEW s \in promised'[p]
             PROVE  Satisfies(spec', p, s)
  BY DEF GuardrailsHold
<1>1. /\ spec' = MergePatch(spec, d.patch)
      /\ d.patch \in Document /\ spec \in Document /\ spec' \in Document
  BY DecisionTyped DEF Apply, TypeOK
<1>2. CASE d.patch[p] = Missing
  <2>1. spec'[p] = spec[p]
    BY <1>1, <1>2, MergePatchValue
  <2>2. s \in promised[p]
    BY <1>2 DEF Apply
  <2>3. Satisfies(spec, p, s)
    BY <2>1, <2>2 DEF GuardrailsHold
  <2> QED
    BY <1>1, <2>1, <2>3, SameScalar
<1>3. CASE d.patch[p] # Missing
  <2>1. spec'[p] = d.patch[p]
    BY <1>1, <1>3, MergePatchValue
  <2>2. s \in laid'[p]
    BY <1>3 DEF Apply
  <2>3. Satisfies(d.patch, p, s)
    <3>1. PatchAllowed(fields', d.patch)
      BY DEF Apply
    <3>2. fields'[p] # None /\ (Satisfies(d.patch, p, fields'[p]) => Satisfies(d.patch, p, s))
      BY <1>1, <2>2 DEF LaidImplied
    <3> QED
      BY <1>3, <3>1, <3>2 DEF PatchAllowed, Checked
  <2> QED
    BY <1>1, <2>1, <2>3, SameScalar
<1> QED
  BY <1>2, <1>3

LEMMA GuardStep ==
  ASSUME NoAllOf, GuardInv, [Next]_vars
  PROVE  GuardInv'
<1>1. TypeOK'
  BY TypeStep DEF GuardInv
<1>2. ASSUME NEW d \in Decision, NEW patternFirst,
             ~Conflicts(d, MergeConstraints(fields, d.constraints, patternFirst)),
             Apply(d, MergeConstraints(fields, d.constraints, patternFirst))
      PROVE  LaidImplied' /\ GuardrailsHold'
  <2>1. LaidImplied'
    BY <1>2, ApplyKeepsLaidImplied DEF GuardInv, Conflicts
  <2> QED
    BY <1>1, <1>2, <2>1, ApplyKeepsGuardrails DEF GuardInv, Conflicts
<1>3. CASE UNCHANGED <<request, spec, renumbered, provider, fields, sp, laid, promised>>
  BY <1>1, <1>3 DEF GuardInv, LaidImplied, GuardrailsHold
<1> QED
  BY <1>1, <1>2, <1>3, StepKinds DEF GuardInv

LEMMA GuardInvariant == ASSUME NoAllOf PROVE Spec => []GuardInv
<1>1. Init => GuardInv
  <2> SUFFICES ASSUME Init PROVE GuardInv
    OBVIOUS
  <2>1. request \in Document /\ spec \in Document
    BY DecisionAssumption DEF Init
  <2> QED
    BY <2>1 DEF Init, GuardInv, TypeOK, Constraints, LaidImplied, GuardrailsHold
<1>2. GuardInv /\ [Next]_vars => GuardInv'
  BY NoAllOf, GuardStep
<1> QED
  BY <1>1, <1>2, PTL DEF Spec

(* However many policies tighten, patch and patch again, a patched scalar
   satisfies all that was laid down before it. *)
THEOREM GuardrailsNeverFall == ASSUME NoAllOf PROVE Spec => []GuardrailsHold
<1>1. GuardInv => GuardrailsHold
  BY DEF GuardInv
<1> QED
  BY <1>1, GuardInvariant, PTL

(* However the constraints of many policies were merged, no patch that breaks
   one of them, at whatever depth and with whatever value, is applied. *)
THEOREM NoPatchEscapes == ASSUME NoAllOf PROVE Spec => PatchesObeyLaid
<1>1. GuardInv /\ GuardInv' /\ [Next]_vars =>
        [status' = "running" =>
           \A d \in Decision, p \in Path :
             d.patch[p] # Missing /\ (\E s \in laid'[p] : ~Satisfies(d.patch, p, s))
             => ~Evaluate(d)]_vars
  <2> SUFFICES ASSUME GuardInv', status' = "running", NEW d \in Decision, NEW p \in Path,
                      d.patch[p] # Missing, Evaluate(d), NEW s \in laid'[p]
               PROVE  Satisfies(d.patch, p, s)
    OBVIOUS
  <2>1. PICK patternFirst :
          LET merged == MergeConstraints(fields, d.constraints, patternFirst)
          IN  ~Conflicts(d, merged) /\ Apply(d, merged)
    BY DEF Evaluate, End
  <2>2. PatchAllowed(fields', d.patch)
    BY <2>1 DEF Conflicts, Apply
  <2>3. fields'[p] # None /\ (Satisfies(d.patch, p, fields'[p]) => Satisfies(d.patch, p, s))
    BY DecisionTyped DEF GuardInv, LaidImplied
  <2> QED
    BY <2>2, <2>3 DEF PatchAllowed, Checked
<1> QED
  BY <1>1, GuardInvariant, PTL DEF Spec, PatchesObeyLaid

=============================================================================
