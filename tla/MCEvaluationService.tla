------------------------ MODULE MCEvaluationService ------------------------
(***************************************************************************)
(* Values for model checking EvaluationService: a spec with the fields     *)
(* a.b, a number, a.c, c and a_b; "p1" matches both strings, "p2" and "p3" *)
(* one each.                                                               *)
(***************************************************************************)
EXTENDS EvaluationService

CONSTANTS s1, s2  \* strings

A == <<"a">>
AB == <<"a", "b">>
AC == <<"a", "c">>
C == <<"c">>
Flat == <<"a_b">>

MCKey == {"a", "b", "c", "a_b"}
MCPath == {A, AB, AC, C, Flat}
MCNumber == {1, 2, 4}
MCScalar == MCNumber \cup {s1, s2}
MCPattern == {"p1", "p2", "p3"}
MCProvider == {"aws", "gcp"}

MCMatches(e, x) ==
  CASE e = "p1" -> TRUE
    [] e = "p2" -> x \in {s1, "aws"}
    [] e = "p3" -> x \in {s2, "gcp"}

(* strings.ReplaceAll(fieldPath, ".", "_") *)
MCURI(p) == IF p = AB THEN Flat ELSE p

At(p, node) ==
  [q \in Path |-> IF q = p THEN node ELSE IF q \in Above(p) THEN Object ELSE Missing]
Nothing == [p \in Path |-> Missing]

(* a, with members b and c. *)
Whole(b, c) == [At(A, Object) EXCEPT ![AB] = b, ![AC] = c]

AtAB(node) == ValueAt(At(AB, node), AB)
WholeA == ValueAt(Whole(2, 1), A)
MCLiteral == {AtAB(1), AtAB(2), AtAB(s1), WholeA}

MCServiceInstance == {Nothing, [At(AB, 4) EXCEPT ![C] = s2]}

NoKeyword == [const |-> None, enum |-> None, min |-> None, max |-> None,
              minProperties |-> None, maxProperties |-> None,
              multipleOf |-> None, pattern |-> None, allOf |-> None]
Free == [p \in Path |-> None]
On(p, s) == [Free EXCEPT ![p] = s]

Decide(constraints, patch) ==
  [rejected |-> FALSE, constraints |-> constraints, sp |-> None,
   patch |-> patch, provider |-> None]

Choose(allow, patterns, selected) ==
  [Decide(Free, Nothing) EXCEPT !.sp = [allow |-> allow, patterns |-> patterns],
                                !.provider = selected]

Numbers == {
  Decide(On(AB, [NoKeyword EXCEPT !.min = 1, !.max = 2]), At(AB, 2)),
  Decide(On(AB, [NoKeyword EXCEPT !.max = 4, !.multipleOf = 2]), Nothing),
  Decide(On(AB, [NoKeyword EXCEPT !.enum = {AtAB(1), AtAB(s1)}]), At(AB, 1)),
  Decide(On(AB, [NoKeyword EXCEPT !.const = AtAB(2)]), At(AB, 2)),
  Decide(Free, At(AB, 4))}

Objects == {
  Decide(Free, At(A, s1)),
  Decide(Free, At(AC, 1)),
  Decide(Free, Whole(Null, 1)),
  Decide(On(A, [NoKeyword EXCEPT !.minProperties = 1, !.maxProperties = 1]), Nothing),
  Decide(On(A, [NoKeyword EXCEPT !.const = WholeA, !.maxProperties = 2]), Whole(2, 1))}

(* A patch of both a.b and a_b is refused once both are constrained. *)
Colliding == {Decide(Free, [At(AB, 2) EXCEPT ![Flat] = 2])}

Strings == {
  Decide(On(C, [NoKeyword EXCEPT !.pattern = "p1"]), At(C, s2)),
  Decide([On(C, [NoKeyword EXCEPT !.pattern = "p2"]) EXCEPT ![Flat] = [NoKeyword EXCEPT !.min = 1]], Nothing),
  Decide(On(C, [NoKeyword EXCEPT !.pattern = "p3"]), At(C, s1)),
  Decide(Free, At(C, s1))}

Selections == {
  Choose({"aws", "gcp"}, {}, "aws"),
  Choose({"gcp"}, {}, "gcp"),
  Choose({"aws"}, {}, None),
  Choose({}, {"p3"}, "aws")}

Rejection == [Decide(Free, Nothing) EXCEPT !.rejected = TRUE]

MCDecision ==
  Numbers \cup Objects \cup Colliding \cup Strings \cup Selections \cup {Rejection}

=============================================================================
