-------------------------- MODULE PolicyListProofs --------------------------
(***************************************************************************)
(* Theorems about lists that are read a page at a time while the table     *)
(* changes: PolicyListWalk, a client that walks the pages of GET           *)
(* /policies, and PolicyEvaluation, the loop of EvaluateRequest.  Both     *)
(* rest on the place of a policy: the number of rows before it.            *)
(***************************************************************************)
EXTENDS PolicySequentialProofs, PolicyListWalk, PolicyEvaluation,
        FiniteSetTheorems, SequenceTheorems, WellFoundedInduction

(* The columns a list may be ordered by. *)
Columns == {"policy_type", "priority", "display_name", "id", "create_time"}

(* Terms of ORDER BY, in some places of a sequence. *)
TermsOK(terms) ==
  /\ DOMAIN terms \subseteq Nat
  /\ \A i \in DOMAIN terms : terms[i].field \in Columns

(* times has no two rows created before each other. *)
OneWay(times) ==
  \A a, b \in PolicyID : <<a, b>> \in times => <<b, a>> \notin times

(* times is a strict total order of the stored ids, as far as no more than two
   of them are compared. *)
Chronicle(table, times) ==
  /\ OneWay(times)
  /\ times \subseteq PolicyID \X PolicyID
  /\ \A a, b \in PolicyID : <<a, b>> \in times => table[a] # None /\ table[b] # None
  /\ \A a, b \in PolicyID :
       table[a] # None /\ table[b] # None /\ a # b =>
         <<a, b>> \in times \/ <<b, a>> \in times

(* The terms tell any two of the rows apart. *)
Decides(table, times, terms, rows) ==
  \A a, b \in rows :
    a # b => \E i \in DOMAIN terms : ~Tied(table, times, terms[i].field, a, b)

(* The number of rows before id. *)
Place(table, times, filter, terms, id) ==
  Cardinality({x \in Where(table, filter) : Precedes(table, times, terms, x, id)})

(* What the three properties of a walk w rest on, page by page: where the rows
   not listed yet stand, where the rows listed before stand, and what is
   listed of a table that does not change. *)
Placed(table, times, w, id) ==
  Place(table, times, FilterOf(w.req), TermsOf(w.req), id)

Listed(w, id) == \E i \in DOMAIN w.listed : w.listed[i] = id

NothingMissed(table, times, w) ==
  w.kept =>
    \A id \in w.start :
      /\ id \in Where(table, FilterOf(w.req))
      /\ Listed(w, id) \/ (w.token # None /\ w.token <= Placed(table, times, w, id))

NothingRepeated(table, times, w) ==
  w.added =>
    /\ \A i, j \in DOMAIN w.listed : w.listed[i] = w.listed[j] => i = j
    /\ w.token # None =>
         \A i \in DOMAIN w.listed :
           w.listed[i] \in Where(table, FilterOf(w.req)) =>
             Placed(table, times, w, w.listed[i]) < w.token

InOrderSoFar(table, times, w) ==
  w.kept /\ w.added =>
    /\ Where(table, FilterOf(w.req)) \subseteq w.start
    /\ \A i \in DOMAIN w.listed : w.listed[i] \in Where(table, FilterOf(w.req))
    /\ \A i, j \in DOMAIN w.listed :
         i < j => Precedes(table, times, TermsOf(w.req), w.listed[i], w.listed[j])

PagesOK(table, times, w) ==
  /\ NothingMissed(table, times, w)
  /\ NothingRepeated(table, times, w)
  /\ InOrderSoFar(table, times, w)

Stored(table) == {id \in PolicyID : table[id] # None}

(* The table the pages are cut from. *)
TableOK == Consistent(db) /\ IsFiniteSet(Stored(db))

WalkInv ==
  /\ TypeOK /\ JobsOK /\ TableOK
  /\ WalkTypeOK /\ Chronicle(db, older)
  /\ Walking => /\ Accepted(walk.req)
                /\ UniqueOrder(walk.req) => PagesOK(db, older, walk)

(* The place of a policy in the order EvaluateRequest asks in. *)
Turn(table, id) == Place(table, {}, EnabledOnly, DefaultOrderBy, id)

Asked(s, id) == \E i \in DOMAIN s.asked : s.asked[i][1] = id
Waiting(s, id) == \E i \in DOMAIN s.page : s.page[i][1] = id

(* What SteadyPoliciesAsked rests on: a steady policy was asked, or is on the
   page, or stands where the next pages are. *)
SteadyOK(table, s) ==
  s.kept =>
    \A id \in s.steady :
      /\ id \in EnabledIDs(table)
      /\ Asked(s, id) \/ Waiting(s, id) \/ (s.offset # None /\ s.offset <= Turn(table, id))

ScanInv ==
  /\ TypeOK /\ JobsOK /\ TableOK
  /\ EvaluationTypeOK
  /\ scan # None => SteadyOK(db, scan)

(* The engine answers with the stored Rego. *)
Held(table) == \A id \in PolicyID : table[id] # None => queries[id] = table[id].rego

(* What QuietEvaluationIsExact rests on: nothing is listed yet, or the policies
   asked and then those on the page are the first of the order, and the next
   page starts behind them. *)
QuietOK(table, s) ==
  \/ s.asked = <<>> /\ s.page = <<>> /\ s.offset = 0
  \/ \E ids \in InOrder(table) :
       LET done == Len(s.asked)
           known == done + Len(s.page)
       IN /\ known <= Len(ids)
          /\ \A i \in 1 .. done :
               s.asked[i] = <<ids[i], table[ids[i]].ptype, table[ids[i]].rego>>
          /\ \A i \in 1 .. Len(s.page) :
               s.page[i] = <<ids[done + i], table[ids[done + i]].ptype>>
          /\ s.offset = IF known < Len(ids) THEN known ELSE None

QuietInv ==
  /\ ScanInv /\ SequentialInv
  /\ up => Held(Settled)
  /\ scan # None /\ scan.quiet => Quiescent /\ QuietOK(db, scan)

-----------------------------------------------------------------------------
(* ORDER BY *)

(* A set of natural numbers that is not empty has a least element. *)
LEMMA LeastNat ==
  ASSUME NEW T \in SUBSET Nat, T # {}
  PROVE  \E m \in T : \A n \in T : ~(n < m)
<1>1. IsWellFoundedOn(OpToRel(<, Nat), Nat)
  BY NatLessThanWellFounded
<1>2. PICK m \in T : \A n \in T : ~(<<n, m>> \in OpToRel(<, Nat))
  BY <1>1, WFMin
<1>3. \A n \in T : ~(n < m)
  BY <1>2 DEF OpToRel
<1> QED
  BY <1>3

(* What each column but create_time compares. *)
LEMMA KeyOfColumn ==
  ASSUME NEW table, NEW id, NEW field
  PROVE  /\ field = "policy_type" => Key(table, id, field) = Rank[table[id].ptype]
         /\ field = "priority" => Key(table, id, field) = table[id].prio
         /\ field = "display_name" => Key(table, id, field) = Rank[table[id].name]
         /\ field = "id" => Key(table, id, field) = Rank[id]
<1>1. CASE field = "policy_type"
  BY <1>1, Zenon DEF Key
<1>2. CASE field = "priority"
  BY <1>2, Zenon DEF Key
<1>3. CASE field = "display_name"
  BY <1>3, Zenon DEF Key
<1>4. CASE field = "id"
  BY <1>4, Zenon DEF Key
<1> QED
  BY <1>1, <1>2, <1>3, <1>4

LEMMA KeyTyped ==
  ASSUME NEW table \in Table, NEW id \in PolicyID, table[id] # None,
         NEW field \in Columns \ {"create_time"}
  PROVE  Key(table, id, field) \in Int
<1>1. table[id] \in Row
  BY DEF Table
<1>2. Rank \in [PolicyID \cup DisplayName \cup {Blank} \cup PolicyType -> Nat]
  BY RankAssumption
<1>3. Rank[table[id].ptype] \in Nat /\ Rank[table[id].name] \in Nat /\ Rank[id] \in Nat
  BY <1>1, <1>2 DEF Row
<1>4. table[id].prio \in Int
  <2>1. table[id].prio \in Priority
    BY <1>1 DEF Row
  <2>2. MinPriority \in Int /\ MaxPriority \in Int
    BY DEF MinPriority, MaxPriority
  <2> QED
    BY <2>1, <2>2 DEF Priority
<1> QED
  BY <1>3, <1>4, KeyOfColumn DEF Columns

(* No column has a row before another and behind it. *)
LEMMA BeforeAsymmetric ==
  ASSUME NEW table \in Table, NEW times, OneWay(times),
         NEW field \in Columns, NEW a \in PolicyID, NEW b \in PolicyID,
         table[a] # None, table[b] # None, Before(table, times, field, a, b)
  PROVE  ~Before(table, times, field, b, a)
<1>1. CASE field = "create_time"
  BY <1>1 DEF Before, OneWay
<1>2. CASE field # "create_time"
  <2>1. Key(table, a, field) \in Int /\ Key(table, b, field) \in Int
    BY <1>2, KeyTyped
  <2>2. Key(table, a, field) < Key(table, b, field)
    BY <1>2 DEF Before
  <2>3. ~(Key(table, b, field) < Key(table, a, field))
    BY <2>1, <2>2
  <2> QED
    BY <1>2, <2>3 DEF Before
<1> QED
  BY <1>1, <1>2

(* Rows a column does not tell apart have the same value in it. *)
LEMMA TiedIsEqual ==
  ASSUME NEW table \in Table, NEW times, NEW field \in Columns \ {"create_time"},
         NEW a \in PolicyID, NEW b \in PolicyID, table[a] # None, table[b] # None,
         Tied(table, times, field, a, b)
  PROVE  /\ field = "policy_type" => table[a].ptype = table[b].ptype
         /\ field = "priority" => table[a].prio = table[b].prio
         /\ field = "display_name" => table[a].name = table[b].name
         /\ field = "id" => a = b
<1>1. Key(table, a, field) \in Int /\ Key(table, b, field) \in Int
  BY KeyTyped
<1>2. Key(table, a, field) = Key(table, b, field)
  BY <1>1 DEF Tied, Before
<1>3. table[a] \in Row /\ table[b] \in Row
  BY DEF Table
<1>4. \A column \in {PolicyID, DisplayName \cup {Blank}, PolicyType} :
        \A s, t \in column : Rank[s] = Rank[t] => s = t
  BY RankAssumption
<1>5. \A s, t \in PolicyID : Rank[s] = Rank[t] => s = t
  BY <1>4
<1>6. \A s, t \in DisplayName \cup {Blank} : Rank[s] = Rank[t] => s = t
  BY <1>4
<1>7. \A s, t \in PolicyType : Rank[s] = Rank[t] => s = t
  BY <1>4
<1>8. /\ table[a].ptype \in PolicyType /\ table[b].ptype \in PolicyType
      /\ table[a].name \in DisplayName \cup {Blank}
      /\ table[b].name \in DisplayName \cup {Blank}
  BY <1>3 DEF Row
<1> QED
  BY <1>2, <1>5, <1>6, <1>7, <1>8, KeyOfColumn

(* Of two rows the terms tell apart, exactly one precedes the other. *)
LEMMA OrderIsTotal ==
  ASSUME NEW table \in Table, NEW times, OneWay(times),
         NEW terms, TermsOK(terms), NEW a \in PolicyID, NEW b \in PolicyID,
         table[a] # None, table[b] # None
  PROVE  /\ Precedes(table, times, terms, a, b) => ~Precedes(table, times, terms, b, a)
         /\ (\E i \in DOMAIN terms : ~Tied(table, times, terms[i].field, a, b)) =>
              \/ Precedes(table, times, terms, a, b)
              \/ Precedes(table, times, terms, b, a)
<1> DEFINE B(i, x, y) == Before(table, times, terms[i].field, x, y)
           T(i, x, y) == Tied(table, times, terms[i].field, x, y)
<1>1. \A i \in DOMAIN terms : i \in Nat /\ ~(B(i, a, b) /\ B(i, b, a))
  BY BeforeAsymmetric DEF TermsOK
<1>2. \A i : T(i, a, b) <=> ~B(i, a, b) /\ ~B(i, b, a)
  BY DEF Tied
<1>3. \A i : T(i, b, a) <=> T(i, a, b)
  BY DEF Tied
<1>4. \A x, y : Precedes(table, times, terms, x, y) <=>
        \E i \in DOMAIN terms :
          /\ \A j \in DOMAIN terms : j < i => T(j, x, y)
          /\ IF terms[i].desc THEN B(i, y, x) ELSE B(i, x, y)
  BY DEF Precedes
<1> HIDE DEF B, T
<1>5. ASSUME Precedes(table, times, terms, a, b), Precedes(table, times, terms, b, a)
      PROVE  FALSE
  <2>1. PICK i \in DOMAIN terms :
          /\ \A j \in DOMAIN terms : j < i => T(j, a, b)
          /\ IF terms[i].desc THEN B(i, b, a) ELSE B(i, a, b)
    BY <1>4, <1>5
  <2>2. PICK k \in DOMAIN terms :
          /\ \A j \in DOMAIN terms : j < k => T(j, b, a)
          /\ IF terms[k].desc THEN B(k, a, b) ELSE B(k, b, a)
    BY <1>4, <1>5
  <2>3. ~T(i, a, b) /\ ~T(k, a, b)
    BY <1>2, <2>1, <2>2
  <2>4. ~(i < k) /\ ~(k < i)
    BY <1>3, <2>1, <2>2, <2>3
  <2>5. i = k
    BY <1>1, <2>4
  <2> QED
    BY <1>1, <2>1, <2>2, <2>5
<1>6. ASSUME \E i \in DOMAIN terms : ~T(i, a, b)
      PROVE  Precedes(table, times, terms, a, b) \/ Precedes(table, times, terms, b, a)
  <2> DEFINE apart == {i \in DOMAIN terms : ~T(i, a, b)}
  <2>1. apart \in SUBSET Nat /\ apart # {}
    BY <1>1, <1>6
  <2>2. PICK i \in apart : \A j \in apart : ~(j < i)
    BY <2>1, LeastNat
  <2>3. \A j \in DOMAIN terms : j < i => T(j, a, b) /\ T(j, b, a)
    BY <1>3, <2>2
  <2>4. B(i, a, b) \/ B(i, b, a)
    BY <1>2, <2>2
  <2> QED
    BY <1>4, <2>2, <2>3, <2>4
<1> QED
  BY <1>5, <1>6 DEF T

-----------------------------------------------------------------------------
(* The rows of a query *)

(* Every allowed answer lists the row with n rows before it in place n + 1. *)
LEMMA ResultsByPlace ==
  ASSUME NEW table \in Table, NEW times, OneWay(times),
         NEW filter, NEW terms, TermsOK(terms),
         IsFiniteSet(Where(table, filter)),
         Decides(table, times, terms, Where(table, filter)),
         NEW list \in Results(table, times, filter, terms)
  PROVE  /\ list \in [1 .. Len(list) -> Where(table, filter)]
         /\ Len(list) \in Nat
         /\ \A i, j \in 1 .. Len(list) :
              i < j => list[i] # list[j] /\ Precedes(table, times, terms, list[i], list[j])
         /\ \A i \in 1 .. Len(list) : Place(table, times, filter, terms, list[i]) = i - 1
         /\ \A id \in Where(table, filter) :
              \E i \in 1 .. Len(list) : list[i] = id
<1> DEFINE W == Where(table, filter)
           P(x, y) == Precedes(table, times, terms, x, y)
           n == Cardinality(W)
<1>1. /\ list \in [1 .. n -> W]
      /\ \A i, j \in 1 .. n : list[i] = list[j] => i = j
      /\ \A id \in W : \E i \in 1 .. n : list[i] = id
      /\ \A i, j \in 1 .. n : i < j => ~P(list[j], list[i])
  BY DEF Results, Bijection, Injection, Surjection, IsInjective
<1>2. n \in Nat
  BY FS_CardinalityType
<1>3. \A x \in W : x \in PolicyID /\ table[x] # None
  BY DEF Where
<1>4. \A x, y \in W : ~(P(x, y) /\ P(y, x)) /\ (x # y => P(x, y) \/ P(y, x))
  BY <1>3, OrderIsTotal DEF Decides
<1> HIDE DEF P
<1>5. Len(list) = n
  BY <1>1, <1>2
<1>6. \A i, j \in 1 .. n : i < j => list[i] # list[j] /\ P(list[i], list[j])
  BY <1>1, <1>2, <1>4
<1>7. ASSUME NEW i \in 1 .. n
      PROVE  Cardinality({x \in W : P(x, list[i])}) = i - 1
  <2> DEFINE before == {x \in W : P(x, list[i])}
             f == [j \in 1 .. i - 1 |-> list[j]]
  <2>1. \A j \in 1 .. n : P(list[j], list[i]) => j < i
    BY <1>1, <1>2, <1>4, <1>6, <1>7
  <2>2. \A j \in 1 .. i - 1 : j \in 1 .. n /\ list[j] \in before
    BY <1>1, <1>2, <1>6, <1>7
  <2>3. f \in [1 .. i - 1 -> before]
    BY <2>2
  <2>4. \A j, k \in 1 .. i - 1 : f[j] = f[k] => j = k
    BY <1>1, <2>2
  <2>5. \A x \in before : \E j \in 1 .. i - 1 : f[j] = x
    BY <1>1, <1>2, <1>7, <2>1
  <2>6. f \in Bijection(1 .. i - 1, before)
    BY <2>3, <2>4, <2>5 DEF Bijection, Injection, Surjection, IsInjective
  <2>7. IsFiniteSet(1 .. i - 1) /\ Cardinality(1 .. i - 1) = i - 1
    <3>1. i - 1 \in Nat
      BY <1>2
    <3> QED
      BY <3>1, FS_Interval
  <2>8. ExistsBijection(1 .. i - 1, before)
    BY <2>6 DEF ExistsBijection
  <2>9. Cardinality(before) = Cardinality(1 .. i - 1)
    BY <2>7, <2>8, FS_Bijection
  <2> QED
    BY <2>7, <2>9
<1>8. \A i \in 1 .. n : Place(table, times, filter, terms, list[i]) = i - 1
  BY <1>7 DEF Place, P
<1> QED
  BY <1>1, <1>2, <1>5, <1>6, <1>8 DEF P

(* Rows that compare alike in two tables and are all in the second have there
   at least as many rows before them. *)
LEMMA PlacesGrow ==
  ASSUME NEW few, NEW many, NEW before, NEW after, NEW filter, NEW terms,
         IsFiniteSet(Where(many, filter)),
         Where(few, filter) \subseteq Where(many, filter),
         \A a, b \in Where(few, filter) :
           Precedes(few, before, terms, a, b) => Precedes(many, after, terms, a, b),
         NEW id \in Where(few, filter)
  PROVE  /\ Place(few, before, filter, terms, id) \in Nat
         /\ Place(many, after, filter, terms, id) \in Nat
         /\ Place(few, before, filter, terms, id) <= Place(many, after, filter, terms, id)
<1> DEFINE here == {x \in Where(few, filter) : Precedes(few, before, terms, x, id)}
           there == {x \in Where(many, filter) : Precedes(many, after, terms, x, id)}
<1>1. here \in SUBSET there
  OBVIOUS
<1>2. IsFiniteSet(there)
  <2>1. there \in SUBSET Where(many, filter)
    OBVIOUS
  <2> HIDE DEF there
  <2> QED
    BY <2>1, FS_Subset
<1> HIDE DEF here, there
<1>3. IsFiniteSet(here) /\ Cardinality(here) <= Cardinality(there)
  BY <1>1, <1>2, FS_Subset
<1>4. Cardinality(here) \in Nat /\ Cardinality(there) \in Nat
  BY <1>2, <1>3, FS_CardinalityType
<1> QED
  BY <1>3, <1>4 DEF here, there, Place

(* Rows compare alike in two tables when each term compares them alike. *)
LEMMA SameOrder ==
  ASSUME NEW old, NEW new, NEW before, NEW after, NEW terms, NEW a, NEW b,
         \A i \in DOMAIN terms :
           /\ Before(old, before, terms[i].field, a, b)
                <=> Before(new, after, terms[i].field, a, b)
           /\ Before(old, before, terms[i].field, b, a)
                <=> Before(new, after, terms[i].field, b, a)
  PROVE  Precedes(old, before, terms, a, b) <=> Precedes(new, after, terms, a, b)
<1>1. \A i \in DOMAIN terms :
        Tied(old, before, terms[i].field, a, b) <=> Tied(new, after, terms[i].field, a, b)
  BY DEF Tied
<1> QED
  BY <1>1 DEF Precedes

(* A page holds the rows behind its offset, as many as it has room for, and
   the next offset is where it ends, if rows are left. *)
LEMMA PageHolds ==
  ASSUME NEW S, NEW rows \in Seq(S), NEW offset \in Nat, NEW size \in Nat \ {0}
  PROVE  /\ Page(rows, offset, size) \in Seq(S)
         /\ \A k \in 1 .. Len(Page(rows, offset, size)) :
              /\ offset + k \in 1 .. Len(rows)
              /\ k <= size
              /\ Page(rows, offset, size)[k] = rows[offset + k]
         /\ \A i \in 1 .. Len(rows) :
              offset < i /\ i <= offset + size =>
                i - offset \in 1 .. Len(Page(rows, offset, size))
         /\ NextOffset(rows, offset, size) = None => Len(rows) <= offset + size
         /\ NextOffset(rows, offset, size) # None =>
              NextOffset(rows, offset, size) = offset + size
<1> DEFINE last == Least(offset + size, Len(rows))
           page == SubSeq(rows, offset + 1, last)
<1>1. last \in Nat /\ last <= Len(rows) /\ last <= offset + size
      /\ (last = Len(rows) \/ last = offset + size)
  BY DEF Least
<1>2. \A i \in offset + 1 .. last : rows[i] \in S
  BY <1>1
<1> HIDE DEF last
<1>3. /\ page \in Seq(S)
      /\ Len(page) = IF offset + 1 <= last THEN last - offset ELSE 0
      /\ \A k \in 1 .. last - offset : page[k] = rows[offset + k]
  <2>1. offset + 1 \in Int /\ last \in Int
    BY <1>1
  <2>2. /\ page \in Seq(S)
        /\ Len(page) = IF offset + 1 <= last THEN last - (offset + 1) + 1 ELSE 0
        /\ \A k \in 1 .. last - (offset + 1) + 1 : page[k] = rows[offset + 1 + k - 1]
    BY <1>2, <2>1, SubSeqProperties
  <2>3. last - (offset + 1) + 1 = last - offset
    BY <1>1
  <2>4. \A k \in 1 .. last - offset : offset + 1 + k - 1 = offset + k
    BY <1>1
  <2> HIDE DEF page
  <2> QED
    BY <2>2, <2>3, <2>4
<1>4. page = Page(rows, offset, size)
  BY DEF last, Page
<1> HIDE DEF page
<1>5. \A k \in 1 .. Len(page) : k \in 1 .. last - offset /\ offset + k \in 1 .. Len(rows)
                                /\ k <= size
  BY <1>1, <1>3
<1>6. \A i \in 1 .. Len(rows) : offset < i /\ i <= offset + size => i - offset \in 1 .. Len(page)
  BY <1>1, <1>3
<1>7. /\ NextOffset(rows, offset, size) = None => Len(rows) <= offset + size
      /\ NextOffset(rows, offset, size) # None =>
           NextOffset(rows, offset, size) = offset + size
  BY NilAssumption DEF NextOffset
<1> QED
  BY <1>3, <1>4, <1>5, <1>6, <1>7

-----------------------------------------------------------------------------
(* What a client asks for *)

(* parseOrderBy accepts columns of the table only, and a page has room. *)
LEMMA RequestTyped ==
  ASSUME NEW req \in ListRequest, Accepted(req)
  PROVE  /\ TermsOK(TermsOf(req))
         /\ PageSizeOf(req.size) \in Nat \ {0}
<1>1. req.orderBy \in Seq(Seq(STRING)) /\ req.size \in Int \cup {None}
  BY ListAssumption
<1>2. PageSizeOf(req.size) \in Nat \ {0}
  <2>1. CASE req.size = None
    <3>1. PageSizeOf(req.size) = 50
      BY <2>1 DEF PageSizeOf, DefaultPageSize
    <3> QED
      BY <3>1
  <2>2. CASE req.size # None
    <3>1. req.size \in Int /\ 1 <= req.size
      BY <2>2, SMTT(30) DEF Accepted, PageSizeAccepted
    <3>2. PageSizeOf(req.size) = req.size
      BY <2>2 DEF PageSizeOf
    <3> QED
      BY <3>1, <3>2
  <2> QED
    BY <2>1, <2>2
<1> DEFINE parts == req.orderBy
           given == {i \in DOMAIN parts : parts[i] # <<>>}
<1>3. CASE given = {}
  <2>1. TermsOf(req) = DefaultOrderBy
    BY <1>3 DEF TermsOf, ParsedOrderBy
  <2> QED
    BY <1>2, <2>1 DEF TermsOK, DefaultOrderBy, Ascending, Columns
<1>4. CASE given # {}
  <2>1. TermsOf(req) = [i \in given |->
                          [field |-> parts[i][1],
                           desc |-> Len(parts[i]) = 2 /\ parts[i][2] = "desc"]]
    BY <1>4 DEF TermsOf, ParsedOrderBy
  <2>2. \A i \in given : parts[i][1] \in SupportedOrderByFields
    BY DEF Accepted, OrderByAccepted, PartAccepted
  <2>3. DOMAIN parts \subseteq Nat
    BY <1>1
  <2> HIDE DEF parts
  <2>4. TermsOK(TermsOf(req))
    BY <2>1, <2>2, <2>3 DEF TermsOK, SupportedOrderByFields, Columns
  <2> QED
    BY <1>2, <2>4
<1> QED
  BY <1>3, <1>4

(* The terms of an order on unique columns tell any two rows apart. *)
LEMMA UniqueOrderDecides ==
  ASSUME NEW table \in Table, Consistent(table),
         NEW times, Chronicle(table, times),
         NEW req \in ListRequest, Accepted(req), UniqueOrder(req)
  PROVE  Decides(table, times, TermsOf(req), Where(table, FilterOf(req)))
<1> DEFINE terms == TermsOf(req)
           filter == FilterOf(req)
           given == {terms[i].field : i \in DOMAIN terms}
           fixed == IF filter.ptype = None THEN {} ELSE {"policy_type"}
<1> SUFFICES ASSUME NEW a \in Where(table, filter), NEW b \in Where(table, filter),
                    \A i \in DOMAIN terms : Tied(table, times, terms[i].field, a, b)
             PROVE  a = b
  BY DEF Decides
<1>1. /\ a \in PolicyID /\ table[a] # None /\ filter.ptype \in {None, table[a].ptype}
      /\ b \in PolicyID /\ table[b] # None /\ filter.ptype \in {None, table[b].ptype}
  BY DEF Where
<1>2. \A field \in given : field \in Columns /\ Tied(table, times, field, a, b)
  BY RequestTyped DEF TermsOK
<1>3. PICK key \in {{"id"}, {"create_time"}, {"policy_type", "priority"},
                    {"policy_type", "display_name"}} : key \subseteq given \cup fixed
  BY Zenon DEF UniqueOrder
<1>4. fixed \subseteq {"policy_type"} /\ (fixed # {} => filter.ptype # None)
  OBVIOUS
<1> HIDE DEF given, fixed, terms, filter
<1>5. "policy_type" \in given \cup fixed => table[a].ptype = table[b].ptype
  <2>1. CASE "policy_type" \in given
    BY <1>1, <1>2, <2>1, TiedIsEqual
  <2>2. CASE "policy_type" \in fixed
    BY <1>1, <1>4, <2>2
  <2> QED
    BY <2>1, <2>2
<1>6. CASE key = {"id"}
  <2>1. "id" \in given
    BY <1>3, <1>4, <1>6
  <2> QED
    BY <1>1, <1>2, <2>1, TiedIsEqual
<1>7. CASE key = {"create_time"}
  <2>1. Tied(table, times, "create_time", a, b)
    BY <1>2, <1>3, <1>4, <1>7
  <2> QED
    BY <1>1, <2>1 DEF Tied, Before, Chronicle
<1>8. CASE key = {"policy_type", "priority"}
  <2>1. table[a].ptype = table[b].ptype
    BY <1>3, <1>5, <1>8
  <2>2. "priority" \in given
    BY <1>3, <1>4, <1>8
  <2>3. table[a].prio = table[b].prio
    BY <1>1, <1>2, <2>2, TiedIsEqual
  <2> QED
    BY <1>1, <2>1, <2>3 DEF Consistent, UniqueClash, PriorityTaken, SamePriority
<1>9. CASE key = {"policy_type", "display_name"}
  <2>1. table[a].ptype = table[b].ptype
    BY <1>3, <1>5, <1>9
  <2>2. "display_name" \in given
    BY <1>3, <1>4, <1>9
  <2>3. table[a].name = table[b].name
    BY <1>1, <1>2, <2>2, TiedIsEqual
  <2> QED
    BY <1>1, <2>1, <2>3 DEF Consistent, UniqueClash, NameTaken, SameName
<1> QED
  BY <1>3, <1>6, <1>7, <1>8, <1>9

-----------------------------------------------------------------------------
(* The table beside a list *)

(* A step changes one row at most. *)
LEMMA OneRowChanges ==
  ASSUME TypeOK, JobsOK, [Next]_vars, NEW a \in PolicyID, NEW b \in PolicyID, a # b
  PROVE  db'[a] = db[a] \/ db'[b] = db[b]
<1>1. db \in Table
  BY DEF TypeOK
<1> QED
  BY <1>1, TableWrites DEF Created, Updated, Deleted, Table

LEMMA TableKept ==
  ASSUME TypeOK, JobsOK, TableOK, [Next]_vars
  PROVE  TypeOK' /\ JobsOK' /\ TableOK'
<1>1. TypeOK' /\ JobsOK'
  BY NextTyped
<1>2. Consistent(db')
  BY NextConsistent DEF TableOK
<1>3. IsFiniteSet(Stored(db'))
  <2>1. CASE db' = db
    BY <2>1 DEF TableOK
  <2>2. ASSUME NEW id \in PolicyID, db'[id] # db[id]
        PROVE  IsFiniteSet(Stored(db'))
    <3>1. \A other \in PolicyID : other # id => db'[other] = db[other]
      BY <2>2, OneRowChanges
    <3>2. Stored(db') \in SUBSET (Stored(db) \cup {id})
      BY <3>1 DEF Stored
    <3>3. IsFiniteSet(Stored(db) \cup {id})
      BY FS_AddElement DEF TableOK
    <3> QED
      BY <3>2, <3>3, FS_Subset
  <2>3. db' # db => \E id \in PolicyID : db'[id] # db[id]
    BY <1>1 DEF TypeOK, Table
  <2> QED
    BY <2>1, <2>2, <2>3
<1> QED
  BY <1>1, <1>2, <1>3 DEF TableOK

(* A query finds finitely many rows. *)
LEMMA FinitelyManyRows ==
  ASSUME NEW table, IsFiniteSet(Stored(table)), NEW filter
  PROVE  IsFiniteSet(Where(table, filter))
<1>1. Where(table, filter) \in SUBSET Stored(table)
  BY DEF Where, Stored
<1> QED
  BY <1>1, FS_Subset

(* The times of creation stay a total order, and compare the rows that stay as
   they did. *)
LEMMA TimesKept ==
  ASSUME TypeOK, JobsOK, Chronicle(db, older), Mutate
  PROVE  /\ Chronicle(db', older')
         /\ \A a, b \in PolicyID :
              db[a] # None /\ db[b] # None /\ db'[a] # None /\ db'[b] # None =>
                (<<a, b>> \in older' <=> <<a, b>> \in older)
<1> PICK late : Stamp(late)
  BY DEF Mutate
<1>1. \A a, b \in PolicyID :
        <<a, b>> \in older' <=>
          /\ db'[a] # None /\ db'[b] # None
          /\ \/ <<a, b>> \in older
             \/ db[a] # None /\ db[b] = None /\ a \notin late
             \/ db[a] = None /\ db[b] # None /\ b \in late
  BY DEF Stamp
<1>2. older' \subseteq PolicyID \X PolicyID
  BY DEF Stamp
<1>3. \A a, b \in PolicyID : a # b => db'[a] = db[a] \/ db'[b] = db[b]
  BY OneRowChanges DEF Mutate
<1>4. ASSUME NEW a \in PolicyID, NEW b \in PolicyID, <<a, b>> \in older'
      PROVE  db'[a] # None /\ db'[b] # None /\ <<b, a>> \notin older'
  BY <1>1, <1>4 DEF Chronicle, OneWay
<1>5. ASSUME NEW a \in PolicyID, NEW b \in PolicyID, a # b,
             db'[a] # None, db'[b] # None
      PROVE  <<a, b>> \in older' \/ <<b, a>> \in older'
  BY <1>1, <1>3, <1>5 DEF Chronicle
<1>6. Chronicle(db', older')
  BY <1>2, <1>4, <1>5 DEF Chronicle, OneWay
<1> QED
  BY <1>1, <1>6

-----------------------------------------------------------------------------
(* A page keeps what a walk rests on *)

(* The walk w after one more page of list. *)
PageAdded(w, v, list) ==
  /\ v.req = w.req /\ v.start = w.start /\ v.kept = w.kept /\ v.added = w.added
  /\ v.listed = w.listed \o Page(list, w.token, PageSizeOf(w.req.size))
  /\ v.token = NextOffset(list, w.token, PageSizeOf(w.req.size))

(* longer is listed and behind it the rows of list from token on, size of them
   if there are as many. *)
LongerByPage(longer, listed, list, token, size) ==
  /\ Len(longer) \in Nat /\ Len(listed) <= Len(longer)
  /\ \A i \in 1 .. Len(listed) : longer[i] = listed[i]
  /\ \A i \in Len(listed) + 1 .. Len(longer) :
       \E k \in 1 .. Len(list) :
         /\ k = token + (i - Len(listed)) /\ k <= token + size
         /\ longer[i] = list[k]
  /\ \A k \in 1 .. Len(list) :
       token < k /\ k <= token + size =>
         \E i \in 1 .. Len(longer) : longer[i] = list[k]

(* What is listed after one more page. *)
LEMMA ListedGrows ==
  ASSUME NEW S, NEW list \in Seq(S), NEW listed \in Seq(S),
         NEW token \in Nat, NEW size \in Nat \ {0},
         NEW longer, longer = listed \o Page(list, token, size)
  PROVE  longer \in Seq(S) /\ LongerByPage(longer, listed, list, token, size)
<1> DEFINE page == Page(list, token, size)
           m == Len(listed)
<1>1. /\ page \in Seq(S)
      /\ \A k \in 1 .. Len(page) :
           token + k \in 1 .. Len(list) /\ k <= size /\ page[k] = list[token + k]
      /\ \A k \in 1 .. Len(list) :
           token < k /\ k <= token + size => k - token \in 1 .. Len(page)
  BY PageHolds
<1>2. longer = listed \o page
  OBVIOUS
<1> HIDE DEF page
<1>3. /\ longer \in Seq(S)
      /\ Len(longer) = m + Len(page)
      /\ \A i \in 1 .. m + Len(page) :
           longer[i] = IF i <= m THEN listed[i] ELSE page[i - m]
  BY <1>1, <1>2, ConcatProperties
<1>4. m \in Nat /\ Len(page) \in Nat
  BY <1>1
<1> HIDE DEF m
<1>5. \A i \in 1 .. m : longer[i] = listed[i]
  BY <1>3, <1>4
<1>6. ASSUME NEW i \in m + 1 .. Len(longer)
      PROVE  \E k \in 1 .. Len(list) :
               k = token + (i - m) /\ k <= token + size /\ longer[i] = list[k]
  <2>1. i - m \in 1 .. Len(page) /\ i \in 1 .. m + Len(page) /\ ~(i <= m)
    BY <1>3, <1>4
  <2>2. PICK h \in 1 .. Len(page) : h = i - m
    BY <2>1
  <2>3. longer[i] = page[h]
    BY <1>3, <2>1, <2>2
  <2>4. token + h \in 1 .. Len(list) /\ h <= size /\ page[h] = list[token + h]
    BY <1>1
  <2>5. token + h = token + (i - m) /\ token + h <= token + size
    BY <2>2, <2>4
  <2> QED
    BY <2>3, <2>4, <2>5
<1>7. ASSUME NEW k \in 1 .. Len(list), token < k, k <= token + size
      PROVE  \E i \in 1 .. Len(longer) : longer[i] = list[k]
  <2>1. PICK h \in 1 .. Len(page) : h = k - token
    BY <1>1, <1>7
  <2>2. page[h] = list[k]
    <3>1. token + h = k
      BY <2>1
    <3> QED
      BY <1>1, <3>1
  <2>3. PICK i \in 1 .. m + Len(page) : i - m = h /\ ~(i <= m)
    <3>1. m + h \in 1 .. m + Len(page) /\ (m + h) - m = h /\ ~(m + h <= m)
      BY <1>4
    <3> QED
      BY <3>1
  <2>4. longer[i] = page[h]
    BY <1>3, <2>3
  <2> QED
    BY <1>3, <2>2, <2>4
<1>8. longer \in Seq(S) /\ Len(longer) \in Nat /\ m <= Len(longer)
  BY <1>3, <1>4
<1> QED
  BY <1>5, <1>6, <1>7, <1>8 DEF m, LongerByPage

LEMMA PageKeepsWalk ==
  ASSUME NEW table \in Table, Consistent(table), IsFiniteSet(Stored(table)),
         NEW times, Chronicle(table, times),
         NEW w \in Walk, Accepted(w.req), UniqueOrder(w.req),
         PagesOK(table, times, w), w.token # None,
         NEW list \in Results(table, times, FilterOf(w.req), TermsOf(w.req)),
         NEW v, PageAdded(w, v, list)
  PROVE  PagesOK(table, times, v)
<1> DEFINE filter == FilterOf(w.req)
           terms == TermsOf(w.req)
           rows == Where(table, filter)
           size == PageSizeOf(w.req.size)
           place(id) == Place(table, times, filter, terms, id)
           P(a, b) == Precedes(table, times, terms, a, b)
<1>1. /\ w.req \in ListRequest /\ w.token \in Nat /\ w.listed \in Seq(PolicyID)
      /\ w.kept \in BOOLEAN /\ w.added \in BOOLEAN
  BY DEF Walk
<1>2. TermsOK(terms) /\ size \in Nat \ {0}
  BY <1>1, RequestTyped
<1>3. IsFiniteSet(rows)
  BY FinitelyManyRows
<1>4. Decides(table, times, terms, rows)
  BY <1>1, UniqueOrderDecides
<1>5. /\ list \in [1 .. Len(list) -> rows]
      /\ Len(list) \in Nat
      /\ \A i, j \in 1 .. Len(list) : i < j => list[i] # list[j] /\ P(list[i], list[j])
      /\ \A i \in 1 .. Len(list) : place(list[i]) = i - 1
      /\ \A id \in rows : \E i \in 1 .. Len(list) : list[i] = id
  BY <1>2, <1>3, <1>4, ResultsByPlace DEF Chronicle
<1>6. rows \subseteq PolicyID
  BY DEF Where
<1>7. list \in Seq(PolicyID)
  BY <1>5, <1>6
<1>8. /\ v.req = w.req /\ v.start = w.start /\ v.kept = w.kept /\ v.added = w.added
      /\ v.listed = w.listed \o Page(list, w.token, size)
      /\ v.token = NextOffset(list, w.token, size)
  BY DEF PageAdded
<1>9. /\ v.token = None => Len(list) <= w.token + size
      /\ v.token # None => v.token = w.token + size
  BY <1>1, <1>2, <1>7, <1>8, PageHolds
<1> HIDE DEF filter, terms, rows, size, place, P
<1> DEFINE m == Len(w.listed)
           n == Len(v.listed)
<1>10. /\ m \in Nat /\ n \in Nat /\ m <= n
       /\ v.listed \in Seq(PolicyID)
       /\ \A i \in 1 .. m : v.listed[i] = w.listed[i]
       /\ \A i \in m + 1 .. n :
            \E k \in 1 .. Len(list) :
              k = w.token + (i - m) /\ k <= w.token + size /\ v.listed[i] = list[k]
       /\ \A k \in 1 .. Len(list) :
            w.token < k /\ k <= w.token + size => \E i \in 1 .. n : v.listed[i] = list[k]
  <2>1. /\ w.listed \in Seq(PolicyID) /\ list \in Seq(PolicyID)
        /\ w.token \in Nat /\ size \in Nat \ {0}
        /\ v.listed = w.listed \o Page(list, w.token, size)
    BY <1>1, <1>2, <1>7, <1>8
  <2>2. v.listed \in Seq(PolicyID) /\ LongerByPage(v.listed, w.listed, list, w.token, size)
    BY <2>1, ListedGrows
  <2>3. Len(w.listed) \in Nat
    BY <1>1
  <2> QED
    BY <2>2, <2>3 DEF LongerByPage
<1>d. DOMAIN w.listed = 1 .. m /\ DOMAIN v.listed = 1 .. n
  BY <1>1, <1>10
<1>e. /\ m \in Nat /\ n \in Nat /\ m <= n /\ w.token \in Nat
      /\ \A i \in 1 .. m : v.listed[i] = w.listed[i]
  BY <1>1, <1>10
<1> HIDE DEF m, n
<1>11. ASSUME NEW i \in m + 1 .. n
       PROVE  /\ v.listed[i] \in rows
              /\ place(v.listed[i]) = w.token + (i - m) - 1
              /\ i - m <= size
  <2>1. PICK k \in 1 .. Len(list) :
          k = w.token + (i - m) /\ k <= w.token + size /\ v.listed[i] = list[k]
    BY <1>10
  <2>2. list[k] \in rows /\ place(list[k]) = k - 1
    BY <1>5
  <2>3. k - 1 = w.token + (i - m) - 1 /\ i - m <= size
    BY <1>1, <1>2, <1>10, <2>1
  <2> QED
    BY <2>1, <2>2, <2>3
<1>s. ASSUME NEW i \in 1 .. n
      PROVE  i \in 1 .. m \/ i \in m + 1 .. n
  BY <1>10
<1>12. NothingMissed(table, times, v)
  <2> SUFFICES ASSUME w.kept, NEW id \in w.start
               PROVE  /\ id \in rows
                      /\ Listed(v, id) \/ (v.token # None /\ v.token <= place(id))
    BY <1>8 DEF NothingMissed, Placed, place, rows, filter, terms
  <2>1. id \in rows /\ (Listed(w, id) \/ w.token <= place(id))
    BY DEF PagesOK, NothingMissed, Placed, place, rows, filter, terms
  <2>2. CASE Listed(w, id)
    <3>1. PICK i \in 1 .. m : w.listed[i] = id
      BY <1>d, <2>2 DEF Listed
    <3>2. i \in DOMAIN v.listed /\ v.listed[i] = id
      BY <1>10, <1>d, <3>1
    <3> QED
      BY <2>1, <3>2 DEF Listed
  <2>3. CASE w.token <= place(id)
    <3>1. PICK i \in 1 .. Len(list) : list[i] = id
      BY <1>5, <2>1
    <3>2. place(id) = i - 1
      BY <1>5, <3>1
    <3>3. CASE i <= w.token + size
      <4>1. w.token < i
        BY <1>1, <2>3, <3>1, <3>2
      <4>2. \E k \in 1 .. n : v.listed[k] = id
        BY <1>10, <3>1, <3>3, <4>1
      <4> QED
        BY <1>d, <2>1, <4>2 DEF Listed
    <3>4. CASE ~(i <= w.token + size)
      <4>1. v.token # None /\ v.token = w.token + size
        BY <1>1, <1>2, <1>5, <1>9, <3>1, <3>4
      <4> QED
        BY <1>1, <1>2, <2>1, <3>2, <3>4, <4>1
    <3> QED
      BY <3>3, <3>4
  <2> QED
    BY <2>1, <2>2, <2>3
<1>13. NothingRepeated(table, times, v)
  <2> SUFFICES ASSUME w.added
               PROVE  /\ \A i, j \in DOMAIN v.listed : v.listed[i] = v.listed[j] => i = j
                      /\ v.token # None =>
                           \A i \in DOMAIN v.listed :
                             v.listed[i] \in rows => place(v.listed[i]) < v.token
    BY <1>8 DEF NothingRepeated, Placed, place, rows, filter, terms
  <2>1. /\ \A i, j \in 1 .. m : w.listed[i] = w.listed[j] => i = j
        /\ \A i \in 1 .. m : w.listed[i] \in rows => place(w.listed[i]) < w.token
    BY <1>d DEF PagesOK, NothingRepeated, Placed, place, rows, filter, terms
  <2>2. DOMAIN v.listed = 1 .. n
    BY <1>d
  <2>3. \A i \in 1 .. m, j \in m + 1 .. n : v.listed[i] # v.listed[j]
    <3> SUFFICES ASSUME NEW i \in 1 .. m, NEW j \in m + 1 .. n,
                        v.listed[i] = v.listed[j]
                 PROVE  FALSE
      OBVIOUS
    <3>1. v.listed[j] \in rows /\ place(v.listed[j]) = w.token + (j - m) - 1
      BY <1>11
    <3>2. place(v.listed[j]) < w.token
      <4>1. v.listed[j] = w.listed[i]
        BY <1>e
      <4>2. w.listed[i] \in rows => place(w.listed[i]) < w.token
        BY <2>1, Zenon
      <4> QED
        BY <3>1, <4>1, <4>2, Zenon
    <3> QED
      BY <1>e, <3>1, <3>2
  <2>4. ASSUME NEW i \in m + 1 .. n, NEW j \in m + 1 .. n,
               v.listed[i] = v.listed[j]
        PROVE  i = j
    <3>1. w.token + (i - m) - 1 = w.token + (j - m) - 1
      BY <1>11, <2>4
    <3> QED
      BY <1>e, <3>1
  <2>5. \A i, j \in DOMAIN v.listed : v.listed[i] = v.listed[j] => i = j
    <3> SUFFICES ASSUME NEW i \in 1 .. n, NEW j \in 1 .. n,
                        v.listed[i] = v.listed[j]
                 PROVE  i = j
      BY <2>2
    <3> QED
      BY <1>10, <1>s, <2>1, <2>3, <2>4
  <2>6. ASSUME v.token # None, NEW i \in 1 .. n, v.listed[i] \in rows
        PROVE  place(v.listed[i]) < v.token
    <3>1. v.token = w.token + size
      BY <1>9, <2>6
    <3>2. CASE i \in 1 .. m
      <4>1. place(v.listed[i]) < w.token
        BY <1>10, <2>1, <2>6, <3>2
      <4>2. PICK k \in 1 .. Len(list) : list[k] = v.listed[i]
        BY <1>5, <2>6
      <4>3. place(v.listed[i]) = k - 1
        BY <1>5, <4>2
      <4> QED
        BY <1>1, <1>2, <1>5, <3>1, <4>1, <4>2, <4>3
    <3>3. CASE i \in m + 1 .. n
      BY <1>1, <1>2, <1>10, <1>11, <3>1, <3>3
    <3> QED
      BY <1>s, <3>2, <3>3
  <2> QED
    BY <2>2, <2>5, <2>6
<1>14. InOrderSoFar(table, times, v)
  <2> SUFFICES ASSUME w.kept, w.added
               PROVE  /\ rows \subseteq w.start
                      /\ \A i \in DOMAIN v.listed : v.listed[i] \in rows
                      /\ \A i, j \in DOMAIN v.listed : i < j => P(v.listed[i], v.listed[j])
    BY <1>8 DEF InOrderSoFar, P, rows, filter, terms
  <2>1. /\ rows \subseteq w.start
        /\ \A i \in 1 .. m : w.listed[i] \in rows /\ place(w.listed[i]) < w.token
        /\ \A i, j \in 1 .. m : i < j => P(w.listed[i], w.listed[j])
    BY <1>d DEF PagesOK, NothingRepeated, InOrderSoFar, Placed, place, P, rows, filter, terms
  <2>2. DOMAIN v.listed = 1 .. n
    BY <1>d
  <2>3. \A i \in DOMAIN v.listed : v.listed[i] \in rows
    BY <1>10, <1>11, <1>s, <2>1, <2>2
  <2>4. ASSUME NEW i \in 1 .. n, NEW j \in 1 .. n, i < j
        PROVE  P(v.listed[i], v.listed[j])
    <3>1. CASE j \in 1 .. m
      <4>1. i \in 1 .. m
        BY <1>10, <2>4, <3>1
      <4> QED
        BY <1>10, <2>1, <2>4, <3>1, <4>1
    <3>2. CASE i \in 1 .. m /\ j \in m + 1 .. n
      <4>1. PICK k \in 1 .. Len(list) : list[k] = v.listed[i]
        BY <1>5, <2>2, <2>3
      <4>2. k - 1 < w.token
        <5>1. v.listed[i] = w.listed[i] /\ place(w.listed[i]) < w.token
          BY <1>e, <2>1, <3>2
        <5>2. place(list[k]) = k - 1
          BY <1>5
        <5> QED
          BY <4>1, <5>1, <5>2
      <4>3. PICK l \in 1 .. Len(list) : l = w.token + (j - m) /\ v.listed[j] = list[l]
        BY <1>10, <3>2
      <4>4. k < l
        <5>1. j - m \in Int /\ j - m >= 1
          BY <1>e, <3>2
        <5>2. k \in Int /\ l \in Int /\ w.token \in Int
          BY <1>1, <4>1, <4>3
        <5> QED
          BY <4>2, <4>3, <5>1, <5>2
      <4> QED
        BY <1>5, <4>1, <4>3, <4>4
    <3>3. CASE i \in m + 1 .. n /\ j \in m + 1 .. n
      <4>1. w.token + (i - m) < w.token + (j - m)
        BY <1>1, <1>10, <2>4, <3>3
      <4> QED
        BY <1>5, <1>10, <3>3, <4>1
    <3> QED
      BY <1>10, <1>s, <2>4, <3>1, <3>2, <3>3
  <2> QED
    BY <2>1, <2>2, <2>3, <2>4
<1> QED
  BY <1>12, <1>13, <1>14 DEF PagesOK

-----------------------------------------------------------------------------
(* A step of the service keeps what a walk rests on *)

(* The rows of few are rows of many, unchanged. *)
Stays(few, many) == \A id \in PolicyID : few[id] \in {None, many[id]}

SameTimes(few, before, after) ==
  \A a, b \in PolicyID :
    few[a] # None /\ few[b] # None => (<<a, b>> \in before <=> <<a, b>> \in after)

LEMMA StayingRows ==
  ASSUME NEW few \in Table, NEW many \in Table, Stays(few, many),
         NEW before, NEW after, SameTimes(few, before, after),
         NEW filter, NEW terms, TermsOK(terms)
  PROVE  /\ Where(few, filter) \subseteq Where(many, filter)
         /\ \A a, b \in Where(few, filter) :
              Precedes(few, before, terms, a, b) <=> Precedes(many, after, terms, a, b)
<1>1. \A id \in PolicyID : few[id] # None => few[id] = many[id]
  BY DEF Stays
<1>2. Where(few, filter) \subseteq Where(many, filter)
  BY <1>1 DEF Where
<1>3. ASSUME NEW a \in PolicyID, NEW b \in PolicyID, few[a] # None, few[b] # None,
             NEW field \in Columns
      PROVE  Before(few, before, field, a, b) <=> Before(many, after, field, a, b)
  <2>1. CASE field = "create_time"
    BY <1>3, <2>1 DEF Before, SameTimes
  <2>2. CASE field # "create_time"
    <3>1. few[a] = many[a] /\ few[b] = many[b]
      BY <1>1, <1>3
    <3>2. Key(few, a, field) = Key(many, a, field) /\ Key(few, b, field) = Key(many, b, field)
      BY <1>3, <2>2, <3>1, KeyOfColumn DEF Columns
    <3> QED
      BY <2>2, <3>2 DEF Before
  <2> QED
    BY <2>1, <2>2
<1>4. \A id \in Where(few, filter) : id \in PolicyID /\ few[id] # None
  BY DEF Where
<1>5. ASSUME NEW a \in Where(few, filter), NEW b \in Where(few, filter)
      PROVE  Precedes(few, before, terms, a, b) <=> Precedes(many, after, terms, a, b)
  <2>1. \A i \in DOMAIN terms : terms[i].field \in Columns
    BY DEF TermsOK
  <2> QED
    BY <1>3, <1>4, <2>1, SameOrder
<1> QED
  BY <1>2, <1>5

(* The walk w after the table changed from old to new. *)
TableChanged(w, v, old, new) ==
  /\ v.req = w.req /\ v.start = w.start /\ v.listed = w.listed /\ v.token = w.token
  /\ v.kept => w.kept /\ Stays(old, new)
  /\ v.added => w.added /\ Stays(new, old)

LEMMA ChangeKeepsWalk ==
  ASSUME NEW old \in Table, IsFiniteSet(Stored(old)),
         NEW new \in Table, IsFiniteSet(Stored(new)),
         NEW before, NEW after,
         Stays(old, new) => SameTimes(old, before, after),
         Stays(new, old) => SameTimes(new, after, before),
         NEW w \in Walk, Accepted(w.req), PagesOK(old, before, w),
         NEW v, TableChanged(w, v, old, new)
  PROVE  PagesOK(new, after, v)
<1> DEFINE filter == FilterOf(w.req)
           terms == TermsOf(w.req)
           place(id) == Place(old, before, filter, terms, id)
           placeNow(id) == Place(new, after, filter, terms, id)
<1>1. w.req \in ListRequest /\ w.token \in Nat \cup {None}
  BY DEF Walk
<1>2. TermsOK(terms)
  BY <1>1, RequestTyped
<1>3. /\ v.req = w.req /\ v.start = w.start /\ v.listed = w.listed /\ v.token = w.token
      /\ v.kept => w.kept /\ Stays(old, new)
      /\ v.added => w.added /\ Stays(new, old)
  BY DEF TableChanged
<1>4. IsFiniteSet(Where(old, filter)) /\ IsFiniteSet(Where(new, filter))
  BY FinitelyManyRows
<1> HIDE DEF filter, terms
<1>5. ASSUME v.kept
      PROVE  /\ Where(old, filter) \subseteq Where(new, filter)
             /\ \A a, b \in Where(old, filter) :
                  Precedes(old, before, terms, a, b) <=> Precedes(new, after, terms, a, b)
  BY <1>2, <1>3, <1>5, StayingRows
<1>6. ASSUME v.added
      PROVE  /\ Where(new, filter) \subseteq Where(old, filter)
             /\ \A a, b \in Where(new, filter) :
                  Precedes(new, after, terms, a, b) <=> Precedes(old, before, terms, a, b)
  BY <1>2, <1>3, <1>6, StayingRows
<1>7. NothingMissed(new, after, v)
  <2> SUFFICES ASSUME v.kept, NEW id \in v.start
               PROVE  /\ id \in Where(new, filter)
                      /\ Listed(v, id) \/ (v.token # None /\ v.token <= placeNow(id))
    BY <1>3 DEF NothingMissed, Placed, filter, terms
  <2>1. /\ id \in Where(old, filter)
        /\ Listed(w, id) \/ (w.token # None /\ w.token <= place(id))
    BY <1>3 DEF PagesOK, NothingMissed, Placed, filter, terms
  <2>2. place(id) \in Nat /\ placeNow(id) \in Nat /\ place(id) <= placeNow(id)
    BY <1>4, <1>5, <2>1, PlacesGrow
  <2>3. Listed(w, id) => Listed(v, id)
    BY <1>3 DEF Listed
  <2> HIDE DEF place, placeNow
  <2>4. CASE w.token # None /\ w.token <= place(id)
    BY <1>1, <1>3, <1>5, <2>1, <2>2, <2>4
  <2> QED
    BY <1>5, <2>1, <2>3, <2>4
<1>8. NothingRepeated(new, after, v)
  <2> SUFFICES ASSUME v.added
               PROVE  /\ \A i, j \in DOMAIN v.listed : v.listed[i] = v.listed[j] => i = j
                      /\ v.token # None =>
                           \A i \in DOMAIN v.listed :
                             v.listed[i] \in Where(new, filter) =>
                               placeNow(v.listed[i]) < v.token
    BY <1>3 DEF NothingRepeated, Placed, filter, terms
  <2>1. /\ \A i, j \in DOMAIN v.listed : v.listed[i] = v.listed[j] => i = j
        /\ v.token # None =>
             \A i \in DOMAIN v.listed :
               v.listed[i] \in Where(old, filter) => place(v.listed[i]) < v.token
    BY <1>3 DEF PagesOK, NothingRepeated, Placed, filter, terms
  <2>2. ASSUME NEW id \in Where(new, filter)
        PROVE  /\ place(id) \in Nat /\ placeNow(id) \in Nat /\ placeNow(id) <= place(id)
               /\ id \in Where(old, filter)
    BY <1>4, <1>6, PlacesGrow
  <2> HIDE DEF place, placeNow
  <2>3. ASSUME v.token # None, NEW i \in DOMAIN v.listed, v.listed[i] \in Where(new, filter)
        PROVE  placeNow(v.listed[i]) < v.token
    BY <1>1, <1>3, <2>1, <2>2, <2>3
  <2> QED
    BY <2>1, <2>3
<1>9. InOrderSoFar(new, after, v)
  <2> SUFFICES ASSUME v.kept, v.added
               PROVE  /\ Where(new, filter) \subseteq v.start
                      /\ \A i \in DOMAIN v.listed : v.listed[i] \in Where(new, filter)
                      /\ \A i, j \in DOMAIN v.listed :
                           i < j => Precedes(new, after, terms, v.listed[i], v.listed[j])
    BY <1>3 DEF InOrderSoFar, filter, terms
  <2>1. /\ Where(old, filter) \subseteq w.start
        /\ \A i \in DOMAIN w.listed : w.listed[i] \in Where(old, filter)
        /\ \A i, j \in DOMAIN w.listed :
             i < j => Precedes(old, before, terms, w.listed[i], w.listed[j])
    BY <1>3 DEF PagesOK, InOrderSoFar, filter, terms
  <2> QED
    BY <1>3, <1>5, <1>6, <2>1
<1> QED
  BY <1>7, <1>8, <1>9 DEF PagesOK

-----------------------------------------------------------------------------
(* The invariant of PolicyListWalk *)

LEMMA WalkInitHolds == WalkInit => WalkInv
<1> SUFFICES ASSUME WalkInit PROVE WalkInv
  OBVIOUS
<1>1. TypeOK /\ JobsOK
  BY InitTyped DEF WalkInit
<1>2. Stored(db) = {}
  BY DEF WalkInit, Init, Stored
<1>3. TableOK
  <2>1. IsFiniteSet(Stored(db))
    BY <1>2, FS_EmptySet
  <2> QED
    BY <2>1 DEF TableOK, Consistent, WalkInit, Init
<1>4. Chronicle(db, older)
  BY DEF WalkInit, Init, Chronicle, OneWay
<1> QED
  BY <1>1, <1>3, <1>4 DEF WalkInit, WalkInv, WalkTypeOK, Walking

(* A walk that begins has listed nothing and has everything ahead of it. *)
LEMMA BeginKeepsWalkInv ==
  ASSUME WalkInv, NEW req \in ListRequest, BeginWalk(req)
  PROVE  WalkTypeOK' /\ (Walking' => /\ Accepted(walk.req)'
                                     /\ UniqueOrder(walk.req)' => PagesOK(db, older, walk)')
<1>1. db' = db /\ older' = older /\ since' = since
  BY DEF BeginWalk, vars
<1>2. CASE ~Accepted(req)
  BY <1>1, <1>2 DEF BeginWalk, WalkInv, WalkTypeOK, Walking
<1>3. CASE Accepted(req)
  <2> DEFINE w == [req |-> req, token |-> 0, listed |-> <<>>,
                   start |-> Where(db, FilterOf(req)), kept |-> TRUE, added |-> TRUE]
  <2>1. walk' = w
    BY <1>3 DEF BeginWalk
  <2>2. w \in Walk
    <3>1. Where(db, FilterOf(req)) \in SUBSET PolicyID
      BY DEF Where
    <3>2. <<>> \in Seq(PolicyID)
      OBVIOUS
    <3> QED
      BY <3>1, <3>2 DEF Walk
  <2>3. PagesOK(db, older, w)
    <3>1. TermsOK(TermsOf(req)) /\ IsFiniteSet(Where(db, FilterOf(req)))
      BY <1>3, RequestTyped, FinitelyManyRows DEF WalkInv, TableOK
    <3>2. \A id \in Where(db, FilterOf(req)) : Placed(db, older, w, id) \in Nat
      BY <3>1, PlacesGrow DEF Placed
    <3>3. NothingMissed(db, older, w)
      <4>1. None \notin Int
        BY NilAssumption
      <4>2. w.start = Where(db, FilterOf(req)) /\ w.req = req /\ w.token = 0
        OBVIOUS
      <4> HIDE DEF w
      <4> QED
        BY <3>2, <4>1, <4>2 DEF NothingMissed
    <3>4. NothingRepeated(db, older, w) /\ InOrderSoFar(db, older, w)
      <4>1. DOMAIN w.listed = {} /\ w.start = Where(db, FilterOf(w.req))
        OBVIOUS
      <4> HIDE DEF w
      <4> QED
        BY <4>1 DEF NothingRepeated, InOrderSoFar
    <3> QED
      BY <3>3, <3>4 DEF PagesOK
  <2>4. w.req = req
    OBVIOUS
  <2> HIDE DEF w
  <2>5. WalkTypeOK'
    BY <1>1, <2>1, <2>2 DEF WalkInv, WalkTypeOK
  <2> QED
    BY <1>1, <1>3, <2>1, <2>3, <2>4, <2>5
<1> QED
  BY <1>2, <1>3

LEMMA NextPageKeepsWalkInv ==
  ASSUME WalkInv, NextPage
  PROVE  WalkTypeOK' /\ (Walking' => /\ Accepted(walk.req)'
                                     /\ UniqueOrder(walk.req)' => PagesOK(db, older, walk)')
<1>1. db' = db /\ older' = older /\ since' = since
  BY DEF NextPage, vars
<1>2. Walking /\ walk \in Walk /\ walk.token # None /\ Accepted(walk.req)
  BY DEF NextPage, WalkInv, WalkTypeOK, Walking
<1> DEFINE size == PageSizeOf(walk.req.size)
<1>3. PICK list \in Results(db, older, FilterOf(walk.req), TermsOf(walk.req)) :
        walk' = [walk EXCEPT !.listed = @ \o Page(list, walk.token, size),
                             !.token = NextOffset(list, walk.token, size)]
  BY DEF NextPage
<1>4. /\ walk.req \in ListRequest /\ walk.token \in Nat
      /\ walk.listed \in Seq(PolicyID)
  BY <1>2 DEF Walk
<1>5. size \in Nat \ {0}
  BY <1>2, <1>4, RequestTyped
<1>6. list \in Seq(PolicyID)
  <2>1. IsFiniteSet(Where(db, FilterOf(walk.req)))
    BY FinitelyManyRows DEF WalkInv, TableOK
  <2>2. Cardinality(Where(db, FilterOf(walk.req))) \in Nat
    BY <2>1, FS_CardinalityType
  <2>3. PICK n \in Nat : list \in [1 .. n -> Where(db, FilterOf(walk.req))]
    BY <2>2 DEF Results, Bijection, Injection
  <2>4. Where(db, FilterOf(walk.req)) \subseteq PolicyID
    BY DEF Where
  <2> QED
    BY <2>3, <2>4
<1> DEFINE page == Page(list, walk.token, size)
           next == NextOffset(list, walk.token, size)
<1>7. page \in Seq(PolicyID) /\ (next # None => next = walk.token + size)
  BY <1>4, <1>5, <1>6, PageHolds
<1>8. next \in Nat \cup {None}
  BY <1>4, <1>5, <1>7
<1> HIDE DEF page, next
<1>9. walk.listed \o page \in Seq(PolicyID)
  BY <1>4, <1>7, ConcatProperties
<1> DEFINE longer == walk.listed \o page
<1>10. walk' = [walk EXCEPT !.listed = longer, !.token = next]
  BY <1>3 DEF page, next
<1>11. /\ walk'.req = walk.req /\ walk'.start = walk.start
       /\ walk'.kept = walk.kept /\ walk'.added = walk.added
       /\ walk'.listed = longer /\ walk'.token = next
  <2> HIDE DEF longer
  <2> QED
    BY <1>2, <1>10 DEF Walk
<1>12. walk' \in Walk
  <2>1. longer \in Seq(PolicyID)
    BY <1>9
  <2> HIDE DEF longer
  <2> QED
    BY <1>2, <1>8, <1>10, <2>1 DEF Walk
<1>13. PageAdded(walk, walk', list)
  BY <1>11 DEF PageAdded, page, next
<1>14. UniqueOrder(walk.req) => PagesOK(db, older, walk')
  <2>1. UniqueOrder(walk.req) => PagesOK(db, older, walk)
    BY <1>2 DEF WalkInv
  <2>2. db \in Table /\ Consistent(db) /\ IsFiniteSet(Stored(db)) /\ Chronicle(db, older)
    BY DEF WalkInv, TypeOK, TableOK
  <2> QED
    BY <1>2, <1>13, <2>1, <2>2, PageKeepsWalk
<1>15. WalkTypeOK'
  BY <1>1, <1>12 DEF WalkInv, WalkTypeOK
<1> QED
  BY <1>1, <1>2, <1>11, <1>14, <1>15

LEMMA MutateKeepsWalkInv ==
  ASSUME WalkInv, Mutate
  PROVE  WalkTypeOK' /\ (Walking' => /\ Accepted(walk.req)'
                                     /\ UniqueOrder(walk.req)' => PagesOK(db, older, walk)')
<1>1. /\ older' \in SUBSET (PolicyID \X PolicyID)
      /\ since' \in [Request -> SUBSET PolicyID]
  BY DEF Mutate, Stamp, WalkInv, WalkTypeOK
<1>2. CASE ~Walking
  BY <1>1, <1>2 DEF Mutate, WalkInv, WalkTypeOK, Walking
<1>3. CASE Walking
  <2>1. walk \in Walk /\ Accepted(walk.req)
    BY <1>3 DEF WalkInv, WalkTypeOK, Walking
  <2> DEFINE kept == walk.kept /\ Stays(db, db')
             added == walk.added /\ Stays(db', db)
  <2>2. walk' = [walk EXCEPT !.kept = kept, !.added = added]
    BY <1>3 DEF Mutate, Stays
  <2>3. kept \in BOOLEAN /\ added \in BOOLEAN /\ (kept => walk.kept) /\ (added => walk.added)
        /\ (kept => Stays(db, db')) /\ (added => Stays(db', db))
    OBVIOUS
  <2> HIDE DEF kept, added
  <2>4. walk' \in Walk
    BY <2>1, <2>2, <2>3 DEF Walk
  <2>5. TableChanged(walk, walk', db, db')
    BY <2>1, <2>2, <2>3 DEF TableChanged, Walk
  <2>6. TypeOK' /\ TableOK'
    BY TableKept DEF WalkInv, Mutate
  <2>7. /\ db \in Table /\ IsFiniteSet(Stored(db))
        /\ db' \in Table /\ IsFiniteSet(Stored(db'))
    BY <2>6 DEF WalkInv, TypeOK, TableOK
  <2>8. \A a, b \in PolicyID :
          db[a] # None /\ db[b] # None /\ db'[a] # None /\ db'[b] # None =>
            (<<a, b>> \in older' <=> <<a, b>> \in older)
    BY TimesKept DEF WalkInv
  <2>9. Stays(db, db') => SameTimes(db, older, older')
    BY <2>8 DEF Stays, SameTimes
  <2>10. Stays(db', db) => SameTimes(db', older', older)
    BY <2>8 DEF Stays, SameTimes
  <2>11. UniqueOrder(walk.req) => PagesOK(db', older', walk')
    BY <1>3, <2>1, <2>5, <2>7, <2>9, <2>10, ChangeKeepsWalk DEF WalkInv
  <2>12. walk'.req = walk.req
    BY <2>5 DEF TableChanged
  <2> QED
    BY <1>1, <2>1, <2>4, <2>11, <2>12 DEF WalkTypeOK
<1> QED
  BY <1>2, <1>3

LEMMA WalkNextKeepsWalkInv == WalkInv /\ [WalkNext]_walkVars => WalkInv'
<1> SUFFICES ASSUME WalkInv, [WalkNext]_walkVars PROVE WalkInv'
  OBVIOUS
<1> DEFINE WalkOK == WalkTypeOK /\ (Walking => /\ Accepted(walk.req)
                                               /\ UniqueOrder(walk.req) => PagesOK(db, older, walk))
<1>1. [Next]_vars
  BY DEF WalkNext, walkVars, BeginWalk, NextPage, EndWalk, AbandonWalk, Mutate
<1>2. TypeOK' /\ JobsOK' /\ TableOK'
  BY <1>1, TableKept DEF WalkInv
<1>3. Chronicle(db', older')
  <2>1. CASE Mutate
    BY <2>1, TimesKept DEF WalkInv
  <2>2. CASE UNCHANGED <<vars, older>>
    BY <2>2 DEF WalkInv, vars
  <2> QED
    BY <2>1, <2>2 DEF WalkNext, walkVars, BeginWalk, NextPage, EndWalk, AbandonWalk
<1>4. WalkOK'
  <2>1. CASE \E req \in ListRequest : BeginWalk(req)
    BY <2>1, BeginKeepsWalkInv
  <2>2. CASE NextPage
    BY <2>2, NextPageKeepsWalkInv
  <2>3. CASE EndWalk \/ AbandonWalk
    BY <2>3 DEF EndWalk, AbandonWalk, WalkInv, WalkTypeOK, Walking
  <2>4. CASE Mutate
    BY <2>4, MutateKeepsWalkInv
  <2>5. CASE UNCHANGED walkVars
    BY <2>5 DEF walkVars, vars, WalkInv, WalkTypeOK, Walking
  <2> QED
    BY <2>1, <2>2, <2>3, <2>4, <2>5 DEF WalkNext
<1> QED
  BY <1>2, <1>3, <1>4 DEF WalkInv

(* What the pages of a walk rest on holds in every state. *)
THEOREM WalkInvariant == WalkSpec => []WalkInv
<1>1. WalkInit => WalkInv
  BY WalkInitHolds
<1>2. WalkInv /\ [WalkNext]_walkVars => WalkInv'
  BY WalkNextKeepsWalkInv
<1> QED
  BY <1>1, <1>2, PTL DEF WalkSpec

-----------------------------------------------------------------------------
(* The properties of PolicyListWalk *)

LEMMA TimesCount ==
  ASSUME walk \in Walk, NEW id
  PROVE  /\ Times(id) \in Nat
         /\ Times(id) >= 1 <=> Listed(walk, id)
         /\ (\A i, j \in DOMAIN walk.listed : walk.listed[i] = walk.listed[j] => i = j)
              => Times(id) <= 1
<1> DEFINE at == {i \in DOMAIN walk.listed : walk.listed[i] = id}
<1>1. walk.listed \in Seq(PolicyID)
  BY DEF Walk
<1>2. IsFiniteSet(at)
  <2>1. IsFiniteSet(1 .. Len(walk.listed))
    BY <1>1, FS_Interval
  <2>2. at \in SUBSET (1 .. Len(walk.listed))
    BY <1>1
  <2> HIDE DEF at
  <2> QED
    BY <2>1, <2>2, FS_Subset
<1>3. Times(id) = Cardinality(at)
  BY DEF Times
<1>4. Listed(walk, id) <=> at # {}
  BY DEF Listed
<1>5. ASSUME \A i, j \in DOMAIN walk.listed : walk.listed[i] = walk.listed[j] => i = j
      PROVE  at = {} \/ \E i : at = {i}
  BY <1>5
<1> HIDE DEF at
<1>6. Cardinality(at) \in Nat /\ (Cardinality(at) = 0 <=> at = {})
  BY <1>2, FS_CardinalityType, FS_EmptySet
<1>7. (\E i : at = {i}) => Cardinality(at) = 1
  BY FS_Singleton
<1> QED
  BY <1>3, <1>4, <1>5, <1>6, <1>7

(* FindStringSubmatch finds the only clause on a field. *)
LEMMA FirstIsOnly ==
  ASSUME NEW clauses \in Seq(Clause), NEW i \in DOMAIN clauses,
         \A j \in DOMAIN clauses : clauses[i].field = clauses[j].field => i = j
  PROVE  FirstOn(clauses[i].field, clauses) = clauses[i].value
<1> DEFINE on == {j \in DOMAIN clauses : clauses[j].field = clauses[i].field}
<1>1. on = {i}
  OBVIOUS
<1>2. i \in Nat
  OBVIOUS
<1>3. (CHOOSE k \in on : \A j \in on : k <= j) = i
  <2>1. \A k \in on : k = i
    BY <1>1
  <2>2. i \in on /\ \A j \in on : i <= j
    BY <1>1, <1>2
  <2> HIDE DEF on
  <2> QED
    BY <2>1, <2>2
<1>4. on # {}
  BY <1>1
<1> HIDE DEF on
<1>5. FirstOn(clauses[i].field, clauses) =
        IF on = {} THEN None ELSE clauses[CHOOSE k \in on : \A j \in on : k <= j].value
  BY DEF FirstOn, on
<1> QED
  BY <1>3, <1>4, <1>5

(* What each clause of a supported filter asks for. *)
LEMMA SelectsByField ==
  ASSUME NEW expr, Supported(expr), NEW row
  PROVE  Selects(expr, row) <=>
           \A i \in DOMAIN expr.clauses :
             /\ expr.clauses[i].field = "policy_type" => row.ptype = expr.clauses[i].value
             /\ expr.clauses[i].field = "enabled" =>
                  row.enabled = (expr.clauses[i].value = "true")
<1> DEFINE chosen(c) == CASE c.field = "policy_type" -> row.ptype = c.value
                          [] c.field = "enabled" -> row.enabled = (c.value = "true")
                          [] c.field = "other" -> FALSE
<1>1. \A c : c.field = "policy_type" => (chosen(c) <=> row.ptype = c.value)
  BY Zenon
<1>2. \A c : c.field = "enabled" => (chosen(c) <=> row.enabled = (c.value = "true"))
  BY Zenon
<1>3. Selects(expr, row) <=> \A i \in DOMAIN expr.clauses : chosen(expr.clauses[i])
  BY Zenon DEF Selects
<1>4. \A i \in DOMAIN expr.clauses : expr.clauses[i].field \in {"policy_type", "enabled"}
  BY Zenon DEF Supported
<1> HIDE DEF chosen
<1> QED
  BY <1>1, <1>2, <1>3, <1>4

(* parseFilter and the WHERE of List select what the clauses of a supported
   filter ask for. *)
LEMMA FilterSelects ==
  ASSUME NEW expr \in Expr, Supported(expr), NEW table \in Table, NEW id \in PolicyID
  PROVE  id \in Where(table, ParsedFilter(expr)) <=>
           table[id] # None /\ Selects(expr, table[id])
<1> SUFFICES ASSUME table[id] # None
             PROVE  id \in Where(table, ParsedFilter(expr)) <=> Selects(expr, table[id])
  BY DEF Where
<1> DEFINE clauses == expr.clauses
           row == table[id]
           type == FirstOn("policy_type", clauses)
           enabled == FirstOn("enabled", clauses)
<1>1. clauses \in Seq(Clause)
  BY DEF Expr
<1>2. row \in Row
  BY DEF Table
<1>3. row.enabled \in BOOLEAN
  BY <1>2 DEF Row
<1>4. \A i, j \in DOMAIN clauses : clauses[i].field = clauses[j].field => i = j
  BY Zenon DEF Supported
<1>5. \A i \in DOMAIN clauses : clauses[i].value # None
  <2>1. \A i \in DOMAIN clauses : clauses[i] \in Clause
    BY <1>1
  <2> QED
    BY <2>1, NilAssumption
<1>6. id \in Where(table, ParsedFilter(expr)) <=>
        /\ type = None \/ type = row.ptype
        /\ (IF enabled = None THEN None ELSE enabled = "true") \in {None, row.enabled}
  BY DEF Where, ParsedFilter
<1>7. (IF enabled = None THEN None ELSE enabled = "true") \in {None, row.enabled}
        <=> enabled = None \/ (enabled = "true") = row.enabled
  <2>1. (enabled = "true") # None
    BY NilAssumption
  <2> QED
    BY <2>1
<1>8. Selects(expr, row) <=>
        \A i \in DOMAIN clauses :
          /\ clauses[i].field = "policy_type" => row.ptype = clauses[i].value
          /\ clauses[i].field = "enabled" => row.enabled = (clauses[i].value = "true")
  BY SelectsByField
<1>9. ASSUME NEW field, NEW i \in DOMAIN clauses, clauses[i].field = field
      PROVE  FirstOn(field, clauses) = clauses[i].value
  BY <1>1, <1>4, <1>9, FirstIsOnly
<1>10. ASSUME NEW field, \A i \in DOMAIN clauses : clauses[i].field # field
       PROVE  FirstOn(field, clauses) = None
  BY <1>10 DEF FirstOn
<1> HIDE DEF clauses, row, type, enabled
<1>11. type = None \/ type = row.ptype <=>
         \A i \in DOMAIN clauses :
           clauses[i].field = "policy_type" => row.ptype = clauses[i].value
  <2>1. CASE \E i \in DOMAIN clauses : clauses[i].field = "policy_type"
    BY <1>5, <1>9, <2>1 DEF type
  <2>2. CASE \A i \in DOMAIN clauses : clauses[i].field # "policy_type"
    BY <1>10, <2>2 DEF type
  <2> QED
    BY <2>1, <2>2
<1>12. enabled = None \/ (enabled = "true") = row.enabled <=>
         \A i \in DOMAIN clauses :
           clauses[i].field = "enabled" => row.enabled = (clauses[i].value = "true")
  <2>1. CASE \E i \in DOMAIN clauses : clauses[i].field = "enabled"
    <3>1. PICK i \in DOMAIN clauses : clauses[i].field = "enabled"
      BY <2>1
    <3>2. \A j \in DOMAIN clauses : clauses[j].field = "enabled" => clauses[j].value = enabled
      BY <1>9 DEF enabled
    <3> QED
      BY <1>5, <3>1, <3>2, Zenon
  <2>2. CASE \A i \in DOMAIN clauses : clauses[i].field # "enabled"
    BY <1>10, <2>2 DEF enabled
  <2> QED
    BY <2>1, <2>2
<1>13. (\A i \in DOMAIN clauses :
          /\ clauses[i].field = "policy_type" => row.ptype = clauses[i].value
          /\ clauses[i].field = "enabled" => row.enabled = (clauses[i].value = "true"))
       <=> /\ \A i \in DOMAIN clauses :
                clauses[i].field = "policy_type" => row.ptype = clauses[i].value
           /\ \A i \in DOMAIN clauses :
                clauses[i].field = "enabled" => row.enabled = (clauses[i].value = "true")
  BY Zenon
<1> QED
  BY <1>6, <1>7, <1>8, <1>11, <1>12, <1>13, Zenon DEF row

(* While policies are only created, a walk in an order on unique columns lists
   all that matched when it began, in a table of any size, whatever else
   happens to it. *)
THEOREM GrowingWalksMissNothing == WalkSpec => []GrowingWalkMissesNothing
<1>1. WalkInv => GrowingWalkMissesNothing
  <2> SUFFICES ASSUME WalkInv, Complete, walk.kept, UniqueOrder(walk.req),
                      NEW id \in walk.start
               PROVE  Times(id) >= 1
    BY DEF GrowingWalkMissesNothing
  <2>1. Walking /\ walk \in Walk /\ walk.token = None
    BY DEF Complete, WalkInv, WalkTypeOK, Walking
  <2>2. NothingMissed(db, older, walk)
    BY <2>1 DEF WalkInv, PagesOK
  <2>3. Listed(walk, id)
    BY <2>1, <2>2 DEF NothingMissed
  <2> QED
    BY <2>1, <2>3, TimesCount
<1> QED
  BY <1>1, WalkInvariant, PTL

(* While policies are only deleted, a walk in an order on unique columns lists
   none twice. *)
THEOREM ShrinkingWalksRepeatNothing == WalkSpec => []ShrinkingWalkRepeatsNothing
<1>1. WalkInv => ShrinkingWalkRepeatsNothing
  <2> SUFFICES ASSUME WalkInv, Walking, walk.added, UniqueOrder(walk.req),
                      NEW id \in PolicyID
               PROVE  Times(id) <= 1
    BY DEF ShrinkingWalkRepeatsNothing
  <2>1. walk \in Walk
    BY DEF WalkInv, WalkTypeOK, Walking
  <2>2. NothingRepeated(db, older, walk)
    BY DEF WalkInv, PagesOK
  <2> QED
    BY <2>1, <2>2, TimesCount DEF NothingRepeated
<1> QED
  BY <1>1, WalkInvariant, PTL

(* A walk over a table that does not change lists exactly the policies the
   filter selects, each once and in order, for any table, page size and order
   on unique columns. *)
THEOREM QuietWalksAreExact == WalkSpec => []QuietWalkIsExact
<1>1. WalkInv => QuietWalkIsExact
  <2> SUFFICES ASSUME WalkInv, Complete, walk.kept, walk.added,
                      UniqueOrder(walk.req), Supported(walk.req.expr)
               PROVE  /\ \A id \in PolicyID :
                           Times(id) = IF db[id] # None /\ Selects(walk.req.expr, db[id])
                                       THEN 1 ELSE 0
                      /\ \A i, j \in DOMAIN walk.listed :
                           i < j => Precedes(db, older, TermsOf(walk.req),
                                             walk.listed[i], walk.listed[j])
    BY DEF QuietWalkIsExact
  <2>1. Walking /\ walk \in Walk /\ walk.token = None
    BY DEF Complete, WalkInv, WalkTypeOK, Walking
  <2>2. /\ NothingMissed(db, older, walk) /\ NothingRepeated(db, older, walk)
        /\ InOrderSoFar(db, older, walk)
    BY <2>1 DEF WalkInv, PagesOK
  <2>3. walk.req.expr \in Expr
    BY <2>1, ListAssumption DEF Walk
  <2>4. ASSUME NEW id \in PolicyID
        PROVE  Times(id) = IF db[id] # None /\ Selects(walk.req.expr, db[id]) THEN 1 ELSE 0
    <3>1. Listed(walk, id) <=> id \in Where(db, FilterOf(walk.req))
      BY <2>1, <2>2 DEF NothingMissed, InOrderSoFar, Listed
    <3>2. id \in Where(db, FilterOf(walk.req)) <=>
            db[id] # None /\ Selects(walk.req.expr, db[id])
      BY <2>3, FilterSelects DEF FilterOf, WalkInv, TypeOK
    <3>3. /\ Times(id) \in Nat /\ Times(id) <= 1
          /\ Times(id) >= 1 <=> Listed(walk, id)
      BY <2>1, <2>2, TimesCount DEF NothingRepeated
    <3> HIDE DEF Times
    <3> QED
      BY <3>1, <3>2, <3>3
  <2> QED
    BY <2>2, <2>4 DEF InOrderSoFar
<1> QED
  BY <1>1, WalkInvariant, PTL

-----------------------------------------------------------------------------
(* The order EvaluateRequest asks in *)

(* policy_type, priority and id leave no ties. *)
LEMMA DefaultDecides ==
  ASSUME NEW table \in Table, NEW filter
  PROVE  /\ TermsOK(DefaultOrderBy)
         /\ OneWay({})
         /\ Decides(table, {}, DefaultOrderBy, Where(table, filter))
<1>1. TermsOK(DefaultOrderBy)
  BY DEF TermsOK, DefaultOrderBy, Ascending, Columns
<1>2. 3 \in DOMAIN DefaultOrderBy /\ DefaultOrderBy[3].field = "id"
  BY DEF DefaultOrderBy, Ascending
<1>3. ASSUME NEW a \in Where(table, filter), NEW b \in Where(table, filter),
             Tied(table, {}, "id", a, b)
      PROVE  a = b
  <2>1. a \in PolicyID /\ b \in PolicyID /\ table[a] # None /\ table[b] # None
    BY DEF Where
  <2>2. "id" \in Columns \ {"create_time"}
    BY DEF Columns
  <2> QED
    BY <1>3, <2>1, <2>2, TiedIsEqual
<1> QED
  BY <1>1, <1>2, <1>3 DEF OneWay, Decides

(* The enabled policies as List answers them: each in its turn. *)
LEMMA EnabledInOrder ==
  ASSUME NEW table \in Table, IsFiniteSet(Stored(table)), NEW ids \in InOrder(table)
  PROVE  /\ ids \in [1 .. Len(ids) -> EnabledIDs(table)]
         /\ Len(ids) \in Nat
         /\ \A i \in 1 .. Len(ids) : Turn(table, ids[i]) = i - 1
         /\ \A id \in EnabledIDs(table) : \E i \in 1 .. Len(ids) : ids[i] = id
<1>1. ids \in Results(table, {}, EnabledOnly, DefaultOrderBy)
  BY DEF InOrder
<1>2. IsFiniteSet(Where(table, EnabledOnly))
  BY FinitelyManyRows
<1> QED
  BY <1>1, <1>2, DefaultDecides, ResultsByPlace DEF Turn, EnabledIDs

(* No turn comes earlier while every enabled policy keeps its type, priority and
   id. *)
LEMMA TurnsGrow ==
  ASSUME NEW old \in Table, NEW new \in Table, IsFiniteSet(Stored(new)),
         \A id \in EnabledIDs(old) :
           /\ id \in EnabledIDs(new)
           /\ new[id].ptype = old[id].ptype /\ new[id].prio = old[id].prio,
         NEW id \in EnabledIDs(old)
  PROVE  /\ Turn(old, id) \in Nat /\ Turn(new, id) \in Nat
         /\ Turn(old, id) <= Turn(new, id)
<1>1. ASSUME NEW a \in EnabledIDs(old), NEW b \in EnabledIDs(old)
      PROVE  Precedes(old, {}, DefaultOrderBy, a, b) => Precedes(new, {}, DefaultOrderBy, a, b)
  <2>1. \A i \in DOMAIN DefaultOrderBy :
          DefaultOrderBy[i].field \in {"policy_type", "priority", "id"}
    BY DEF DefaultOrderBy, Ascending
  <2>2. ASSUME NEW field \in {"policy_type", "priority", "id"}
        PROVE  /\ field # "create_time"
               /\ Key(old, a, field) = Key(new, a, field)
               /\ Key(old, b, field) = Key(new, b, field)
    <3>1. CASE field = "policy_type"
      BY <3>1, KeyOfColumn
    <3>2. CASE field = "priority"
      BY <3>2, KeyOfColumn
    <3>3. CASE field = "id"
      BY <3>3, KeyOfColumn
    <3> QED
      BY <3>1, <3>2, <3>3
  <2>3. ASSUME NEW field \in {"policy_type", "priority", "id"}
        PROVE  /\ Before(old, {}, field, a, b) <=> Before(new, {}, field, a, b)
               /\ Before(old, {}, field, b, a) <=> Before(new, {}, field, b, a)
    BY <2>2 DEF Before
  <2> QED
    BY <2>1, <2>3, SameOrder
<1>2. IsFiniteSet(Where(new, EnabledOnly))
  BY FinitelyManyRows
<1>3. Where(old, EnabledOnly) \subseteq Where(new, EnabledOnly)
  BY DEF EnabledIDs
<1> QED
  BY <1>1, <1>2, <1>3, PlacesGrow DEF Turn, EnabledIDs

-----------------------------------------------------------------------------
(* Sequences the loop takes from and adds to *)

LEMMA HeadAndTail ==
  ASSUME NEW S, NEW page \in Seq(S), page # <<>>
  PROVE  /\ Head(page) \in S /\ Tail(page) \in Seq(S)
         /\ Len(page) \in Nat \ {0} /\ Len(Tail(page)) = Len(page) - 1
         /\ page[1] = Head(page)
         /\ \A i \in 1 .. Len(Tail(page)) : i + 1 \in 1 .. Len(page) /\ Tail(page)[i] = page[i + 1]
         /\ \A i \in DOMAIN page :
              page[i] = Head(page) \/ \E j \in DOMAIN Tail(page) : Tail(page)[j] = page[i]
<1>1. /\ Head(page) \in S /\ Tail(page) \in Seq(S)
      /\ Len(page) \in Nat \ {0} /\ Len(Tail(page)) = Len(page) - 1
      /\ page[1] = Head(page)
      /\ \A i \in 1 .. Len(Tail(page)) : i + 1 \in 1 .. Len(page) /\ Tail(page)[i] = page[i + 1]
  BY HeadTailProperties
<1>2. ASSUME NEW i \in DOMAIN page
      PROVE  page[i] = Head(page) \/ \E j \in DOMAIN Tail(page) : Tail(page)[j] = page[i]
  <2>1. i \in 1 .. Len(page) /\ DOMAIN Tail(page) = 1 .. Len(Tail(page))
    BY <1>1
  <2>2. CASE i = 1
    BY <1>1, <2>2
  <2>3. CASE i # 1
    <3>1. PICK j \in 1 .. Len(Tail(page)) : j + 1 = i
      <4>1. i - 1 \in 1 .. Len(Tail(page)) /\ (i - 1) + 1 = i
        BY <1>1, <2>1, <2>3
      <4> QED
        BY <4>1
    <3> QED
      BY <1>1, <2>1, <3>1
  <2> QED
    BY <2>2, <2>3
<1> QED
  BY <1>1, <1>2

LEMMA Appended ==
  ASSUME NEW S, NEW seq \in Seq(S), NEW last \in S,
         NEW longer, longer = Append(seq, last)
  PROVE  /\ longer \in Seq(S)
         /\ Len(seq) \in Nat /\ Len(longer) = Len(seq) + 1
         /\ \A i \in 1 .. Len(seq) : i \in 1 .. Len(longer) /\ longer[i] = seq[i]
         /\ longer[Len(longer)] = last
         /\ Len(longer) \in 1 .. Len(longer)
<1>1. Len(seq) \in Nat
  OBVIOUS
<1>2. /\ longer \in Seq(S) /\ Len(longer) = Len(seq) + 1
      /\ \A i \in 1 .. Len(seq) : longer[i] = seq[i]
      /\ longer[Len(seq) + 1] = last
  BY AppendProperties
<1> QED
  BY <1>1, <1>2

-----------------------------------------------------------------------------
(* The steps of EvaluateRequest *)

(* The page ListPage cuts from the rows of ids. *)
PageOf(table, ids) == [i \in DOMAIN ids |-> <<ids[i], table[ids[i]].ptype>>]

LEMMA PageListed ==
  ASSUME NEW table \in Table, IsFiniteSet(Stored(table)), NEW ids \in InOrder(table),
         NEW offset \in Nat
  PROVE  LET rows == PageOf(table, ids)
             page == Page(rows, offset, PageSize)
             next == NextOffset(rows, offset, PageSize)
         IN /\ page \in Seq(PolicyID \X PolicyType)
            /\ Len(rows) = Len(ids) /\ Len(ids) \in Nat
            /\ \A k \in 1 .. Len(page) :
                 /\ offset + k \in 1 .. Len(ids) /\ k <= PageSize
                 /\ page[k] = <<ids[offset + k], table[ids[offset + k]].ptype>>
            /\ \A i \in 1 .. Len(ids) :
                 offset < i /\ i <= offset + PageSize => i - offset \in 1 .. Len(page)
            /\ next = None => Len(ids) <= offset + PageSize
            /\ next # None => next = offset + PageSize /\ offset + PageSize < Len(ids)
            /\ next \in Nat \cup {None}
<1> DEFINE rows == PageOf(table, ids)
<1>1. ids \in [1 .. Len(ids) -> EnabledIDs(table)] /\ Len(ids) \in Nat
  BY EnabledInOrder
<1>2. \A id \in EnabledIDs(table) : id \in PolicyID /\ table[id].ptype \in PolicyType
  BY DEF EnabledIDs, Where, Table, Row
<1>3. /\ rows \in Seq(PolicyID \X PolicyType) /\ Len(rows) = Len(ids)
      /\ \A i \in 1 .. Len(ids) : rows[i] = <<ids[i], table[ids[i]].ptype>>
  <2>1. rows = [i \in 1 .. Len(ids) |-> <<ids[i], table[ids[i]].ptype>>]
    BY <1>1 DEF PageOf
  <2>2. \A i \in 1 .. Len(ids) : <<ids[i], table[ids[i]].ptype>> \in PolicyID \X PolicyType
    BY <1>1, <1>2
  <2> HIDE DEF rows
  <2> QED
    BY <1>1, <2>1, <2>2
<1>4. PageSize \in Nat \ {0}
  BY PageAssumption
<1> HIDE DEF rows
<1> DEFINE page == Page(rows, offset, PageSize)
           next == NextOffset(rows, offset, PageSize)
<1>5. /\ page \in Seq(PolicyID \X PolicyType)
      /\ \A k \in 1 .. Len(page) :
           /\ offset + k \in 1 .. Len(rows) /\ k <= PageSize
           /\ page[k] = rows[offset + k]
      /\ \A i \in 1 .. Len(rows) :
           offset < i /\ i <= offset + PageSize => i - offset \in 1 .. Len(page)
      /\ next = None => Len(rows) <= offset + PageSize
      /\ next # None => next = offset + PageSize
  BY <1>3, <1>4, PageHolds
<1>e. next # None => offset + PageSize < Len(rows)
  BY DEF NextOffset
<1>6. next \in Nat \cup {None}
  <2>1. offset + PageSize \in Nat
    BY <1>4
  <2> QED
    BY <1>5, <2>1
<1> HIDE DEF page, next
<1>7. \A k \in 1 .. Len(page) :
        /\ offset + k \in 1 .. Len(ids) /\ k <= PageSize
        /\ page[k] = <<ids[offset + k], table[ids[offset + k]].ptype>>
  BY <1>3, <1>5
<1> QED
  BY <1>1, <1>3, <1>5, <1>e, <1>6, <1>7 DEF rows, page, next

LEMMA ListKeepsScan ==
  ASSUME ScanInv, ListPage
  PROVE  scan' \in Scan /\ SteadyOK(db, scan')
<1>1. scan \in Scan /\ scan.page = <<>> /\ scan.offset # None /\ SteadyOK(db, scan)
  BY DEF ListPage, ScanInv, EvaluationTypeOK
<1>2. scan.offset \in Nat /\ scan.asked \in Seq(PolicyID \X PolicyType \X (Rego \cup {None}))
  BY <1>1 DEF Scan
<1>3. db \in Table /\ IsFiniteSet(Stored(db))
  BY DEF ScanInv, TypeOK, TableOK
<1>4. PICK ids \in InOrder(db) :
        scan' = [scan EXCEPT !.page = Page(PageOf(db, ids), scan.offset, PageSize),
                             !.offset = NextOffset(PageOf(db, ids), scan.offset, PageSize)]
  BY DEF ListPage, PageOf
<1> DEFINE offset == scan.offset
           page == Page(PageOf(db, ids), offset, PageSize)
           next == NextOffset(PageOf(db, ids), offset, PageSize)
<1>5. /\ page \in Seq(PolicyID \X PolicyType) /\ Len(ids) \in Nat
      /\ \A k \in 1 .. Len(page) :
           /\ offset + k \in 1 .. Len(ids)
           /\ page[k] = <<ids[offset + k], db[ids[offset + k]].ptype>>
      /\ \A i \in 1 .. Len(ids) :
           offset < i /\ i <= offset + PageSize => i - offset \in 1 .. Len(page)
      /\ next = None => Len(ids) <= offset + PageSize
      /\ next # None => next = offset + PageSize
      /\ next \in Nat \cup {None}
  BY <1>2, <1>3, PageListed
<1>6. scan' = [scan EXCEPT !.page = page, !.offset = next]
  BY <1>4
<1> HIDE DEF page, next
<1>7. scan' \in Scan
  BY <1>1, <1>5, <1>6 DEF Scan
<1>8. /\ scan'.kept = scan.kept /\ scan'.steady = scan.steady /\ scan'.asked = scan.asked
      /\ scan'.page = page /\ scan'.offset = next
  BY <1>1, <1>6 DEF Scan
<1>9. /\ \A i \in 1 .. Len(ids) : Turn(db, ids[i]) = i - 1
      /\ \A id \in EnabledIDs(db) : \E i \in 1 .. Len(ids) : ids[i] = id
  BY <1>3, EnabledInOrder
<1> HIDE DEF offset
<1>10. ASSUME scan.kept, NEW id \in scan.steady
       PROVE  /\ id \in EnabledIDs(db)
              /\ Asked(scan', id) \/ Waiting(scan', id)
                   \/ (next # None /\ next <= Turn(db, id))
  <2>1. /\ id \in EnabledIDs(db)
        /\ Asked(scan, id) \/ offset <= Turn(db, id)
    BY <1>1, <1>10 DEF SteadyOK, Waiting, offset
  <2>2. CASE Asked(scan, id)
    BY <1>8, <2>1, <2>2 DEF Asked
  <2>3. CASE offset <= Turn(db, id)
    <3>1. PICK i \in 1 .. Len(ids) : ids[i] = id
      BY <1>9, <2>1
    <3>2. Turn(db, id) = i - 1 /\ offset < i
      BY <1>2, <1>9, <2>3, <3>1 DEF offset
    <3>3. CASE i <= offset + PageSize
      <4>1. PICK k \in 1 .. Len(page) : k = i - offset
        BY <1>5, <3>2, <3>3
      <4>2. offset + k = i
        BY <1>2, <4>1 DEF offset
      <4>3. page[k] = <<ids[i], db[ids[i]].ptype>>
        BY <1>5, <4>2
      <4>4. k \in DOMAIN page /\ page[k][1] = id
        BY <1>5, <3>1, <4>3
      <4> QED
        BY <1>8, <2>1, <4>4 DEF Waiting
    <3>4. CASE ~(i <= offset + PageSize)
      <4>1. offset \in Nat /\ PageSize \in Nat
        BY <1>2, PageAssumption DEF offset
      <4>2. next # None /\ next = offset + PageSize
        BY <1>5, <3>4, <4>1
      <4> QED
        BY <2>1, <3>2, <3>4, <4>1, <4>2
    <3> QED
      BY <3>3, <3>4
  <2> QED
    BY <2>1, <2>2, <2>3
<1>11. SteadyOK(db, scan')
  BY <1>8, <1>10 DEF SteadyOK
<1> QED
  BY <1>7, <1>11

LEMMA AskKeepsScan ==
  ASSUME ScanInv, AskNext
  PROVE  scan' \in Scan /\ SteadyOK(db, scan')
<1> DEFINE S == PolicyID \X PolicyType
           T == PolicyID \X PolicyType \X (Rego \cup {None})
           id == Head(scan.page)[1]
           ptype == Head(scan.page)[2]
           answer == <<id, ptype, queries[id]>>
           longer == Append(scan.asked, answer)
           rest == Tail(scan.page)
<1>1. scan \in Scan /\ scan.page # <<>> /\ SteadyOK(db, scan)
  BY DEF AskNext, ScanInv, EvaluationTypeOK
<1>2. scan.page \in Seq(S) /\ scan.asked \in Seq(T)
  BY <1>1 DEF Scan
<1>3. /\ Head(scan.page) \in S /\ rest \in Seq(S)
      /\ \A i \in DOMAIN scan.page :
           scan.page[i] = Head(scan.page) \/ \E j \in DOMAIN rest : rest[j] = scan.page[i]
  BY <1>1, <1>2, HeadAndTail
<1>4. answer \in T /\ answer[1] = id
  BY <1>3 DEF ScanInv, TypeOK, ModuleMap
<1>5. scan' = [scan EXCEPT !.page = rest, !.asked = longer]
  BY DEF AskNext
<1> HIDE DEF answer, rest, S, T
<1>6. /\ longer \in Seq(T)
      /\ \A i \in 1 .. Len(scan.asked) : i \in 1 .. Len(longer) /\ longer[i] = scan.asked[i]
      /\ longer[Len(longer)] = answer /\ Len(longer) \in 1 .. Len(longer)
  BY <1>2, <1>4, Appended
<1> HIDE DEF longer
<1>7. scan' \in Scan
  BY <1>1, <1>3, <1>5, <1>6 DEF Scan, S, T
<1>8. /\ scan'.kept = scan.kept /\ scan'.steady = scan.steady /\ scan'.offset = scan.offset
      /\ scan'.page = rest /\ scan'.asked = longer
  BY <1>1, <1>5 DEF Scan
<1>9. DOMAIN scan.asked = 1 .. Len(scan.asked) /\ DOMAIN longer = 1 .. Len(longer)
  BY <1>2, <1>6
<1>10. \A x : Asked(scan, x) => Asked(scan', x)
  BY <1>6, <1>8, <1>9 DEF Asked
<1>11. Asked(scan', id)
  BY <1>4, <1>6, <1>8, <1>9 DEF Asked
<1>12. \A x : Waiting(scan, x) => x = id \/ Waiting(scan', x)
  BY <1>3, <1>8 DEF Waiting
<1> HIDE DEF id
<1>13. SteadyOK(db, scan')
  BY <1>1, <1>8, <1>10, <1>11, <1>12 DEF SteadyOK
<1> QED
  BY <1>7, <1>13

LEMMA BeginKeepsScan ==
  ASSUME ScanInv, BeginEvaluation
  PROVE  scan' \in Scan /\ SteadyOK(db, scan')
<1>1. db \in Table /\ IsFiniteSet(Stored(db))
  BY DEF ScanInv, TypeOK, TableOK
<1>2. scan' = [page |-> <<>>, offset |-> 0, asked |-> <<>>,
               quiet |-> Quiescent, kept |-> TRUE, steady |-> EnabledIDs(db)]
  BY DEF BeginEvaluation
<1>3. Quiescent \in BOOLEAN
  BY DEF Quiescent, ScanInv, TypeOK
<1>4. EnabledIDs(db) \in SUBSET PolicyID
  BY DEF EnabledIDs, Where
<1>5. \A id \in EnabledIDs(db) : Turn(db, id) \in Nat
  BY <1>1, TurnsGrow
<1>6. scan' \in Scan
  BY <1>2, <1>3, <1>4 DEF Scan
<1>7. 0 # None
  BY NilAssumption
<1>8. scan'.steady = EnabledIDs(db) /\ scan'.offset = 0
  BY <1>2
<1>9. SteadyOK(db, scan')
  BY <1>5, <1>7, <1>8 DEF SteadyOK
<1> QED
  BY <1>6, <1>9

LEMMA ServiceKeepsScan ==
  ASSUME ScanInv, ServiceStep
  PROVE  scan' \in Scan \cup {None} /\ (scan' # None => SteadyOK(db', scan'))
<1>1. CASE scan = None \/ ~up'
  BY <1>1 DEF ServiceStep
<1>2. CASE scan # None /\ up'
  <2>1. scan \in Scan /\ SteadyOK(db, scan)
    BY <1>2 DEF ScanInv, EvaluationTypeOK
  <2> DEFINE quiet == scan.quiet /\ \A p \in Request : pc'[p] = "idle"
             kept == scan.kept /\ KeepsPlaces
             steady == {id \in scan.steady : db'[id] = db[id]}
  <2>2. scan' = [scan EXCEPT !.quiet = quiet, !.kept = kept, !.steady = steady]
    BY <1>2 DEF ServiceStep
  <2>3. quiet \in BOOLEAN /\ kept \in BOOLEAN /\ steady \in SUBSET PolicyID
    BY <2>1 DEF Scan
  <2>4. (kept => scan.kept /\ KeepsPlaces) /\ steady \subseteq scan.steady
    OBVIOUS
  <2> HIDE DEF quiet, kept, steady
  <2>5. scan' \in Scan
    BY <2>1, <2>2, <2>3 DEF Scan
  <2>6. /\ scan'.kept = kept /\ scan'.steady = steady /\ scan'.offset = scan.offset
        /\ scan'.page = scan.page /\ scan'.asked = scan.asked
    BY <2>1, <2>2 DEF Scan
  <2>7. /\ db \in Table /\ db' \in Table /\ IsFiniteSet(Stored(db'))
    BY TableKept DEF ScanInv, ServiceStep, TypeOK, TableOK
  <2>8. ASSUME kept, NEW id \in steady
        PROVE  /\ id \in EnabledIDs(db')
               /\ Asked(scan', id) \/ Waiting(scan', id)
                    \/ (scan.offset # None /\ scan.offset <= Turn(db', id))
    <3>1. id \in EnabledIDs(db) /\ id \in EnabledIDs(db')
      BY <2>1, <2>4, <2>8 DEF SteadyOK, KeepsPlaces
    <3>2. /\ Turn(db, id) \in Nat /\ Turn(db', id) \in Nat
          /\ Turn(db, id) <= Turn(db', id)
      BY <2>4, <2>7, <2>8, <3>1, TurnsGrow DEF KeepsPlaces
    <3>3. Asked(scan, id) \/ Waiting(scan, id)
            \/ (scan.offset # None /\ scan.offset <= Turn(db, id))
      BY <2>1, <2>4, <2>8 DEF SteadyOK
    <3>4. scan.offset \in Nat \cup {None}
      BY <2>1 DEF Scan
    <3>5. Asked(scan, id) => Asked(scan', id)
      BY <2>6 DEF Asked
    <3>6. Waiting(scan, id) => Waiting(scan', id)
      BY <2>6 DEF Waiting
    <3>7. CASE scan.offset # None /\ scan.offset <= Turn(db, id)
      BY <3>1, <3>2, <3>4, <3>7
    <3> QED
      BY <3>1, <3>3, <3>5, <3>6, <3>7
  <2> QED
    BY <2>5, <2>6, <2>8 DEF SteadyOK
<1> QED
  BY <1>1, <1>2

(* What the pages of an evaluation rest on holds in every state. *)
THEOREM ScanInvariant == EvaluationSpec => []ScanInv
<1>1. EvaluationInit => ScanInv
  <2> SUFFICES ASSUME EvaluationInit PROVE ScanInv
    OBVIOUS
  <2>1. TypeOK /\ JobsOK
    BY InitTyped DEF EvaluationInit
  <2>2. TableOK
    <3>1. Stored(db) = {}
      BY DEF EvaluationInit, Init, Stored
    <3>2. IsFiniteSet(Stored(db))
      BY <3>1, FS_EmptySet
    <3> QED
      BY <3>2 DEF TableOK, Consistent, EvaluationInit, Init
  <2> QED
    BY <2>1, <2>2 DEF EvaluationInit, ScanInv, EvaluationTypeOK
<1>2. ScanInv /\ [EvaluationNext]_evaluationVars => ScanInv'
  <2> SUFFICES ASSUME ScanInv, [EvaluationNext]_evaluationVars PROVE ScanInv'
    OBVIOUS
  <2> DEFINE ScanOK == EvaluationTypeOK /\ (scan # None => SteadyOK(db, scan))
  <2>1. [Next]_vars
    BY DEF EvaluationNext, EvaluationStep, evaluationVars, BeginEvaluation, ListPage,
           AskNext, EndEvaluation, StopEvaluation, ServiceStep
  <2>2. TypeOK' /\ JobsOK' /\ TableOK'
    BY <2>1, TableKept DEF ScanInv
  <2>3. ScanOK'
    <3>1. CASE BeginEvaluation
      <4>1. db' = db
        BY <3>1 DEF BeginEvaluation, vars
      <4> QED
        BY <3>1, <4>1, BeginKeepsScan DEF EvaluationTypeOK
    <3>2. CASE ListPage
      <4>1. db' = db
        BY <3>2 DEF ListPage, vars
      <4> QED
        BY <3>2, <4>1, ListKeepsScan DEF EvaluationTypeOK
    <3>3. CASE AskNext
      <4>1. db' = db
        BY <3>3 DEF AskNext, vars
      <4> QED
        BY <3>3, <4>1, AskKeepsScan DEF EvaluationTypeOK
    <3>4. CASE EndEvaluation \/ StopEvaluation
      BY <3>4 DEF EndEvaluation, StopEvaluation, EvaluationTypeOK
    <3>5. CASE ServiceStep
      BY <3>5, ServiceKeepsScan DEF EvaluationTypeOK
    <3>6. CASE UNCHANGED evaluationVars
      BY <3>6 DEF evaluationVars, vars, ScanInv, EvaluationTypeOK
    <3> QED
      BY <3>1, <3>2, <3>3, <3>4, <3>5, <3>6 DEF EvaluationNext, EvaluationStep
  <2> QED
    BY <2>2, <2>3 DEF ScanInv
<1> QED
  BY <1>1, <1>2, PTL DEF EvaluationSpec

(* No evaluation passes over a policy that stayed enabled and unchanged, as
   long as none gives up its place, in a table and with pages of any size,
   whatever requests overlap it and whichever calls fail. *)
THEOREM SteadyPoliciesAreAsked == EvaluationSpec => []SteadyPoliciesAsked
<1>1. ScanInv => SteadyPoliciesAsked
  <2> SUFFICES ASSUME ScanInv, Done, scan.kept, NEW id \in scan.steady
               PROVE  \E i \in DOMAIN scan.asked : scan.asked[i][1] = id
    BY DEF SteadyPoliciesAsked
  <2>1. scan # None /\ scan.page = <<>> /\ scan.offset = None
    BY DEF Done
  <2>2. ~Waiting(scan, id)
    BY <2>1 DEF Waiting
  <2> QED
    BY <2>1, <2>2 DEF ScanInv, SteadyOK, Asked
<1> QED
  BY <1>1, ScanInvariant, PTL

-----------------------------------------------------------------------------
(* An evaluation no mutation overlaps *)

(* The order of the enabled policies is one. *)
LEMMA OneOrder ==
  ASSUME NEW table \in Table, IsFiniteSet(Stored(table)),
         NEW ids \in InOrder(table), NEW others \in InOrder(table)
  PROVE  ids = others
<1>1. ASSUME NEW s \in InOrder(table), NEW t \in InOrder(table), NEW i \in 1 .. Len(s)
      PROVE  i \in 1 .. Len(t) /\ s[i] = t[i]
  <2>1. s[i] \in EnabledIDs(table) /\ Turn(table, s[i]) = i - 1 /\ Len(s) \in Nat
    BY EnabledInOrder
  <2>2. PICK k \in 1 .. Len(t) : t[k] = s[i]
    BY <2>1, EnabledInOrder
  <2>3. Turn(table, t[k]) = k - 1 /\ Len(t) \in Nat
    BY EnabledInOrder
  <2>4. k = i
    BY <2>1, <2>2, <2>3
  <2> QED
    BY <2>2, <2>4
<1>2. /\ ids \in [1 .. Len(ids) -> EnabledIDs(table)] /\ Len(ids) \in Nat
      /\ others \in [1 .. Len(others) -> EnabledIDs(table)] /\ Len(others) \in Nat
  BY EnabledInOrder
<1>3. Len(ids) = Len(others)
  <2> DEFINE m == Len(ids)
             n == Len(others)
  <2>1. m \in Nat /\ n \in Nat
    BY <1>2
  <2>2. (\A i \in 1 .. m : i \in 1 .. n) /\ (\A i \in 1 .. n : i \in 1 .. m)
    BY <1>1
  <2> HIDE DEF m, n
  <2>3. (m = 0 \/ m \in 1 .. m) /\ (n = 0 \/ n \in 1 .. n)
    BY <2>1
  <2>4. m = n
    BY <2>1, <2>2, <2>3
  <2> QED
    BY <2>4 DEF m, n
<1> QED
  BY <1>1, <1>2, <1>3

(* Each step of PolicyRegistry leaves the engine with the Rego of every policy
   it leaves stored, even where a delete leaves policies that do not compile. *)
LEMMA RegistryKeepsHeld ==
  ASSUME [Registry!RegistryNext]_<<Settled, queries, up>>, up => Held(Settled)
  PROVE  up' => Held(Settled)'
<1>1. CASE Registry!Mutate
  BY <1>1, SameOperators DEF Registry!Mutate, ModulesOf, Held
<1>2. CASE Registry!MutateAside
  BY <1>2 DEF Registry!MutateAside, Registry!AddsNoRego, Held
<1>3. CASE Registry!Die
  BY <1>3 DEF Registry!Die
<1>4. CASE Registry!Boot
  BY <1>4, SameOperators DEF Registry!Boot, ModulesOf, Held
<1>5. CASE UNCHANGED <<Settled, queries, up>>
  BY <1>5 DEF Held
<1> QED
  BY <1>1, <1>2, <1>3, <1>4, <1>5 DEF Registry!RegistryNext

LEMMA QuietListing ==
  ASSUME QuietInv, ListPage, scan.quiet
  PROVE  QuietOK(db, scan')
<1> DEFINE done == Len(scan.asked)
           offset == scan.offset
<1>1. scan \in Scan /\ scan.page = <<>> /\ offset # None /\ QuietOK(db, scan)
  BY DEF ListPage, QuietInv, ScanInv, EvaluationTypeOK
<1>2. db \in Table /\ IsFiniteSet(Stored(db))
  BY DEF QuietInv, ScanInv, TypeOK, TableOK
<1>3. PICK ids \in InOrder(db) :
        scan' = [scan EXCEPT !.page = Page(PageOf(db, ids), offset, PageSize),
                             !.offset = NextOffset(PageOf(db, ids), offset, PageSize)]
  BY DEF ListPage, PageOf
<1>4. offset \in Nat /\ scan.asked \in Seq(PolicyID \X PolicyType \X (Rego \cup {None}))
  BY <1>1 DEF Scan
<1>5. done \in Nat /\ Len(ids) \in Nat
  BY <1>2, <1>4, EnabledInOrder
<1>6. /\ offset = done /\ done <= Len(ids)
      /\ \A i \in 1 .. done :
           scan.asked[i] = <<ids[i], db[ids[i]].ptype, db[ids[i]].rego>>
  <2>1. CASE scan.asked = <<>> /\ offset = 0
    BY <1>5, <2>1
  <2>2. CASE ~(scan.asked = <<>> /\ offset = 0)
    <3>1. PICK others \in InOrder(db) :
            /\ done + Len(scan.page) <= Len(others)
            /\ \A i \in 1 .. done :
                 scan.asked[i] = <<others[i], db[others[i]].ptype, db[others[i]].rego>>
            /\ offset = IF done + Len(scan.page) < Len(others)
                        THEN done + Len(scan.page) ELSE None
      BY <1>1, <2>2 DEF QuietOK
    <3>2. others = ids
      BY <1>2, OneOrder
    <3>3. done + Len(scan.page) = done
      BY <1>1, <1>5
    <3> QED
      BY <1>1, <3>1, <3>2, <3>3
  <2> QED
    BY <2>1, <2>2
<1> DEFINE page == Page(PageOf(db, ids), offset, PageSize)
           next == NextOffset(PageOf(db, ids), offset, PageSize)
<1>7. /\ page \in Seq(PolicyID \X PolicyType)
      /\ \A k \in 1 .. Len(page) :
           /\ offset + k \in 1 .. Len(ids) /\ k <= PageSize
           /\ page[k] = <<ids[offset + k], db[ids[offset + k]].ptype>>
      /\ \A i \in 1 .. Len(ids) :
           offset < i /\ i <= offset + PageSize => i - offset \in 1 .. Len(page)
      /\ next = None => Len(ids) <= offset + PageSize
      /\ next # None => next = offset + PageSize /\ offset + PageSize < Len(ids)
  BY <1>2, <1>4, PageListed
<1>8. scan'.asked = scan.asked /\ scan'.page = page /\ scan'.offset = next
  BY <1>1, <1>3 DEF Scan
<1> HIDE DEF page, next
<1>9. Len(page) \in Nat /\ PageSize \in Nat \ {0}
  BY <1>7, PageAssumption
<1> HIDE DEF done, offset
<1>10. done + Len(page) <= Len(ids)
  <2>1. CASE Len(page) = 0
    BY <1>5, <1>6, <2>1
  <2>2. CASE Len(page) # 0
    <3>1. Len(page) \in 1 .. Len(page)
      BY <1>9, <2>2
    <3> QED
      BY <1>5, <1>6, <1>7, <1>9, <3>1
  <2> QED
    BY <2>1, <2>2
<1>11. next = IF done + Len(page) < Len(ids) THEN done + Len(page) ELSE None
  <2>1. CASE next = None
    <3>1. CASE done = Len(ids)
      BY <1>5, <1>9, <1>10, <2>1, <3>1
    <3>2. CASE done # Len(ids)
      <4>1. /\ Len(ids) \in 1 .. Len(ids) /\ offset < Len(ids)
            /\ Len(ids) <= offset + PageSize
        BY <1>4, <1>5, <1>6, <1>7, <2>1, <3>2
      <4>2. Len(ids) - offset \in 1 .. Len(page)
        BY <1>7, <4>1
      <4> QED
        BY <1>5, <1>6, <1>9, <2>1, <4>2
    <3> QED
      BY <3>1, <3>2
  <2>2. CASE next # None
    <3>1. next = offset + PageSize /\ offset + PageSize < Len(ids)
      BY <1>7, <2>2
    <3>2. PICK i \in 1 .. Len(ids) : i = offset + PageSize
      <4>1. offset + PageSize \in 1 .. Len(ids)
        BY <1>5, <1>6, <1>9, <3>1
      <4> QED
        BY <4>1
    <3>3. i - offset \in 1 .. Len(page)
      BY <1>5, <1>6, <1>7, <1>9, <3>2
    <3>4. Len(page) = PageSize
      <4>1. PageSize <= Len(page)
        BY <1>5, <1>6, <1>9, <3>2, <3>3
      <4>2. Len(page) \in 1 .. Len(page)
        BY <1>9, <4>1
      <4> QED
        BY <1>7, <1>9, <4>1, <4>2
    <3> QED
      BY <1>6, <3>1, <3>4
  <2> QED
    BY <2>1, <2>2
<1> QED
  <2>1. Len(scan'.asked) = done /\ Len(scan'.page) = Len(page)
    BY <1>8 DEF done
  <2>2. \A i \in 1 .. done :
          scan'.asked[i] = <<ids[i], db[ids[i]].ptype, db[ids[i]].rego>>
    BY <1>6, <1>8
  <2>3. \A i \in 1 .. Len(page) :
          scan'.page[i] = <<ids[done + i], db[ids[done + i]].ptype>>
    BY <1>6, <1>7, <1>8
  <2>4. scan'.offset = IF done + Len(page) < Len(ids) THEN done + Len(page) ELSE None
    BY <1>8, <1>11
  <2> QED
    BY <1>10, <2>1, <2>2, <2>3, <2>4, Zenon DEF QuietOK

LEMMA QuietAsking ==
  ASSUME QuietInv, AskNext, scan.quiet
  PROVE  QuietOK(db, scan')
<1> DEFINE done == Len(scan.asked)
           S == PolicyID \X PolicyType
           T == PolicyID \X PolicyType \X (Rego \cup {None})
           id == Head(scan.page)[1]
           ptype == Head(scan.page)[2]
           answer == <<id, ptype, queries[id]>>
           longer == Append(scan.asked, answer)
           rest == Tail(scan.page)
<1>1. /\ scan \in Scan /\ scan.page # <<>>
      /\ scan.page \in Seq(S) /\ scan.asked \in Seq(T)
      /\ Quiescent /\ QuietOK(db, scan)
  BY DEF AskNext, QuietInv, ScanInv, EvaluationTypeOK, Scan
<1>2. PICK ids \in InOrder(db) :
        /\ done + Len(scan.page) <= Len(ids)
        /\ \A i \in 1 .. done :
             scan.asked[i] = <<ids[i], db[ids[i]].ptype, db[ids[i]].rego>>
        /\ \A i \in 1 .. Len(scan.page) :
             scan.page[i] = <<ids[done + i], db[ids[done + i]].ptype>>
        /\ scan.offset = IF done + Len(scan.page) < Len(ids)
                         THEN done + Len(scan.page) ELSE None
  BY <1>1, Zenon DEF QuietOK
<1>3. db \in Table /\ IsFiniteSet(Stored(db))
  BY DEF QuietInv, ScanInv, TypeOK, TableOK
<1>4. ids \in [1 .. Len(ids) -> EnabledIDs(db)] /\ Len(ids) \in Nat
  BY <1>3, EnabledInOrder
<1>5. /\ Head(scan.page) \in S /\ rest \in Seq(S)
      /\ Len(scan.page) \in Nat \ {0} /\ Len(rest) = Len(scan.page) - 1
      /\ scan.page[1] = Head(scan.page)
      /\ \A i \in 1 .. Len(rest) :
           i + 1 \in 1 .. Len(scan.page) /\ rest[i] = scan.page[i + 1]
  BY <1>1, HeadAndTail
<1>6. done \in Nat
  BY <1>1
<1> HIDE DEF done
<1>7. scan' = [scan EXCEPT !.page = rest, !.asked = longer]
  BY DEF AskNext
<1>8. answer \in T
  BY <1>5 DEF QuietInv, ScanInv, TypeOK, ModuleMap
<1>9. answer = <<ids[done + 1], db[ids[done + 1]].ptype, db[ids[done + 1]].rego>>
  <2>1. Head(scan.page) = <<ids[done + 1], db[ids[done + 1]].ptype>>
    BY <1>2, <1>5
  <2>2. PICK k \in 1 .. Len(ids) : k = done + 1
    <3>1. done + Len(scan.page) <= Len(ids) /\ Len(ids) \in Nat /\ Len(scan.page) \in Nat \ {0}
      BY <1>2, <1>4, <1>5
    <3>2. done + 1 \in 1 .. Len(ids)
      BY <1>6, <3>1
    <3> QED
      BY <3>2
  <2>3. ids[k] \in EnabledIDs(db)
    BY <1>4
  <2>4. ids[k] \in PolicyID /\ db[ids[k]] # None
    BY <2>3 DEF EnabledIDs, Where
  <2>5. Settled = db /\ up
    BY <1>1, <1>3, SettledIdle DEF Quiescent, AfterWrite
  <2>6. queries[ids[k]] = db[ids[k]].rego
    BY <2>4, <2>5 DEF QuietInv, Held
  <2> QED
    BY <2>1, <2>2, <2>6
<1> HIDE DEF answer, rest, S, T
<1>10. /\ longer \in Seq(T) /\ Len(longer) = done + 1
       /\ \A i \in 1 .. done : longer[i] = scan.asked[i]
       /\ longer[Len(longer)] = answer
  BY <1>1, <1>8, Appended DEF done
<1> HIDE DEF longer
<1>11. scan'.asked = longer /\ scan'.page = rest /\ scan'.offset = scan.offset
  BY <1>1, <1>7 DEF Scan
<1>12. Len(scan'.asked) = done + 1 /\ Len(scan'.page) = Len(rest)
       /\ done + 1 + Len(rest) = done + Len(scan.page)
  <2>1. Len(scan'.asked) = done + 1 /\ Len(scan'.page) = Len(rest)
    BY <1>10, <1>11
  <2>2. done + 1 + Len(rest) = done + Len(scan.page)
    <3>1. Len(scan.page) \in Nat /\ Len(rest) = Len(scan.page) - 1
      BY <1>5
    <3>2. \A n \in Nat : done + 1 + (n - 1) = done + n
      BY <1>6
    <3> QED
      BY <3>1, <3>2
  <2> QED
    BY <2>1, <2>2
<1>13. ASSUME NEW i \in 1 .. done + 1
       PROVE  scan'.asked[i] = <<ids[i], db[ids[i]].ptype, db[ids[i]].rego>>
  <2>1. CASE i = done + 1
    BY <1>9, <1>10, <1>11, <2>1
  <2>2. CASE i # done + 1
    <3>1. i \in 1 .. done
      BY <1>6, <2>2
    <3> QED
      BY <1>2, <1>10, <1>11, <3>1
  <2> QED
    BY <2>1, <2>2
<1>14. ASSUME NEW i \in 1 .. Len(rest)
       PROVE  scan'.page[i] = <<ids[done + 1 + i], db[ids[done + 1 + i]].ptype>>
  <2>1. i + 1 \in 1 .. Len(scan.page) /\ rest[i] = scan.page[i + 1]
    BY <1>5
  <2>2. done + (i + 1) = done + 1 + i
    BY <1>5, <1>6
  <2>3. scan.page[i + 1] = <<ids[done + (i + 1)], db[ids[done + (i + 1)]].ptype>>
    BY <1>2, <2>1
  <2> QED
    BY <1>11, <2>1, <2>2, <2>3
<1>15. done + 1 + Len(rest) <= Len(ids)
       /\ scan'.offset = IF done + 1 + Len(rest) < Len(ids) THEN done + 1 + Len(rest) ELSE None
  BY <1>2, <1>11, <1>12
<1> QED
  BY <1>12, <1>13, <1>14, <1>15, Zenon DEF QuietOK

(* With no request in flight before and after it a step changes no row. *)
LEMMA QuietStep ==
  ASSUME Quiescent, Next, \A p \in Request : pc'[p] = "idle"
  PROVE  db' = db
<1>1. ASSUME NEW p \in Request, Step(p)
      PROVE  FALSE
  BY <1>1 DEF Quiescent, Step, Insert, Read, Write, Remove, Classify, List, Recompile,
              Rollback, StoreError, LoseAnswer, Calls
<1>2. ASSUME NEW p \in Request, Arrival(p) \/ Cancel(p)
      PROVE  db' = db
  BY <1>2 DEF Arrival, BeginCreate, BeginUpdate, BeginDelete, Begin, Refuse, Cancel
<1> QED
  BY <1>1, <1>2 DEF Next, Start, Crash

LEMMA QuietKept ==
  ASSUME QuietInv, [EvaluationNext]_evaluationVars, scan' # None, scan'.quiet
  PROVE  Quiescent' /\ QuietOK(db', scan')
<1>1. CASE BeginEvaluation
  <2>1. scan' = [page |-> <<>>, offset |-> 0, asked |-> <<>>,
                 quiet |-> Quiescent, kept |-> TRUE, steady |-> EnabledIDs(db)]
    BY <1>1 DEF BeginEvaluation
  <2>2. scan'.page = <<>> /\ scan'.offset = 0 /\ scan'.asked = <<>> /\ scan'.quiet = Quiescent
    BY <2>1
  <2>3. Quiescent'
    BY <1>1, <2>2 DEF BeginEvaluation, vars, Quiescent
  <2> QED
    BY <2>2, <2>3 DEF QuietOK
<1>2. CASE ListPage \/ AskNext
  <2>1. scan \in Scan /\ UNCHANGED vars
    BY <1>2 DEF ListPage, AskNext, QuietInv, ScanInv, EvaluationTypeOK
  <2>2. scan'.quiet = scan.quiet
    BY <1>2, <2>1 DEF ListPage, AskNext, Scan
  <2>3. Quiescent /\ UNCHANGED <<db, up, pc>>
    BY <1>2, <2>1, <2>2 DEF QuietInv, vars, ListPage, AskNext
  <2>4. Quiescent'
    BY <2>3 DEF Quiescent
  <2>5. QuietOK(db, scan')
    BY <1>2, <2>2, QuietListing, QuietAsking
  <2> QED
    BY <2>3, <2>4, <2>5
<1>3. CASE ServiceStep
  <2>1. scan \in Scan /\ up'
    BY <1>3 DEF ServiceStep, QuietInv, ScanInv, EvaluationTypeOK
  <2>2. /\ scan'.quiet = (scan.quiet /\ \A p \in Request : pc'[p] = "idle")
        /\ scan'.page = scan.page /\ scan'.offset = scan.offset /\ scan'.asked = scan.asked
    BY <1>3, <2>1 DEF ServiceStep, Scan
  <2>3. scan.quiet /\ \A p \in Request : pc'[p] = "idle"
    BY <2>2
  <2>4. Quiescent /\ QuietOK(db, scan)
    BY <1>3, <2>1, <2>3 DEF ServiceStep, QuietInv
  <2>5. db' = db /\ Quiescent'
    BY <1>3, <2>1, <2>3, <2>4, QuietStep DEF ServiceStep, Quiescent
  <2>6. QuietOK(db, scan')
    BY <2>2, <2>4 DEF QuietOK
  <2> QED
    BY <2>5, <2>6
<1>4. CASE EndEvaluation \/ StopEvaluation
  BY <1>4 DEF EndEvaluation, StopEvaluation
<1>5. CASE UNCHANGED evaluationVars
  BY <1>5 DEF evaluationVars, vars, QuietInv, Quiescent
<1> QED
  BY <1>1, <1>2, <1>3, <1>4, <1>5 DEF EvaluationNext, EvaluationStep

LEMMA QuietInvariant ==
  ASSUME OneFaultlessClient
  PROVE  EvaluationSpec => []QuietInv
<1>1. EvaluationInit /\ ScanInv => QuietInv
  <2> SUFFICES ASSUME EvaluationInit, ScanInv PROVE QuietInv
    OBVIOUS
  <2>1. SequentialInv
    BY InitSequential DEF EvaluationInit
  <2> QED
    BY <2>1 DEF EvaluationInit, Init, QuietInv
<1>2. ScanInv' /\ QuietInv /\ [EvaluationNext]_evaluationVars => QuietInv'
  <2> SUFFICES ASSUME ScanInv', QuietInv, [EvaluationNext]_evaluationVars
               PROVE  QuietInv'
    OBVIOUS
  <2>1. [Next]_vars
    BY DEF EvaluationNext, EvaluationStep, evaluationVars, BeginEvaluation, ListPage,
           AskNext, EndEvaluation, StopEvaluation, ServiceStep
  <2>2. TypeOK /\ JobsOK /\ TypeOK' /\ SequentialInv
    BY DEF QuietInv, ScanInv
  <2>3. SequentialInv' /\ [Registry!RegistryNext]_<<Settled, queries, up>>
    BY <2>1, <2>2, NextPromised DEF Promised
  <2>4. up' => Held(Settled)'
    BY <2>3, RegistryKeepsHeld DEF QuietInv
  <2>5. scan' # None /\ scan'.quiet => Quiescent' /\ QuietOK(db', scan')
    BY QuietKept
  <2> QED
    BY <2>3, <2>4, <2>5 DEF QuietInv
<1> QED
  BY <1>1, <1>2, ScanInvariant, PTL DEF EvaluationSpec

(* Between the mutations of one faultless client an evaluation asks every
   enabled policy once, in order, with the stored Rego: for any policies, any
   page size, and any crashes and refusals before it. *)
THEOREM QuietEvaluationsAreExact ==
  ASSUME OneFaultlessClient
  PROVE  EvaluationSpec => []QuietEvaluationIsExact
<1>1. QuietInv => QuietEvaluationIsExact
  <2> SUFFICES ASSUME QuietInv, Done, scan.quiet
               PROVE  \E ids \in InOrder(db) :
                        scan.asked = [i \in DOMAIN ids |->
                                        <<ids[i], db[ids[i]].ptype, db[ids[i]].rego>>]
    BY DEF QuietEvaluationIsExact
  <2>1. /\ scan # None /\ scan.page = <<>> /\ scan.offset = None /\ QuietOK(db, scan)
        /\ scan.asked \in Seq(PolicyID \X PolicyType \X (Rego \cup {None}))
    BY DEF Done, QuietInv, ScanInv, EvaluationTypeOK, Scan
  <2>2. None \notin Int
    BY NilAssumption
  <2> DEFINE done == Len(scan.asked)
  <2>3. done \in Nat /\ done + Len(scan.page) = done /\ DOMAIN scan.asked = 1 .. done
    BY <2>1
  <2>4. PICK ids \in InOrder(db) :
          /\ done + Len(scan.page) <= Len(ids)
          /\ \A i \in 1 .. done :
               scan.asked[i] = <<ids[i], db[ids[i]].ptype, db[ids[i]].rego>>
          /\ scan.offset = IF done + Len(scan.page) < Len(ids)
                           THEN done + Len(scan.page) ELSE None
    <3>1. scan.offset # 0
      BY <2>1, <2>2
    <3> QED
      BY <2>1, <3>1, Zenon DEF QuietOK
  <2>5. Len(ids) \in Nat /\ DOMAIN ids = 1 .. Len(ids)
    <3>1. db \in Table /\ IsFiniteSet(Stored(db))
      BY DEF QuietInv, ScanInv, TypeOK, TableOK
    <3>2. ids \in [1 .. Len(ids) -> EnabledIDs(db)] /\ Len(ids) \in Nat
      BY <3>1, EnabledInOrder
    <3> QED
      BY <3>2
  <2>6. done = Len(ids)
    BY <2>1, <2>2, <2>3, <2>4, <2>5
  <2> HIDE DEF done
  <2>7. scan.asked = [i \in 1 .. done |-> scan.asked[i]]
    BY <2>1, <2>3
  <2> QED
    BY <2>4, <2>5, <2>6, <2>7
<1> QED
  BY <1>1, QuietInvariant, PTL

=============================================================================
