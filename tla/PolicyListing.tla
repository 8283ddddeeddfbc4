--------------------------- MODULE PolicyListing ---------------------------
(***************************************************************************)
(* Listing policies: the filter and order_by a client writes               *)
(* (internal/service/filter.go, orderby.go), the limits on a page          *)
(* (getListOptions) and the query PolicyStore.List makes of them.          *)
(*                                                                         *)
(* A filter expression is its clauses and the words between them; order_by *)
(* is its comma-separated parts, each a sequence of words.                 *)
(***************************************************************************)
EXTENDS PolicyStore, Sequences, FiniteSets, Functions

CONSTANT
  Rank  \* the position of each string in the database's order of strings

(* The order is total on the values of each column. *)
ASSUME RankAssumption ==
  /\ Rank \in [PolicyID \cup DisplayName \cup {Blank} \cup PolicyType -> Nat]
  /\ \A column \in {PolicyID, DisplayName \cup {Blank}, PolicyType} :
       \A s, t \in column : Rank[s] = Rank[t] => s = t

-----------------------------------------------------------------------------
(* parseFilter *)

(* A clause is other unless one of the two regular expressions matches it. *)
Clause == [field: {"policy_type"}, value: {"GLOBAL", "USER"}]
            \cup [field: {"enabled"}, value: {"true", "false"}]
            \cup [field: {"other"}, value: {""}]

(* nil is none of the values a field may have. *)
ASSUME NilAssumption ==
  None \notin Int /\ None \notin BOOLEAN /\ \A c \in Clause : c.value # None

Expr == [clauses: Seq(Clause), ops: Seq({"AND", "OR"})]

Filter == [ptype: PolicyType \cup {None}, enabled: BOOLEAN \cup {None}]

NoFilter == [ptype |-> None, enabled |-> None]

(* FindStringSubmatch: the first clause on a field, wherever it stands. *)
FirstOn(field, clauses) ==
  LET on == {i \in DOMAIN clauses : clauses[i].field = field}
  IN IF on = {} THEN None
     ELSE clauses[CHOOSE i \in on : \A j \in on : i <= j].value

ParsedFilter(expr) ==
  LET enabled == FirstOn("enabled", expr.clauses)
  IN [ptype |-> FirstOn("policy_type", expr.clauses),
      enabled |-> IF enabled = None THEN None ELSE enabled = "true"]

(* Something was found, and there is at most one AND. *)
FilterAccepted(expr) ==
  \/ expr.clauses = <<>>
  \/ /\ ParsedFilter(expr) # NoFilter
     /\ Cardinality({i \in DOMAIN expr.ops : expr.ops[i] = "AND"}) <= 1

-----------------------------------------------------------------------------
(* parseOrderBy *)

Ascending(field) == [field |-> field, desc |-> FALSE]

DefaultOrderBy ==
  <<Ascending("policy_type"), Ascending("priority"), Ascending("id")>>

SupportedOrderByFields == {"priority", "display_name", "create_time"}

PartAccepted(part) ==
  part # <<>> =>
    /\ part[1] \in SupportedOrderByFields
    /\ Len(part) > 1 => part[2] \in {"asc", "desc"}
    /\ Len(part) <= 2

OrderByAccepted(parts) == \A i \in DOMAIN parts : PartAccepted(parts[i])

(* Empty parts are passed over; no part at all is the default.  The terms
   keep the place of their part: a gap between two of them means nothing. *)
ParsedOrderBy(parts) ==
  LET given == {i \in DOMAIN parts : parts[i] # <<>>}
  IN IF given = {}
     THEN DefaultOrderBy
     ELSE [i \in given |->
             [field |-> parts[i][1],
              desc |-> Len(parts[i]) = 2 /\ parts[i][2] = "desc"]]

-----------------------------------------------------------------------------
(* max_page_size *)

DefaultPageSize == 50

PageSizeAccepted(size) == size = None \/ size \in 1 .. 1000

PageSizeOf(size) == IF size = None THEN DefaultPageSize ELSE size

-----------------------------------------------------------------------------
(* PolicyStore.List.  older orders the stored ids by the column create_time. *)

Where(table, filter) ==
  {id \in PolicyID :
     /\ table[id] # None
     /\ filter.ptype \in {None, table[id].ptype}
     /\ filter.enabled \in {None, table[id].enabled}}

Key(table, id, field) ==
  CASE field = "policy_type" -> Rank[table[id].ptype]
    [] field = "priority" -> table[id].prio
    [] field = "display_name" -> Rank[table[id].name]
    [] field = "id" -> Rank[id]

Before(table, older, field, a, b) ==
  IF field = "create_time"
  THEN <<a, b>> \in older
  ELSE Key(table, a, field) < Key(table, b, field)

Tied(table, older, field, a, b) ==
  ~Before(table, older, field, a, b) /\ ~Before(table, older, field, b, a)

(* ORDER BY: the first term that tells a and b apart decides. *)
Precedes(table, older, terms, a, b) ==
  \E i \in DOMAIN terms :
    /\ \A j \in DOMAIN terms : j < i => Tied(table, older, terms[j].field, a, b)
    /\ IF terms[i].desc
       THEN Before(table, older, terms[i].field, b, a)
       ELSE Before(table, older, terms[i].field, a, b)

(* The answers SQL allows: rows the terms do not tell apart come in any
   order, and not in the same one for every query. *)
Results(table, older, filter, terms) ==
  LET rows == Where(table, filter)
  IN {list \in Bijection(1 .. Cardinality(rows), rows) :
        \A i, j \in DOMAIN list :
          i < j => ~Precedes(table, older, terms, list[j], list[i])}

Least(m, n) == IF m < n THEN m ELSE n

(* Fault: the row that only tells of a next page is not trimmed. *)
PageUntrimmed(rows, offset, size) ==
  SubSeq(rows, offset + 1, Least(offset + size + 1, Len(rows)))

Page(rows, offset, size) ==
  SubSeq(rows, offset + 1, Least(offset + size, Len(rows)))

(* Fault: a full page is taken for the last one. *)
NoNextOffset(rows, offset, size) == None

(* Fault: the next page starts behind the row that told of it. *)
NextOffsetAfterExtra(rows, offset, size) ==
  IF Len(rows) > offset + size THEN offset + size + 1 ELSE None

(* Fault: the token holds the offset it was made from. *)
SameOffset(rows, offset, size) ==
  IF Len(rows) > offset + size THEN offset ELSE None

(* NextPageToken, an encoded offset, which one row more than the page tells
   to be needed. *)
NextOffset(rows, offset, size) ==
  IF Len(rows) > offset + size THEN offset + size ELSE None

=============================================================================
