----------------------------- MODULE PageQuery -----------------------------
(***************************************************************************)
(* What tc_query_spec! generates for a model (query_spec.rs, query.rs): a  *)
(* request of optional filters, orders, page and size, and its methods     *)
(* fetch_page, all and count.                                              *)
(*                                                                         *)
(* fetch_page counts and then selects, in two statements of which nothing  *)
(* makes one: rows may come and go in between.  Rows that the order does   *)
(* not tell apart are returned in any order, which may differ each time.   *)
(* A client either makes one call or walks through all pages; calls share  *)
(* nothing but the table, so one is modelled.                              *)
(***************************************************************************)
EXTENDS Naturals, Sequences, FiniteSets

CONSTANTS
    Rows,           \* rows the table may hold: [id, a], id being the key
    Specs,          \* query specifications as they are written
    Requests,       \* [filters, orders, sort, page, size]
    MaxU64,         \* bound: the largest u64
    MaxUsize,       \* bound: the largest usize
    MaxWrites       \* bound: rows inserted or deleted by others

\* Keys and columns are of fixed width.
ASSUME RowsAssumption == Rows \subseteq [id: Nat, a: Nat] /\ IsFiniteSet(Rows)
\* The sort fields of a specification are fields of its model.
ASSUME SpecsAssumption ==
    \A s \in Specs :
        /\ s.sorts \subseteq {"id", "a"}
        /\ s.default \in Seq([field : STRING, dir : {"Asc", "Desc"}])
        /\ s.tie \in Seq([field : STRING, dir : {"Asc", "Desc"}]) /\ Len(s.tie) <= 1
        /\ s.max \in Nat
ASSUME WidthAssumption == MaxU64 \in Nat /\ MaxUsize \in 0..MaxU64
\* A request is built by the application or comes over the wire.
ASSUME RequestsAssumption ==
    \A r \in Requests :
        /\ DOMAIN r = {"filters", "orders", "sort", "page", "size"}
        /\ r.orders \in Seq([field : STRING, dir : {"Asc", "Desc"}])
        /\ r.sort \in Seq([field : STRING, dir : {"Asc", "Desc"}])
        /\ r.orders = <<>> \/ r.sort = <<>>
        /\ Len(r.sort) <= 1
        /\ r.page \in 0..MaxU64 /\ r.size \in 0..MaxU64
ASSUME WritesAssumption == MaxWrites \in Nat

VARIABLES
    spec,           \* the specification that was compiled
    table,          \* the rows
    writes,         \* changes by others so far
    pc,
    call,           \* the method called, and whether it is a step of a walk
    request,
    offset,         \* of the page that was asked for
    total,          \* what the count returned
    quiet,          \* no row changed since the call, or the walk, began
    answer,         \* [is, items, total, pages]
    walked          \* the items of the pages of the walk so far

vars == <<spec, table, writes, pc, call, request, offset, total, quiet, answer, walked>>

NoAnswer == [is |-> "none", items |-> <<>>, total |-> 0, pages |-> 0]
Refusal(error) == [NoAnswer EXCEPT !.is = error]
Methods == {"fetch_page", "walk", "all", "count"}

-----------------------------------------------------------------------------
(* The specification: [filters, sorts, default, tie, size, max].  filters is  *)
(* a function from request fields to [field, op]; default and tie are         *)
(* sequences of orders [field, dir], tie of at most one.                      *)

\* Mutant: a default order may repeat a field.
ValidWithRepeats(s) ==
    /\ \A i \in DOMAIN s.default : s.default[i].field \in s.sorts
    /\ \A i \in DOMAIN s.tie : s.tie[i].field \in s.sorts
    /\ 0 < s.size /\ s.size <= s.max

\* What validate and the assertions on the page block let through.
Valid(s) ==
    /\ \A i, j \in DOMAIN s.default : s.default[i].field = s.default[j].field => i = j
    /\ \A i \in DOMAIN s.default : s.default[i].field \in s.sorts
    /\ \A i \in DOMAIN s.tie : s.tie[i].field \in s.sorts
    /\ DOMAIN s.filters \cap {"filter", "extra_filters", "orders", "sort", "descending", "page", "size"} = {}
    /\ 0 < s.size /\ s.size <= s.max

\* into_parts: the filters that are given, all of them.
Holds(op, x, value) ==
    CASE op = "eq" -> x = value
      [] op = "ne" -> x # value
      [] op = "gt" -> x > value
      [] op = "ge" -> x >= value
      [] op = "lt" -> x < value
      [] op = "le" -> x <= value
      [] op = "between" -> value[1] <= x /\ x <= value[2]
      [] op = "in_list" -> \E i \in DOMAIN value : value[i] = x

Matching ==
    {r \in table : \A f \in DOMAIN request.filters :
                      Holds(spec.filters[f].op, r[spec.filters[f].field], request.filters[f])}

-----------------------------------------------------------------------------
(* apply_orders.                                                             *)

\* into_parts: a request from the wire has no orders, but may have a sort.
Given == request.orders \o request.sort
Repeats(orders) == \E i, j \in DOMAIN orders : i # j /\ orders[i].field = orders[j].field
Chosen == IF Given = <<>> THEN spec.default ELSE Given

\* Mutant: the tie breaker is left out.
OrdersUntied == Chosen

\* The tie breaker comes last, unless its field is sorted by already.
SortedBy(field) == \E i \in DOMAIN Chosen : Chosen[i].field = field
Orders ==
    IF \A i \in DOMAIN spec.tie : ~SortedBy(spec.tie[i].field) THEN Chosen \o spec.tie ELSE Chosen

\* External: the database's ORDER BY.
Before(x, y, orders) ==
    \E k \in DOMAIN orders :
        /\ \A l \in 1..(k - 1) : x[orders[l].field] = y[orders[l].field]
        /\ LET f == orders[k].field IN
           IF orders[k].dir = "Asc" THEN x[f] < y[f] ELSE x[f] > y[f]
Listings(rows, orders) ==
    {s \in [1..Cardinality(rows) -> rows] :
        /\ \A r \in rows : \E i \in DOMAIN s : s[i] = r
        /\ \A i, j \in DOMAIN s : i < j => ~Before(s[j], s[i], orders)}

-----------------------------------------------------------------------------
(* The arithmetic of pages.                                                  *)

\* Mutant: the product wraps around.
OffsetWrapped(page, size) == ((page - 1) * size) % (MaxU64 + 1)

Offset(page, size) == (page - 1) * size

\* checked_mul, then usize::try_from.
Overflows(page, size) == Offset(page, size) > MaxU64 \/ Offset(page, size) > MaxUsize

TotalPages(count, size) == IF count = 0 THEN 0 ELSE (count - 1) \div size + 1

\* External: LIMIT size OFFSET offset.
Slice(listing, skip, size) ==
    SubSeq(listing, skip + 1, IF skip + size < Len(listing) THEN skip + size ELSE Len(listing))

-----------------------------------------------------------------------------
Answer(a) == answer' = a /\ pc' = "done"
Keep == UNCHANGED <<spec, table, writes>>

\* A method is called with a request; a walk begins with its first page.
Call ==
    /\ pc = "idle"
    /\ \E m \in Methods, r \in Requests :
          /\ DOMAIN r.filters \subseteq DOMAIN spec.filters
          /\ \A order \in {r.orders[i] : i \in DOMAIN r.orders} \cup {r.sort[i] : i \in DOMAIN r.sort} :
                order.field \in spec.sorts
          /\ call' = m
          /\ request' = IF m = "walk" THEN [r EXCEPT !.page = 1] ELSE r
          /\ pc' = CASE m \in {"fetch_page", "walk"} -> "validate" [] m = "all" -> "order" [] OTHER -> "count"
    /\ answer' = NoAnswer /\ walked' = <<>> /\ quiet' = TRUE /\ total' = 0 /\ offset' = 0
    /\ Keep

\* validated_paging, the size as a usize, and the offset.
Validate ==
    /\ pc = "validate"
    /\ CASE request.page = 0 -> Answer(Refusal("page_number"))
         [] request.page > 0 /\ request.size \notin 1..spec.max -> Answer(Refusal("page_size"))
         [] OTHER ->
              IF request.size > MaxUsize \/ Overflows(request.page, request.size)
              THEN Answer(Refusal("overflow"))
              ELSE pc' = "count" /\ UNCHANGED answer
    /\ offset' = IF pc' = "count" THEN Offset(request.page, request.size) ELSE offset
    /\ UNCHANGED <<call, request, total, quiet, walked>> /\ Keep

\* The count: the answer of count, for fetch_page the total.
Count ==
    /\ pc = "count"
    /\ total' = Cardinality(Matching)
    /\ IF call = "count" THEN Answer([NoAnswer EXCEPT !.is = "ok", !.total = total'])
       ELSE pc' = "order" /\ UNCHANGED answer
    /\ UNCHANGED <<call, request, offset, quiet, walked>> /\ Keep

\* apply_orders refuses a field that is sorted by twice, after the count.
Order ==
    /\ pc = "order"
    /\ IF Repeats(Chosen) THEN Answer(Refusal("duplicate_sort"))
       ELSE pc' = "select" /\ UNCHANGED answer
    /\ UNCHANGED <<call, request, offset, total, quiet, walked>> /\ Keep

\* The rows, all of them or the page's.  A walk goes on to the next page.
Select ==
    LET pages == TotalPages(total, request.size)
        more == call = "walk" /\ request.page < pages
    IN
    /\ pc = "select"
    /\ \E listing \in Listings(Matching, Orders) :
          LET items == IF call = "all" THEN listing
                       ELSE Slice(listing, offset, request.size)
          IN  /\ answer' = [is |-> IF more THEN "page" ELSE "ok", items |-> items, total |-> total,
                            pages |-> IF call = "all" THEN 0 ELSE pages]
              /\ walked' = walked \o items
    /\ pc' = IF more THEN "validate" ELSE "done"
    /\ request' = IF more THEN [request EXCEPT !.page = @ + 1] ELSE request
    /\ UNCHANGED <<call, offset, total, quiet>> /\ Keep

\* A statement fails.
Fail ==
    /\ pc \in {"count", "select"}
    /\ Answer(Refusal("error"))
    /\ UNCHANGED <<call, request, offset, total, quiet, walked>> /\ Keep

\* Others insert, delete or replace a row.
Write ==
    /\ pc # "done" /\ writes < MaxWrites /\ writes' = writes + 1
    /\ \E r \in Rows :
          table' = IF r \in table THEN table \ {r} ELSE {s \in table : s.id # r.id} \cup {r}
    /\ quiet' = FALSE
    /\ UNCHANGED <<spec, pc, call, request, offset, total, answer, walked>>

Init ==
    /\ spec \in {s \in Specs : Valid(s)}
    /\ table \in {t \in SUBSET Rows : \A r, s \in t : r.id = s.id => r = s}
    /\ writes = 0
    /\ pc = "idle"
    /\ call = "none"
    /\ request = [filters |-> <<>>, orders |-> <<>>, sort |-> <<>>, page |-> 1, size |-> 1]
    /\ offset = 0
    /\ total = 0
    /\ quiet = TRUE
    /\ answer = NoAnswer
    /\ walked = <<>>

Next == Call \/ Validate \/ Count \/ Order \/ Select \/ Fail \/ Write

Spec == Init /\ [][Next]_vars

-----------------------------------------------------------------------------
(* Properties.                                                               *)

ByKey(orders) == \E i \in DOMAIN orders : orders[i].field = "id"

\* A walk through all pages, of rows nobody changes meanwhile, returns each row that
\* matches once and in order, if the key is in the order or breaks the ties: the pages
\* are cut from listings the database is free to make anew for each.
WalkIsExact ==
    /\ pc = "done" /\ call = "walk" /\ answer.is = "ok" /\ quiet
    /\ ByKey(Chosen) \/ ByKey(spec.tie)
    => /\ Len(walked) = Cardinality(Matching)
       /\ {walked[i] : i \in DOMAIN walked} = Matching
       /\ \A i, j \in DOMAIN walked : i < j => ~Before(walked[j], walked[i], Chosen)

\* The page that is asked for: as many rows as the total says it has, none behind the
\* last page, however large page and size are.
PageIsAsAnnounced ==
    answer.is = "ok" /\ call = "fetch_page" /\ quiet =>
        /\ Len(answer.items) =
              IF request.page < answer.pages THEN request.size
              ELSE IF request.page > answer.pages THEN 0
              ELSE answer.total - (answer.pages - 1) * request.size
        /\ \A i, j \in DOMAIN answer.items : i < j => answer.items[i] # answer.items[j]

\* A specification that compiles has an order of its own that works: only a request
\* that repeats a field itself is refused.
DefaultsWork ==
    answer.is = "duplicate_sort" => \E i, j \in DOMAIN request.orders :
        i # j /\ request.orders[i].field = request.orders[j].field
=============================================================================
