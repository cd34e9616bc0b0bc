--------------------------- MODULE PageQueryProofs ---------------------------
(***************************************************************************)
(* Proofs about generated queries: the pages of a list have each row once, *)
(* whatever its length and the size of a page; no specification that       *)
(* compiles has an order of its own that is refused when it runs; a walk   *)
(* over unchanged rows is exact, since an order with the key leaves the    *)
(* database one listing only (ListingIsUnique).                            *)
(***************************************************************************)
EXTENDS PageQuery, SequenceTheorems, FunctionTheorems, FiniteSetTheorems, WellFoundedInduction, TLAPS

-----------------------------------------------------------------------------
(* The arithmetic of pages                                                   *)

LEMMA Division ==
  ASSUME NEW n \in Nat, NEW d \in Nat \ {0}
  PROVE  n \div d \in Nat /\ (n \div d) * d <= n /\ n < (n \div d) * d + d
  BY SMT

LEMMA Products ==
  ASSUME NEW a \in Nat, NEW b \in Nat, NEW d \in Nat \ {0}, a * d < b * d + d
  PROVE  a <= b
  BY SMT

OnPage(row, page, size) == Offset(page, size) < row /\ row <= Offset(page, size) + size

\* Each row of a result of "count" rows is on one of the announced pages, and on no
\* other page (fetch_page: offset, limit and total_pages).
THEOREM EveryRowIsOnOnePage ==
  ASSUME NEW count \in Nat, NEW size \in Nat \ {0}, NEW row \in 1..count
  PROVE  /\ \E page \in 1..TotalPages(count, size) : OnPage(row, page, size)
         /\ \A p, q \in Nat \ {0} : OnPage(row, p, size) /\ OnPage(row, q, size) => p = q
  <1> DEFINE k == (row - 1) \div size
             last == (count - 1) \div size
  <1>1. row - 1 \in Nat /\ count - 1 \in Nat /\ row - 1 <= count - 1 /\ count # 0
    OBVIOUS
  <1>2. k \in Nat /\ k * size <= row - 1 /\ row - 1 < k * size + size
    BY <1>1, Division
  <1>3. last \in Nat /\ last * size <= count - 1 /\ count - 1 < last * size + size
    BY <1>1, Division
  <1> HIDE DEF k
  <1>4. TotalPages(count, size) = last + 1
    BY <1>1 DEF TotalPages
  <1> HIDE DEF last
  <1>5. k <= last
    <2>1. k * size \in Nat /\ last * size \in Nat
      BY <1>2, <1>3
    <2>2. k * size < last * size + size
      BY <1>1, <1>2, <1>3, <2>1
    <2> QED BY <1>2, <1>3, <2>2, Products
  <1>6. OnPage(row, k + 1, size)
    <2>1. Offset(k + 1, size) = k * size
      BY <1>2 DEF Offset
    <2>2. k * size \in Nat
      BY <1>2
    <2> QED BY <1>1, <1>2, <2>1, <2>2 DEF OnPage
  <1>7. ASSUME NEW p \in Nat \ {0}, NEW q \in Nat \ {0}, OnPage(row, p, size), OnPage(row, q, size)
        PROVE  p <= q
    <2>1. p - 1 \in Nat /\ q - 1 \in Nat
      OBVIOUS
    <2>2. (p - 1) * size \in Nat /\ (q - 1) * size \in Nat
      BY <2>1
    <2>3. (p - 1) * size < (q - 1) * size + size
      BY <1>7, <2>2 DEF OnPage, Offset
    <2>4. p - 1 <= q - 1
      BY <2>1, <2>3, Products
    <2> QED BY <2>4
  <1>8. \A p, q \in Nat \ {0} : OnPage(row, p, size) /\ OnPage(row, q, size) => p = q
    <2> SUFFICES ASSUME NEW p \in Nat \ {0}, NEW q \in Nat \ {0}, OnPage(row, p, size), OnPage(row, q, size)
                 PROVE  p = q
      OBVIOUS
    <2>1. p <= q /\ q <= p
      BY <1>7
    <2> QED BY <2>1
  <1> QED BY <1>2, <1>3, <1>4, <1>5, <1>6, <1>8

-----------------------------------------------------------------------------
(* Orders                                                                    *)

OrderSeq == Seq([field : STRING, dir : {"Asc", "Desc"}])
RequestOK ==
    /\ DOMAIN request = {"filters", "orders", "sort", "page", "size"}
    /\ request.orders \in OrderSeq /\ request.sort \in OrderSeq
    /\ request.orders = <<>> \/ request.sort = <<>>
    /\ Len(request.sort) <= 1

\* The specification stays the valid one that was compiled.
IInv == Valid(spec) /\ RequestOK /\ DefaultsWork

LEMMA OneSort ==
  ASSUME RequestOK
  PROVE  Given = request.orders \/ (Given = request.sort /\ Len(Given) <= 1)
  <1>1. CASE request.orders = <<>>
    <2>1. Given = request.sort
      BY <1>1 DEF RequestOK, Given, OrderSeq
    <2>2. Len(Given) <= 1
      BY <2>1 DEF RequestOK
    <2> QED BY <2>1, <2>2
  <1>2. CASE request.sort = <<>>
    <2>1. Given = request.orders
      BY <1>2 DEF RequestOK, Given, OrderSeq
    <2> QED BY <2>1
  <1> QED BY <1>1, <1>2 DEF RequestOK

\* What repeats a field is neither the default order nor the sort of a wire request.
LEMMA RepeatsAreGiven ==
  ASSUME IInv, Repeats(Chosen)
  PROVE  Repeats(request.orders)
  <1>1. ~Repeats(spec.default)
    BY DEF IInv, Valid, Repeats
  <1>2. Chosen = Given
    BY <1>1 DEF Chosen
  <1>3. ASSUME Given = request.sort, Len(Given) <= 1
        PROVE  ~Repeats(Given)
    <2>1. Given \in OrderSeq
      BY <1>3 DEF IInv, RequestOK
    <2>2. DOMAIN Given = 1..Len(Given) /\ Len(Given) \in Nat
      BY <2>1 DEF OrderSeq
    <2> QED BY <1>3, <2>2 DEF Repeats
  <1> QED BY <1>2, <1>3, OneSort DEF IInv

LEMMA AnswerKeeps ==
  ASSUME IInv, UNCHANGED spec, RequestOK', answer'.is # "duplicate_sort"
  PROVE  IInv'
  BY DEF IInv, Valid, DefaultsWork

LEMMA NothingKeeps ==
  ASSUME IInv, UNCHANGED <<spec, request, answer>>
  PROVE  IInv'
  BY DEF IInv, Valid, RequestOK, DefaultsWork

LEMMA NextIInv == IInv /\ [Next]_vars => IInv'
  <1> SUFFICES ASSUME IInv, [Next]_vars PROVE IInv'
    OBVIOUS
  <1>0. UNCHANGED request => RequestOK'
    BY DEF IInv, RequestOK
  <1>1. CASE Call
    <2>1. UNCHANGED spec /\ answer'.is # "duplicate_sort"
      BY <1>1 DEF Call, Keep, NoAnswer
    <2>2. PICK r \in Requests : request' = r \/ request' = [r EXCEPT !.page = 1]
      BY <1>1 DEF Call
    <2>3. /\ request'.orders = r.orders /\ request'.sort = r.sort
          /\ DOMAIN request' = {"filters", "orders", "sort", "page", "size"}
      BY <2>2, RequestsAssumption
    <2>4. RequestOK'
      BY <2>2, <2>3, RequestsAssumption DEF RequestOK, OrderSeq
    <2> QED BY <2>1, <2>4, AnswerKeeps
  <1>2. CASE Validate
    <2>1. UNCHANGED <<spec, request>>
      BY <1>2 DEF Validate, Keep
    <2>2. UNCHANGED answer \/ answer'.is \in {"page_number", "page_size", "overflow"}
      BY <1>2 DEF Validate, Answer, Refusal, NoAnswer
    <2> QED BY <1>0, <2>1, <2>2, AnswerKeeps, NothingKeeps
  <1>3. CASE Count
    <2>1. UNCHANGED <<spec, request>>
      BY <1>3 DEF Count, Keep
    <2>2. UNCHANGED answer \/ answer'.is = "ok"
      BY <1>3 DEF Count, Answer, NoAnswer
    <2> QED BY <1>0, <2>1, <2>2, AnswerKeeps, NothingKeeps
  <1>4. CASE Order
    <2>1. UNCHANGED <<spec, request>>
      BY <1>4 DEF Order, Keep
    <2>2. UNCHANGED answer \/ Repeats(Chosen)
      BY <1>4 DEF Order
    <2>3. CASE Repeats(Chosen)
      <3>1. Repeats(request.orders)
        BY <2>3, RepeatsAreGiven
      <3>2. DefaultsWork'
        BY <2>1, <3>1 DEF DefaultsWork, Repeats
      <3> QED BY <1>0, <2>1, <3>2 DEF IInv, Valid
    <2> QED BY <2>1, <2>2, <2>3, NothingKeeps
  <1>5. CASE Select
    <2>1. UNCHANGED spec /\ answer'.is \in {"page", "ok"}
      BY <1>5 DEF Select, Keep
    <2>2. request' = request \/ request' = [request EXCEPT !.page = @ + 1]
      BY <1>5 DEF Select
    <2>3. /\ request'.orders = request.orders /\ request'.sort = request.sort
          /\ DOMAIN request' = DOMAIN request
      BY <2>2 DEF IInv, RequestOK
    <2>4. RequestOK'
      BY <2>3 DEF IInv, RequestOK
    <2> QED BY <2>1, <2>4, AnswerKeeps
  <1>6. CASE Fail
    <2>1. UNCHANGED <<spec, request>> /\ answer'.is = "error"
      BY <1>6 DEF Fail, Keep, Answer, Refusal, NoAnswer
    <2> QED BY <1>0, <2>1, AnswerKeeps
  <1>7. CASE Write
    BY <1>7, NothingKeeps DEF Write
  <1>8. CASE UNCHANGED vars
    BY <1>8, NothingKeeps DEF vars
  <1> QED BY <1>1, <1>2, <1>3, <1>4, <1>5, <1>6, <1>7, <1>8 DEF Next

\* A specification that the macro accepts has a default order that works: no call is
\* refused for a repeated sort field that the request does not have itself.
THEOREM DefaultsAlwaysWork == Spec => []DefaultsWork
  <1>1. Init => IInv
    <2> SUFFICES ASSUME Init PROVE IInv
      OBVIOUS
    <2>1. Valid(spec)
      BY DEF Init
    <2>2. /\ request.orders = <<>> /\ request.sort = <<>> /\ answer.is # "duplicate_sort"
          /\ DOMAIN request = {"filters", "orders", "sort", "page", "size"}
      BY DEF Init, NoAnswer
    <2>3. RequestOK
      BY <2>2 DEF RequestOK, OrderSeq
    <2> QED BY <2>1, <2>2, <2>3 DEF IInv, DefaultsWork
  <1>2. IInv /\ [Next]_vars => IInv'
    BY NextIInv
  <1>3. IInv => DefaultsWork
    BY DEF IInv
  <1> QED BY <1>1, <1>2, <1>3, PTL DEF Spec

-----------------------------------------------------------------------------
(* The database's order                                                      *)

Columns == {"id", "a"}
ColumnOrders == Seq([field : Columns, dir : {"Asc", "Desc"}])

\* A row and the field it is compared by.
LEMMA RowValues ==
  ASSUME NEW x \in Rows, NEW f \in Columns
  PROVE  x[f] \in Nat /\ (f = "id" => x[f] = x.id)
  <1>1. x \in [id : Nat, a : Nat]
    BY RowsAssumption
  <1>2. CASE f = "id"
    BY <1>1, <1>2
  <1>3. CASE f = "a"
    BY <1>1, <1>3
  <1> QED BY <1>2, <1>3 DEF Columns

LEMMA OrderFields ==
  ASSUME NEW orders \in ColumnOrders, NEW k \in DOMAIN orders
  PROVE  orders[k].field \in Columns /\ orders[k].dir \in {"Asc", "Desc"} /\ k \in Nat
  <1>1. k \in 1..Len(orders) /\ Len(orders) \in Nat
    BY LenProperties DEF ColumnOrders
  <1>2. orders[k] \in [field : Columns, dir : {"Asc", "Desc"}]
    BY <1>1, ElementOfSeq DEF ColumnOrders
  <1> QED BY <1>1, <1>2

\* The order tells rows with different keys apart, if the key is in it.
LEMMA OrderIsTotal ==
  ASSUME NEW orders \in ColumnOrders, ByKey(orders), NEW x \in Rows, NEW y \in Rows, x.id # y.id
  PROVE  Before(x, y, orders) \/ Before(y, x, orders)
  <1> DEFINE Differ == {k \in DOMAIN orders : x[orders[k].field] # y[orders[k].field]}
  <1>1. DOMAIN orders \subseteq Nat /\ \A k \in DOMAIN orders : 1..(k - 1) \subseteq DOMAIN orders
    BY DEF ColumnOrders
  <1>2. \A k \in DOMAIN orders : orders[k].field \in Columns /\ orders[k].dir \in {"Asc", "Desc"}
    BY OrderFields
  <1>3. Differ # {}
    <2>1. PICK k \in DOMAIN orders : orders[k].field = "id"
      BY DEF ByKey
    <2>2. x["id"] # y["id"]
      BY RowValues DEF Columns
    <2> QED BY <2>1, <2>2
  <1>4. PICK k \in Differ : \A l \in Differ : <<l, k>> \notin OpToRel(<, Nat)
    <2>1. Differ \subseteq Nat
      BY <1>1
    <2> HIDE DEF Differ
    <2> QED BY <1>3, <2>1, NatLessThanWellFounded, WFMin
  <1>5. \A l \in 1..(k - 1) : x[orders[l].field] = y[orders[l].field]
    <2>1. ASSUME NEW l \in 1..(k - 1), x[orders[l].field] # y[orders[l].field] PROVE FALSE
      <3>1. l \in Differ /\ l \in Nat /\ k \in Nat /\ l < k
        BY <1>1, <2>1
      <3>2. <<l, k>> \in OpToRel(<, Nat)
        BY <3>1 DEF OpToRel
      <3> QED BY <1>4, <3>1, <3>2
    <2> QED BY <2>1
  <1>6. PICK f, d : f = orders[k].field /\ d = orders[k].dir
    OBVIOUS
  <1>7. x[f] \in Nat /\ y[f] \in Nat /\ x[f] # y[f] /\ d \in {"Asc", "Desc"}
    BY <1>2, <1>6, RowValues
  <1> QED BY <1>5, <1>6, <1>7 DEF Before

LEMMA OrderIsIrreflexive ==
  ASSUME NEW orders \in ColumnOrders, NEW x \in Rows
  PROVE  ~Before(x, x, orders)
  <1>1. \A k \in DOMAIN orders : x[orders[k].field] \in Nat
    BY RowValues, OrderFields
  <1> QED BY <1>1 DEF Before

-----------------------------------------------------------------------------
(* Listings                                                                  *)

\* The rows of one table.
Distinct(rows) == rows \subseteq Rows /\ \A r, s \in rows : r.id = s.id => r = s

LEMMA ListingsAreSequences ==
  ASSUME NEW rows, Distinct(rows), NEW orders, NEW s \in Listings(rows, orders)
  PROVE  /\ IsFiniteSet(rows) /\ Cardinality(rows) \in Nat
         /\ s \in Seq(rows) /\ Len(s) = Cardinality(rows) /\ s \in [1..Cardinality(rows) -> rows]
         /\ \A i, j \in 1..Cardinality(rows) : s[i] = s[j] => i = j
         /\ \A r \in rows : \E i \in 1..Cardinality(rows) : s[i] = r
         /\ \A i, j \in 1..Cardinality(rows) : i < j => ~Before(s[j], s[i], orders)
  <1>1. IsFiniteSet(rows) /\ Cardinality(rows) \in Nat
    BY RowsAssumption, FS_Subset, FS_CardinalityType DEF Distinct
  <1>2. PICK n \in Nat : n = Cardinality(rows)
    BY <1>1
  <1>3. s \in [1..n -> rows] /\ DOMAIN s = 1..n
    BY <1>2 DEF Listings
  <1>4. s \in Surjection(1..n, rows)
    BY <1>3, Fun_IsSurj DEF Listings
  <1>5. IsFiniteSet(1..n) /\ Cardinality(1..n) = n
    BY FS_Interval
  <1>6. s \in Injection(1..n, rows)
    BY <1>2, <1>4, <1>5, FS_Surjection
  <1>7. \A i, j \in 1..n : s[i] = s[j] => i = j
    BY <1>6, Fun_InjectionProperties
  <1>8. s \in Seq(rows) /\ Len(s) = n
    BY <1>3
  <1>9. (\A r \in rows : \E i \in 1..n : s[i] = r) /\ \A i, j \in 1..n : i < j => ~Before(s[j], s[i], orders)
    BY <1>3 DEF Listings
  <1> QED BY <1>1, <1>2, <1>3, <1>7, <1>8, <1>9

\* A row's place in a listing is the number of rows before it.
LEMMA Rank ==
  ASSUME NEW rows, Distinct(rows), NEW orders \in ColumnOrders, ByKey(orders), NEW s \in Listings(rows, orders),
         NEW i \in 1..Cardinality(rows)
  PROVE  Cardinality({r \in rows : Before(r, s[i], orders)}) = i - 1
  <1> DEFINE n == Cardinality(rows)
             earlier == {r \in rows : Before(r, s[i], orders)}
             place == [j \in 1..(i - 1) |-> s[j]]
  <1>1. /\ n \in Nat /\ s \in [1..n -> rows] /\ (\A j, k \in 1..n : s[j] = s[k] => j = k)
        /\ (\A r \in rows : \E j \in 1..n : s[j] = r)
        /\ \A j, k \in 1..n : j < k => ~Before(s[k], s[j], orders)
    BY ListingsAreSequences
  <1>2. i \in Nat /\ 1..(i - 1) \subseteq 1..n /\ i \in 1..n
    BY <1>1
  <1>3. ASSUME NEW j \in 1..(i - 1) PROVE s[j] \in earlier
    <2>1. s[j] \in Rows /\ s[i] \in Rows /\ s[j].id # s[i].id /\ ~Before(s[i], s[j], orders)
      <3>1. j \in 1..n /\ j < i /\ s[j] \in rows /\ s[i] \in rows /\ s[j] # s[i]
        BY <1>1, <1>2
      <3> QED BY <1>1, <1>2, <3>1 DEF Distinct
    <2> QED BY <1>1, <1>2, <2>1, OrderIsTotal
  <1>4. ASSUME NEW r \in earlier PROVE \E j \in 1..(i - 1) : s[j] = r
    <2>1. PICK j \in 1..n : s[j] = r
      BY <1>1
    <2>2. s[i] \in Rows
      BY <1>1, <1>2 DEF Distinct
    <2>3. j # i
      BY <2>1, <2>2, OrderIsIrreflexive
    <2>4. ~(i < j)
      BY <1>1, <1>2, <2>1
    <2> QED BY <1>2, <2>1, <2>3, <2>4
  <1>5. place \in Bijection(1..(i - 1), earlier)
    <2>1. place \in [1..(i - 1) -> earlier]
      BY <1>3
    <2>2. \A j, k \in 1..(i - 1) : place[j] = place[k] => j = k
      BY <1>1, <1>2
    <2>3. \A r \in earlier : \E j \in 1..(i - 1) : place[j] = r
      BY <1>4
    <2> HIDE DEF place, earlier
    <2>4. place \in Surjection(1..(i - 1), earlier)
      BY <2>1, <2>3, Fun_IsSurj
    <2> QED BY <2>1, <2>2, <2>4, Fun_IsBij
  <1>6. IsFiniteSet(1..(i - 1)) /\ Cardinality(1..(i - 1)) = i - 1
    BY <1>2, FS_Interval
  <1>7. ExistsBijection(1..(i - 1), earlier)
    BY <1>5 DEF ExistsBijection
  <1> HIDE DEF earlier
  <1>8. Cardinality(earlier) = i - 1
    BY <1>6, <1>7, FS_Bijection
  <1> QED BY <1>8 DEF earlier

\* With the key in the order there is only one listing, however often it is made.
LEMMA ListingIsUnique ==
  ASSUME NEW rows, Distinct(rows), NEW orders \in ColumnOrders, ByKey(orders),
         NEW s \in Listings(rows, orders), NEW t \in Listings(rows, orders)
  PROVE  s = t
  <1>1. PICK n \in Nat : n = Cardinality(rows)
    BY ListingsAreSequences
  <1>2. s \in [1..n -> rows] /\ t \in [1..n -> rows] /\ \A r \in rows : \E j \in 1..n : t[j] = r
    BY <1>1, ListingsAreSequences
  <1>3. ASSUME NEW i \in 1..n PROVE s[i] = t[i]
    <2>1. PICK j \in 1..n : t[j] = s[i]
      BY <1>2
    <2>2. Cardinality({r \in rows : Before(r, s[i], orders)}) = i - 1
      BY <1>1, Rank
    <2>3. Cardinality({r \in rows : Before(r, t[j], orders)}) = j - 1
      BY <1>1, Rank
    <2> QED BY <2>1, <2>2, <2>3
  <1> QED BY <1>2, <1>3

-----------------------------------------------------------------------------
(* Pages of a listing                                                        *)

LEMMA ProductGrows ==
  ASSUME NEW a \in Nat, NEW b \in Nat, NEW d \in Nat, a <= b
  PROVE  a * d \in Nat /\ b * d \in Nat /\ a * d <= b * d
  BY SMT

LEMMA NextOffset ==
  ASSUME NEW page \in Nat \ {0}, NEW size \in Nat
  PROVE  Offset(page, size) \in Nat /\ Offset(page + 1, size) = Offset(page, size) + size
  BY SMT DEF Offset

\* Where the announced pages end.
LEMMA PageBounds ==
  ASSUME NEW n \in Nat, NEW size \in Nat \ {0}, NEW page \in Nat \ {0}
  PROVE  /\ TotalPages(n, size) \in Nat
         /\ page < TotalPages(n, size) => Offset(page, size) + size <= n
         /\ page >= TotalPages(n, size) => n <= Offset(page, size) + size
         /\ page > TotalPages(n, size) => n <= Offset(page, size)
         /\ page = TotalPages(n, size) => Offset(page, size) <= n
  <1>1. CASE n = 0
    <2>1. TotalPages(n, size) = 0 /\ Offset(page, size) \in Nat
      BY <1>1, NextOffset DEF TotalPages
    <2> QED BY <1>1, <2>1
  <1>2. CASE n # 0
    <2> DEFINE k == (n - 1) \div size
    <2>1. k \in Nat /\ k * size <= n - 1 /\ n - 1 < k * size + size
      BY <1>2, Division
    <2>2. TotalPages(n, size) = k + 1
      BY <1>2 DEF TotalPages
    <2> HIDE DEF k
    <2>3. k * size \in Nat /\ page - 1 \in Nat /\ (page - 1) * size \in Nat /\ Offset(page, size) = (page - 1) * size
      BY <2>1 DEF Offset
    <2>4. page < k + 1 => Offset(page, size) + size <= n
      <3>1. ASSUME page < k + 1 PROVE Offset(page, size) + size <= n
        <4>1. page * size <= k * size
          BY <2>1, <3>1, ProductGrows
        <4>2. page * size = (page - 1) * size + size
          OBVIOUS
        <4> QED BY <2>1, <2>3, <4>1, <4>2
      <3> QED BY <3>1
    <2>5. page >= k + 1 => n <= Offset(page, size) + size
      <3>1. ASSUME page >= k + 1 PROVE n <= Offset(page, size) + size
        <4>1. k * size <= (page - 1) * size
          BY <2>1, <2>3, <3>1, ProductGrows
        <4> QED BY <2>1, <2>3, <4>1
      <3> QED BY <3>1
    <2>6. page > k + 1 => n <= Offset(page, size)
      <3>1. ASSUME page > k + 1 PROVE n <= Offset(page, size)
        <4>1. (k + 1) * size <= (page - 1) * size
          BY <2>1, <2>3, <3>1, ProductGrows
        <4>2. (k + 1) * size = k * size + size
          BY <2>1
        <4> QED BY <2>1, <2>3, <4>1, <4>2
      <3> QED BY <3>1
    <2>7. page = k + 1 => Offset(page, size) <= n
      BY <2>1, <2>3
    <2> QED BY <2>1, <2>2, <2>4, <2>5, <2>6, <2>7
  <1> QED BY <1>1, <1>2

\* The first n of a listing.
UpTo(list, n) == SubSeq(list, 1, IF n < Len(list) THEN n ELSE Len(list))

LEMMA NoneYet ==
  ASSUME NEW S, NEW list \in Seq(S)
  PROVE  UpTo(list, 0) = <<>>
  <1>1. (IF 0 < Len(list) THEN 0 ELSE Len(list)) = 0
    BY LenProperties
  <1> QED BY <1>1, SubSeqEmpty DEF UpTo

LEMMA AllByNow ==
  ASSUME NEW S, NEW list \in Seq(S), NEW n \in Nat, Len(list) <= n
  PROVE  UpTo(list, n) = list
  <1>1. (IF n < Len(list) THEN n ELSE Len(list)) = Len(list)
    BY LenProperties
  <1> QED BY <1>1, SubSeqFull DEF UpTo

\* A page goes on where the ones before it ended.
LEMMA PageGoesOn ==
  ASSUME NEW S, NEW list \in Seq(S), NEW skip \in Nat, NEW size \in Nat
  PROVE  UpTo(list, skip) \o Slice(list, skip, size) = UpTo(list, skip + size)
  <1>1. Len(list) \in Nat
    BY LenProperties
  <1>2. PICK last \in Nat : last = IF skip + size < Len(list) THEN skip + size ELSE Len(list)
    BY <1>1
  <1>3. CASE skip <= Len(list)
    <2>1. UpTo(list, skip) = SubSeq(list, 1, skip)
      BY <1>1, <1>3 DEF UpTo
    <2>2. SubSeq(list, 1, skip) \o SubSeq(list, skip + 1, last) = SubSeq(list, 1, last)
      <3>1. 1 \in 1..(Len(list) + 1) /\ skip \in (1 - 1)..Len(list) /\ last \in skip..Len(list)
        BY <1>1, <1>2, <1>3
      <3> QED BY <3>1, ConcatAdjacentSubSeq
    <2> QED BY <1>2, <2>1, <2>2 DEF UpTo, Slice
  <1>4. CASE skip > Len(list)
    <2>1. UpTo(list, skip) = list /\ UpTo(list, skip + size) = list
      BY <1>1, <1>4, AllByNow
    <2>2. Slice(list, skip, size) = <<>>
      BY <1>1, <1>2, <1>4, SubSeqEmpty DEF Slice
    <2> QED BY <2>1, <2>2, ConcatEmptySeq
  <1> QED BY <1>1, <1>3, <1>4

\* What a page is expected to have of a list's rows from "skip" on.
PageOf(list, skip, size, page) ==
  /\ skip + size <= Len(list) => Len(page) = size
  /\ skip <= Len(list) /\ Len(list) <= skip + size => Len(page) = Len(list) - skip
  /\ Len(list) <= skip => Len(page) = 0
  /\ \A i, j \in DOMAIN page : i < j => page[i] # page[j]

NoRepeats(list) == \A i, j \in 1..Len(list) : list[i] = list[j] => i = j

LEMMA PageLength ==
  ASSUME NEW S, NEW list \in Seq(S), NEW skip \in Nat, NEW size \in Nat, NoRepeats(list)
  PROVE  PageOf(list, skip, size, Slice(list, skip, size))
  <1>1. Len(list) \in Nat /\ \A i \in 1..Len(list) : list[i] \in S
    BY LenProperties, ElementOfSeq
  <1>2. PICK last \in Nat : last = IF skip + size < Len(list) THEN skip + size ELSE Len(list)
    BY <1>1
  <1>3. PICK page : page = SubSeq(list, skip + 1, last)
    OBVIOUS
  <1>4. Slice(list, skip, size) = page
    BY <1>2, <1>3 DEF Slice
  <1>5. last <= Len(list) /\ \A i \in (skip + 1)..last : list[i] \in S
    BY <1>1, <1>2
  <1>6. /\ page \in Seq(S) /\ Len(page) = (IF skip + 1 <= last THEN last - (skip + 1) + 1 ELSE 0)
        /\ \A i \in 1..(last - (skip + 1) + 1) : page[i] = list[skip + 1 + i - 1]
    BY <1>3, <1>5, SubSeqProperties
  <1>7. ASSUME NEW i \in DOMAIN page, NEW j \in DOMAIN page, i < j PROVE page[i] # page[j]
    <2>1. DOMAIN page = 1..Len(page)
      BY <1>6, LenProperties
    <2>2. i \in Nat /\ j \in Nat /\ i \in 1..(last - (skip + 1) + 1) /\ j \in 1..(last - (skip + 1) + 1)
      BY <1>6, <2>1
    <2>3. skip + i \in 1..Len(list) /\ skip + j \in 1..Len(list) /\ skip + i # skip + j
      BY <1>1, <1>5, <1>7, <2>2
    <2>4. page[i] = list[skip + i] /\ page[j] = list[skip + j]
      <3>1. skip + 1 + i - 1 = skip + i /\ skip + 1 + j - 1 = skip + j
        BY <2>2
      <3> QED BY <1>6, <2>2, <3>1
    <2> QED BY <2>3, <2>4 DEF NoRepeats
  <1>8. /\ skip + size <= Len(list) => Len(page) = size
        /\ skip <= Len(list) /\ Len(list) <= skip + size => Len(page) = Len(list) - skip
        /\ Len(list) <= skip => Len(page) = 0
    BY <1>1, <1>2, <1>6
  <1> QED BY <1>4, <1>7, <1>8 DEF PageOf

-----------------------------------------------------------------------------
(* The query of a call                                                       *)

\* The specification is a valid one, the rows have keys, and the request fits.
QueryOK ==
    /\ spec \in Specs /\ Valid(spec)
    /\ Distinct(table)
    /\ RequestOK
    /\ \A i \in DOMAIN request.orders : request.orders[i].field \in spec.sorts
    /\ \A i \in DOMAIN request.sort : request.sort[i].field \in spec.sorts
    /\ request.page \in Nat /\ request.size \in Nat
Keyed == ByKey(Chosen) \/ ByKey(spec.tie)

LEMMA QueryOKInit == Init => QueryOK
  <1> SUFFICES ASSUME Init PROVE QueryOK
    OBVIOUS
  <1>1. spec \in Specs /\ Valid(spec) /\ Distinct(table)
    BY DEF Init, Distinct
  <1>2. /\ DOMAIN request = {"filters", "orders", "sort", "page", "size"} /\ request.orders = <<>>
        /\ request.sort = <<>> /\ request.page = 1 /\ request.size = 1
    BY DEF Init
  <1>3. RequestOK
    BY <1>2 DEF RequestOK, OrderSeq
  <1> QED BY <1>1, <1>2, <1>3 DEF QueryOK

LEMMA QueryOKStep == QueryOK /\ [Next]_vars => QueryOK'
  <1> SUFFICES ASSUME QueryOK, [Next]_vars PROVE QueryOK'
    OBVIOUS
  <1>1. spec' = spec
    BY DEF Next, Call, Validate, Count, Order, Select, Fail, Write, Keep, vars
  <1>2. Distinct(table)'
    <2>1. CASE Write
      <3>1. PICK r \in Rows : table' = IF r \in table THEN table \ {r} ELSE {s \in table : s.id # r.id} \cup {r}
        BY <2>1 DEF Write
      <3> QED BY <3>1 DEF QueryOK, Distinct
    <2>2. CASE ~Write
      BY <2>2 DEF Next, Call, Validate, Count, Order, Select, Fail, Keep, vars, QueryOK, Distinct
    <2> QED BY <2>1, <2>2
  <1>3. CASE Call
    <2>1. PICK r \in Requests :
             /\ \A order \in {r.orders[i] : i \in DOMAIN r.orders} \cup {r.sort[i] : i \in DOMAIN r.sort} :
                   order.field \in spec.sorts
             /\ request' = r \/ request' = [r EXCEPT !.page = 1]
      BY <1>3 DEF Call
    <2>2. /\ DOMAIN r = {"filters", "orders", "sort", "page", "size"}
          /\ r.orders \in OrderSeq /\ r.sort \in OrderSeq /\ (r.orders = <<>> \/ r.sort = <<>>)
          /\ Len(r.sort) <= 1 /\ r.page \in Nat /\ r.size \in Nat
      BY RequestsAssumption, WidthAssumption DEF OrderSeq
    <2>3. /\ DOMAIN request' = DOMAIN r /\ request'.orders = r.orders /\ request'.sort = r.sort
          /\ request'.page \in Nat /\ request'.size \in Nat
      BY <2>1, <2>2
    <2>4. /\ \A i \in DOMAIN r.orders : r.orders[i].field \in spec.sorts
          /\ \A i \in DOMAIN r.sort : r.sort[i].field \in spec.sorts
      BY <2>1
    <2> QED BY <1>1, <1>2, <2>2, <2>3, <2>4 DEF QueryOK, RequestOK, Valid
  <1>4. CASE ~Call
    <2>1. request' = request \/ request' = [request EXCEPT !.page = @ + 1]
      BY <1>4 DEF Next, Validate, Count, Order, Select, Fail, Write, vars
    <2>2. /\ DOMAIN request' = DOMAIN request /\ request'.orders = request.orders /\ request'.sort = request.sort
          /\ request'.page \in Nat /\ request'.size \in Nat
      BY <2>1 DEF QueryOK, RequestOK
    <2> QED BY <1>1, <1>2, <2>2 DEF QueryOK, RequestOK, Valid
  <1> QED BY <1>3, <1>4

LEMMA MatchingDistinct == ASSUME QueryOK PROVE Distinct(Matching) /\ Cardinality(Matching) \in Nat
  <1>1. Distinct(Matching)
    BY DEF QueryOK, Distinct, Matching
  <1>2. IsFiniteSet(Matching)
    BY <1>1, RowsAssumption, FS_Subset DEF Distinct
  <1> QED BY <1>1, <1>2, FS_CardinalityType

LEMMA SameQuery ==
  ASSUME spec' = spec, table' = table, request'.filters = request.filters,
         request'.orders = request.orders, request'.sort = request.sort
  PROVE  Matching' = Matching /\ Chosen' = Chosen /\ Orders' = Orders /\ Keyed' = Keyed
  <1>1. Matching' = Matching
    BY DEF Matching
  <1>2. Given' = Given
    BY DEF Given
  <1>3. Chosen' = Chosen
    BY <1>2 DEF Chosen
  <1>4. Orders' = Orders
    BY <1>3 DEF Orders, SortedBy
  <1>5. Keyed' = Keyed
    BY <1>3 DEF Keyed, ByKey
  <1> QED BY <1>1, <1>3, <1>4, <1>5

LEMMA FunctionIsSequence ==
  ASSUME NEW S, NEW n \in Nat, NEW s \in [1..n -> S]
  PROVE  s \in Seq(S)
  OBVIOUS

LEMMA SortFields ==
  ASSUME NEW s \in OrderSeq, \A i \in DOMAIN s : s[i].field \in Columns
  PROVE  s \in ColumnOrders
  <1>1. PICK n \in Nat : s \in [1..n -> [field : STRING, dir : {"Asc", "Desc"}]]
    BY LenProperties DEF OrderSeq
  <1>2. \A i \in 1..n : s[i] \in [field : Columns, dir : {"Asc", "Desc"}]
    BY <1>1
  <1>3. s \in [1..n -> [field : Columns, dir : {"Asc", "Desc"}]]
    BY <1>1, <1>2
  <1>4. s \in Seq([field : Columns, dir : {"Asc", "Desc"}])
    BY <1>3, FunctionIsSequence, Zenon
  <1> QED BY <1>4 DEF ColumnOrders

\* The order of the database is the chosen one, refined by the tie breaker.
LEMMA OrdersRefineChosen ==
  ASSUME QueryOK
  PROVE  /\ Orders \in ColumnOrders
         /\ Keyed => ByKey(Orders)
         /\ \A x, y : Before(x, y, Chosen) => Before(x, y, Orders)
  <1>1. spec.sorts \subseteq Columns /\ spec.default \in OrderSeq /\ spec.tie \in OrderSeq /\ Len(spec.tie) <= 1
    BY SpecsAssumption DEF QueryOK, Columns, OrderSeq
  <1>2. spec.tie \in ColumnOrders /\ spec.default \in ColumnOrders
    BY <1>1, SortFields DEF QueryOK, Valid
  <1>3. Chosen \in ColumnOrders
    <2>1. request.orders \in ColumnOrders /\ request.sort \in ColumnOrders
      BY <1>1, SortFields DEF QueryOK, RequestOK
    <2>2. Given \in ColumnOrders
      BY <2>1, ConcatProperties DEF Given, ColumnOrders
    <2> QED BY <1>2, <2>2 DEF Chosen
  <1>4. /\ Chosen \o spec.tie \in ColumnOrders
        /\ Len(Chosen) \in Nat /\ DOMAIN Chosen = 1..Len(Chosen)
        /\ Len(spec.tie) \in Nat /\ DOMAIN spec.tie = 1..Len(spec.tie)
        /\ DOMAIN (Chosen \o spec.tie) = 1..(Len(Chosen) + Len(spec.tie))
        /\ \A i \in 1..(Len(Chosen) + Len(spec.tie)) :
              (Chosen \o spec.tie)[i] = IF i <= Len(Chosen) THEN Chosen[i] ELSE spec.tie[i - Len(Chosen)]
    BY <1>2, <1>3, ConcatProperties, LenProperties DEF ColumnOrders
  <1>5. DOMAIN Chosen \subseteq DOMAIN Orders /\ \A i \in DOMAIN Chosen : Orders[i] = Chosen[i]
    <2>1. CASE Orders = Chosen
      BY <2>1
    <2>2. CASE Orders = Chosen \o spec.tie
      BY <1>4, <2>2
    <2> QED BY <2>1, <2>2 DEF Orders
  <1>6. Keyed => ByKey(Orders)
    <2>1. CASE SortedBy("id")
      BY <1>5, <2>1 DEF SortedBy, ByKey
    <2>2. CASE ~SortedBy("id") /\ ByKey(spec.tie)
      <3>1. PICK i \in DOMAIN spec.tie : spec.tie[i].field = "id"
        BY <2>2 DEF ByKey
      <3>2. \A j \in DOMAIN spec.tie : j = i
        BY <1>1, <1>4
      <3>3. Orders = Chosen \o spec.tie
        BY <2>2, <3>1, <3>2 DEF Orders
      <3>4. Len(Chosen) + i \in 1..(Len(Chosen) + Len(spec.tie)) /\ Orders[Len(Chosen) + i] = spec.tie[i]
        BY <1>4, <3>1, <3>3
      <3> QED BY <1>4, <3>1, <3>3, <3>4 DEF ByKey
    <2> QED BY <2>1, <2>2 DEF Keyed, ByKey, SortedBy
  <1>7. ASSUME NEW x, NEW y, Before(x, y, Chosen) PROVE Before(x, y, Orders)
    <2>1. PICK k \in DOMAIN Chosen :
             /\ \A l \in 1..(k - 1) : x[Chosen[l].field] = y[Chosen[l].field]
             /\ LET f == Chosen[k].field IN IF Chosen[k].dir = "Asc" THEN x[f] < y[f] ELSE x[f] > y[f]
      BY <1>7 DEF Before
    <2>2. k \in DOMAIN Orders /\ Orders[k] = Chosen[k] /\ \A l \in 1..(k - 1) : l \in DOMAIN Chosen /\ Orders[l] = Chosen[l]
      BY <1>4, <1>5
    <2> QED BY <2>1, <2>2 DEF Before
  <1> QED BY <1>3, <1>4, <1>6, <1>7 DEF Orders

-----------------------------------------------------------------------------
(* Walks and pages                                                           *)

\* What is known of a call that asks for pages.
Paged == call \in {"fetch_page", "walk"}
Asked ==
    /\ call = "walk" => request.page > 0
    /\ Paged /\ pc \in {"count", "order", "select"} =>
          0 < request.page /\ 0 < request.size /\ offset = Offset(request.page, request.size)
    /\ Paged /\ pc \in {"order", "select"} /\ quiet => total = Cardinality(Matching)
    /\ answer.is = "ok" => pc = "done"

\* The pages so far are the beginning of every listing the database may make.
WalkedSoFar ==
    call = "walk" /\ quiet /\ Keyed /\ pc \in {"validate", "count", "order", "select"} =>
        \A list \in Listings(Matching, Orders) : walked = UpTo(list, Offset(request.page, request.size))
PagesInv == Asked /\ WalkedSoFar /\ WalkIsExact /\ PageIsAsAnnounced

LEMMA WholeListing ==
  ASSUME QueryOK, NEW list \in Listings(Matching, Orders)
  PROVE  /\ Len(list) = Cardinality(Matching) /\ {list[i] : i \in DOMAIN list} = Matching
         /\ \A i, j \in DOMAIN list : i < j => ~Before(list[j], list[i], Chosen)
  <1>1. PICK n \in Nat : n = Cardinality(Matching)
    BY MatchingDistinct
  <1>2. /\ list \in [1..n -> Matching] /\ Len(list) = n /\ (\A r \in Matching : \E i \in 1..n : list[i] = r)
        /\ \A i, j \in 1..n : i < j => ~Before(list[j], list[i], Orders)
    BY <1>1, MatchingDistinct, ListingsAreSequences
  <1>3. {list[i] : i \in DOMAIN list} = Matching
    BY <1>2
  <1> QED BY <1>1, <1>2, <1>3, OrdersRefineChosen

\* The first page of a walk, or no walk.
LEMMA CallPages == ASSUME QueryOK, Call, QueryOK' PROVE PagesInv'
  <1>1. /\ answer'.is = "none" /\ walked' = <<>> /\ pc' \in {"validate", "order", "count"}
        /\ call' \in Methods /\ (call' = "walk" => request'.page = 1) /\ (Paged' => pc' = "validate")
    <2>1. PICK m \in Methods, r \in Requests :
             /\ call' = m /\ request' = IF m = "walk" THEN [r EXCEPT !.page = 1] ELSE r
             /\ pc' = CASE m \in {"fetch_page", "walk"} -> "validate" [] m = "all" -> "order" [] OTHER -> "count"
      BY DEF Call
    <2>2. DOMAIN r = {"filters", "orders", "sort", "page", "size"}
      BY RequestsAssumption
    <2> QED BY <2>1, <2>2 DEF Call, NoAnswer, Methods, Paged
  <1>2. Asked' /\ WalkIsExact' /\ PageIsAsAnnounced'
    BY <1>1 DEF Asked, WalkIsExact, PageIsAsAnnounced, Paged
  <1>3. WalkedSoFar'
    <2>1. ASSUME call' = "walk", NEW list \in Listings(Matching', Orders')
          PROVE  UpTo(list, Offset(request'.page, request'.size)) = <<>>
      <3>1. Distinct(Matching')
        BY MatchingDistinct DEF QueryOK, Distinct, Matching
      <3>2. list \in Seq(Matching')
        BY <3>1, ListingsAreSequences
      <3>3. Offset(request'.page, request'.size) = 0
        BY <1>1, <2>1 DEF Offset, QueryOK
      <3> QED BY <3>2, <3>3, NoneYet
    <2> QED BY <1>1, <2>1 DEF WalkedSoFar
  <1> QED BY <1>2, <1>3 DEF PagesInv

\* The steps that neither begin nor return a page.
LEMMA OtherPages ==
  ASSUME QueryOK, PagesInv, Validate \/ Count \/ Order \/ Fail \/ Write \/ UNCHANGED vars
  PROVE  PagesInv'
  <1>1. CASE Write
    <2>1. quiet' = FALSE /\ UNCHANGED <<pc, call, request, offset, answer>> /\ pc # "done"
      BY <1>1 DEF Write
    <2> QED BY <2>1 DEF PagesInv, Asked, WalkedSoFar, WalkIsExact, PageIsAsAnnounced, Paged
  <1>2. CASE ~Write
    <2>1. UNCHANGED <<spec, table, request, call, quiet, walked>>
      BY <1>2 DEF Validate, Count, Order, Fail, Keep, vars
    <2>2. Matching' = Matching /\ Chosen' = Chosen /\ Orders' = Orders /\ Keyed' = Keyed
      BY <2>1, SameQuery
    <2>3. CASE UNCHANGED vars
      <3>1. UNCHANGED <<pc, offset, total, answer, spec>>
        BY <2>3 DEF vars
      <3> QED BY <2>1, <2>2, <3>1 DEF PagesInv, Asked, WalkedSoFar, WalkIsExact, PageIsAsAnnounced, Paged, Keyed
    <2>4. CASE Validate
      <3>1. /\ pc = "validate" /\ answer.is # "ok" /\ total' = total
            /\ \/ pc' = "done" /\ answer'.is # "ok"
               \/ /\ pc' = "count" /\ answer' = answer /\ offset' = Offset(request.page, request.size)
                  /\ request.page # 0 /\ (request.page > 0 => request.size \in 1..spec.max)
        <4>1. pc = "validate" /\ total' = total /\ answer.is # "ok"
          BY <2>4 DEF Validate, PagesInv, Asked
        <4>2. \A error : Answer(Refusal(error)) => pc' = "done" /\ answer'.is = error
          BY DEF Answer, Refusal, NoAnswer
        <4>3. offset' = IF pc' = "count" THEN Offset(request.page, request.size) ELSE offset
          BY <2>4 DEF Validate
        <4>4. CASE request.page = 0
          BY <2>4, <4>1, <4>2, <4>4 DEF Validate
        <4>5. CASE request.page # 0 /\ request.page > 0 /\ request.size \notin 1..spec.max
          BY <2>4, <4>1, <4>2, <4>5 DEF Validate
        <4>6. CASE request.page # 0 /\ ~(request.page > 0 /\ request.size \notin 1..spec.max)
          BY <2>4, <4>1, <4>2, <4>3, <4>6 DEF Validate
        <4> QED BY <4>4, <4>5, <4>6
      <3>2. pc' = "count" => 0 < request.page /\ 0 < request.size
        BY <3>1, SpecsAssumption DEF QueryOK
      <3> QED BY <2>1, <2>2, <3>1, <3>2 DEF PagesInv, Asked, WalkedSoFar, WalkIsExact, PageIsAsAnnounced, Paged
    <2>5. CASE Count
      <3>1. /\ pc = "count" /\ answer.is # "ok" /\ offset' = offset /\ total' = Cardinality(Matching)
            /\ \/ pc' = "order" /\ answer' = answer
               \/ pc' = "done" /\ call = "count"
        BY <2>5 DEF Count, PagesInv, Asked, Answer
      <3> QED BY <2>1, <2>2, <3>1 DEF PagesInv, Asked, WalkedSoFar, WalkIsExact, PageIsAsAnnounced, Paged
    <2>6. CASE Order \/ Fail
      <3>1. \A error : Answer(Refusal(error)) => pc' = "done" /\ answer'.is = error
        BY DEF Answer, Refusal, NoAnswer
      <3>2. /\ pc \in {"count", "order", "select"} /\ answer.is # "ok" /\ UNCHANGED <<offset, total>>
            /\ \/ pc = "order" /\ pc' = "select" /\ answer' = answer
               \/ pc' = "done" /\ answer'.is # "ok"
        BY <2>6, <3>1 DEF Order, Fail, PagesInv, Asked
      <3> QED BY <2>1, <2>2, <3>2 DEF PagesInv, Asked, WalkedSoFar, WalkIsExact, PageIsAsAnnounced, Paged
    <2> QED BY <1>2, <2>3, <2>4, <2>5, <2>6
  <1> QED BY <1>1, <1>2

LEMMA SelectPages == ASSUME QueryOK, PagesInv, Select, QueryOK' PROVE PagesInv'
  <1> DEFINE pages == TotalPages(total, request.size)
             more == call = "walk" /\ request.page < pages
  <1>1. PICK list \in Listings(Matching, Orders) :
           LET items == IF call = "all" THEN list ELSE Slice(list, offset, request.size)
           IN  /\ answer' = [is |-> IF more THEN "page" ELSE "ok", items |-> items, total |-> total,
                             pages |-> IF call = "all" THEN 0 ELSE pages]
               /\ walked' = walked \o items
    BY DEF Select
  <1>2. /\ pc = "select" /\ pc' = (IF more THEN "validate" ELSE "done")
        /\ request' = IF more THEN [request EXCEPT !.page = @ + 1] ELSE request
        /\ UNCHANGED <<call, offset, total, quiet, spec, table>>
    BY DEF Select, Keep
  <1>3. /\ request'.page = (IF more THEN request.page + 1 ELSE request.page) /\ request'.size = request.size
        /\ request'.filters = request.filters /\ request'.orders = request.orders /\ request'.sort = request.sort
    BY <1>2 DEF QueryOK, RequestOK
  <1>4. Matching' = Matching /\ Chosen' = Chosen /\ Orders' = Orders /\ Keyed' = Keyed
    BY <1>2, <1>3, SameQuery
  <1>5. /\ list \in Seq(Matching) /\ Len(list) = Cardinality(Matching) /\ Cardinality(Matching) \in Nat
        /\ \A i, j \in 1..Len(list) : list[i] = list[j] => i = j
    BY MatchingDistinct, ListingsAreSequences
  <1>6. Asked'
    BY <1>1, <1>2, <1>3 DEF PagesInv, Asked, Paged, QueryOK
  <1>7. ASSUME Paged, quiet
        PROVE  /\ total = Cardinality(Matching) /\ request.page \in Nat \ {0} /\ request.size \in Nat \ {0}
               /\ offset = Offset(request.page, request.size) /\ offset \in Nat
               /\ Offset(request.page + 1, request.size) = offset + request.size
               /\ pages \in Nat /\ answer'.items = Slice(list, offset, request.size)
               /\ walked' = walked \o Slice(list, offset, request.size)
    <2>1. /\ total = Cardinality(Matching) /\ request.page \in Nat \ {0} /\ request.size \in Nat \ {0}
          /\ offset = Offset(request.page, request.size)
      BY <1>2, <1>7 DEF PagesInv, Asked, QueryOK
    <2>2. call # "all"
      BY <1>7 DEF Paged
    <2> QED BY <1>1, <1>5, <2>1, <2>2, NextOffset, PageBounds
  <1>8. ASSUME call = "walk", quiet, Keyed
        PROVE  walked' = UpTo(list, offset + request.size)
    <2>1. walked = UpTo(list, offset)
      BY <1>2, <1>7, <1>8 DEF PagesInv, WalkedSoFar, Paged
    <2> QED BY <1>5, <1>7, <1>8, <2>1, PageGoesOn DEF Paged
  <1>9. WalkedSoFar'
    <2>1. ASSUME call = "walk", quiet, Keyed, more, NEW other \in Listings(Matching, Orders)
          PROVE  walked' = UpTo(other, Offset(request.page + 1, request.size))
      <3>1. other = list
        BY <2>1, MatchingDistinct, OrdersRefineChosen, ListingIsUnique
      <3> QED BY <1>7, <1>8, <2>1, <3>1 DEF Paged
    <2> QED BY <1>2, <1>3, <1>4, <2>1 DEF WalkedSoFar
  <1>10. WalkIsExact'
    <2>1. ASSUME call = "walk", quiet, Keyed, ~more
          PROVE  walked' = list
      <3>1. pages <= request.page
        BY <1>7, <2>1 DEF Paged
      <3>2. Len(list) <= offset + request.size
        BY <1>5, <1>7, <2>1, <3>1, PageBounds DEF Paged
      <3> QED BY <1>5, <1>7, <1>8, <2>1, <3>2, AllByNow DEF Paged
    <2>2. ASSUME pc' = "done", call' = "walk", answer'.is = "ok", quiet', ByKey(Chosen') \/ ByKey(spec'.tie)
          PROVE  walked' = list
      BY <1>2, <1>4, <2>1, <2>2 DEF Keyed
    <2> QED BY <1>4, <2>2, WholeListing DEF WalkIsExact
  <1>11. PageIsAsAnnounced'
    <2>1. ASSUME call = "fetch_page", quiet
          PROVE  LET items == answer'.items
                     announced == answer'.pages
                 IN  /\ Len(items) = IF request'.page < announced THEN request'.size
                                     ELSE IF request'.page > announced THEN 0
                                     ELSE answer'.total - (announced - 1) * request'.size
                     /\ \A i, j \in DOMAIN items : i < j => items[i] # items[j]
      <3>1. /\ answer'.pages = pages /\ answer'.total = Cardinality(Matching)
            /\ request'.page = request.page /\ request'.size = request.size
        BY <1>1, <1>3, <1>7, <2>1 DEF Paged
      <3>2. /\ request.page < pages => offset + request.size <= Len(list)
            /\ request.page >= pages => Len(list) <= offset + request.size
            /\ request.page > pages => Len(list) <= offset
            /\ request.page = pages => offset <= Len(list)
        <4>1. PICK n \in Nat, size \in Nat \ {0}, number \in Nat \ {0} :
                n = Len(list) /\ size = request.size /\ number = request.page /\ n = total
          BY <1>5, <1>7, <2>1 DEF Paged
        <4>2. /\ number < TotalPages(n, size) => Offset(number, size) + size <= n
              /\ number >= TotalPages(n, size) => n <= Offset(number, size) + size
              /\ number > TotalPages(n, size) => n <= Offset(number, size)
              /\ number = TotalPages(n, size) => Offset(number, size) <= n
          BY <4>1, PageBounds
        <4>3. offset = Offset(number, size) /\ pages = TotalPages(n, size)
          BY <1>7, <2>1, <4>1 DEF Paged
        <4> HIDE DEF pages
        <4> QED BY <4>1, <4>2, <4>3
      <3>3. request.page = pages => offset = (pages - 1) * request.size
        BY <1>7, <2>1 DEF Paged, Offset
      <3>4. PICK page : page = Slice(list, offset, request.size)
        OBVIOUS
      <3>5. /\ request.page < pages => Len(page) = request.size
            /\ request.page > pages => Len(page) = 0
            /\ request.page = pages => Len(page) = Len(list) - offset
            /\ \A i, j \in DOMAIN page : i < j => page[i] # page[j]
        <4>1. PICK size \in Nat \ {0}, skip \in Nat, number \in Nat \ {0} :
                size = request.size /\ skip = offset /\ number = request.page
          BY <1>7, <2>1 DEF Paged
        <4>2. page = Slice(list, skip, size)
          BY <3>4, <4>1
        <4>3. /\ skip + size <= Len(list) => Len(page) = size
              /\ skip <= Len(list) /\ Len(list) <= skip + size => Len(page) = Len(list) - skip
              /\ Len(list) <= skip => Len(page) = 0
              /\ \A i, j \in DOMAIN page : i < j => page[i] # page[j]
          <5>1. PICK rows : rows = Matching
            OBVIOUS
          <5>2. list \in Seq(rows) /\ NoRepeats(list)
            BY <1>5, <5>1 DEF NoRepeats
          <5>3. PageOf(list, skip, size, Slice(list, skip, size))
            BY <5>2, PageLength
          <5> QED BY <4>2, <5>3 DEF PageOf
        <4>4. pages \in Nat
          BY <1>7, <2>1 DEF Paged
        <4> HIDE DEF pages
        <4> QED BY <3>2, <4>1, <4>3, <4>4
      <3>6. answer'.items = page
        BY <1>7, <2>1, <3>4 DEF Paged
      <3> HIDE DEF pages
      <3> QED BY <1>5, <1>7, <2>1, <3>1, <3>3, <3>5, <3>6 DEF Paged
    <2> QED BY <1>2, <2>1 DEF PageIsAsAnnounced
  <1> QED BY <1>6, <1>9, <1>10, <1>11 DEF PagesInv

LEMMA PagesInvariant == Spec => [](QueryOK /\ PagesInv)
  <1>1. Init => QueryOK /\ PagesInv
    <2>1. ASSUME Init PROVE PagesInv
      BY <2>1 DEF Init, PagesInv, Asked, WalkedSoFar, WalkIsExact, PageIsAsAnnounced, Paged, NoAnswer
    <2> QED BY <2>1, QueryOKInit
  <1>2. QueryOK /\ PagesInv /\ [Next]_vars => (QueryOK /\ PagesInv)'
    <2>1. ASSUME QueryOK, PagesInv, [Next]_vars PROVE QueryOK' /\ PagesInv'
      <3>1. QueryOK'
        BY <2>1, QueryOKStep
      <3> QED BY <2>1, <3>1, CallPages, SelectPages, OtherPages DEF Next
    <2> QED BY <2>1
  <1> QED BY <1>1, <1>2, PTL DEF Spec

\* A client that walks through the pages of an unchanged table gets each matching row once
\* and in the order asked for, whatever the sizes, although the database makes a new listing
\* for each page: the tie breaker leaves it no choice (fetch_page, apply_orders).
THEOREM WalksAreExact == Spec => []WalkIsExact
  <1>1. PagesInv => WalkIsExact
    BY DEF PagesInv
  <1> QED BY <1>1, PagesInvariant, PTL

\* A page has as many rows as its total and its number say, and no row twice (fetch_page).
THEOREM PagesAreAsAnnounced == Spec => []PageIsAsAnnounced
  <1>1. PagesInv => PageIsAsAnnounced
    BY DEF PagesInv
  <1> QED BY <1>1, PagesInvariant, PTL
=============================================================================
