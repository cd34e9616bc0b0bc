---------------------------- MODULE MCPageQuery ----------------------------
(* Instances of PageQuery for TLC: three keys, a column with ties, u64 of three bits. *)
EXTENDS PageQuery, TLC

By(field, dir) == [field |-> field, dir |-> dir]

MCRows == [id: 1..3, a: 1..2]
Filters == "small" :> [field |-> "a", op |-> "le"] @@ "after" :> [field |-> "id", op |-> "gt"]
           @@ "range" :> [field |-> "id", op |-> "between"] @@ "ids" :> [field |-> "id", op |-> "in_list"]
SpecOf(sorts, default, tie) ==
    [filters |-> Filters, sorts |-> sorts, default |-> default, tie |-> tie, size |-> 2, max |-> 6]
MCSpecs ==
    {SpecOf({"id", "a"}, <<By("a", "Desc")>>, <<By("id", "Asc")>>),
     SpecOf({"id", "a"}, <<By("a", "Asc"), By("a", "Desc")>>, <<By("id", "Asc")>>),
     SpecOf({"id", "a"}, <<By("id", "Desc")>>, <<By("id", "Asc")>>),
     SpecOf({"a"}, <<By("a", "Asc")>>, <<>>),
     SpecOf({"a"}, <<By("id", "Asc")>>, <<By("id", "Asc")>>),
     SpecOf({}, <<>>, <<>>)}

FilterChoices == {<<>>, "small" :> 1, "after" :> 1, "range" :> <<2, 3>>, "ids" :> <<3, 1>>,
                  "small" :> 1 @@ "after" :> 1}
OrderChoices == {<<>>, <<By("a", "Asc")>>, <<By("a", "Desc"), By("a", "Asc")>>,
                 <<By("id", "Desc")>>, <<By("a", "Asc"), By("id", "Desc")>>}
\* Built by the application, or sent over the wire.
Built(f, o, page, size) == [filters |-> f, orders |-> o, sort |-> <<>>, page |-> page, size |-> size]
Sent(f, o, page, size) == [filters |-> f, orders |-> <<>>, sort |-> o, page |-> page, size |-> size]
MCRequests ==
    {Built(f, o, 1, n) : f \in FilterChoices, o \in OrderChoices, n \in 1..2}
    \cup {Sent(<<>>, <<By("a", d)>>, 1, n) : d \in {"Asc", "Desc"}, n \in 1..2}
    \cup {Built(<<>>, <<>>, k, n) : k \in 0..7, n \in {0, 1, 2, 3, 6, 7}}
=============================================================================
