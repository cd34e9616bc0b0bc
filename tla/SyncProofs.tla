----------------------------- MODULE SyncProofs -----------------------------
(***************************************************************************)
(* Proofs about sync: nothing that Toasty cannot express is ever in the    *)
(* way of a plan, no plan leaves the scope of its source, a sync that says *)
(* that it succeeded has the schema of the models, and one that nobody     *)
(* disturbs comes to it.  And about the splitter that cuts what PostgreSQL *)
(* is to execute: it never reads or cuts beyond the end of any text, and   *)
(* of a text that PgLexical reads it makes the statements that PostgreSQL  *)
(* does.                                                                   *)
(***************************************************************************)
EXTENDS SchemaSync, PgSplit, SequenceTheorems, FunctionTheorems, FiniteSetTheorems, WellFoundedInduction, TLAPS

-----------------------------------------------------------------------------
(* Finite sets                                                               *)

LEMMA ImageIsFinite ==
  ASSUME NEW S, IsFiniteSet(S), NEW f
  PROVE  IsFiniteSet({f[x] : x \in S})
  <1> DEFINE T == {f[x] : x \in S}
             g == [x \in S |-> f[x]]
  <1>1. g \in [S -> T] /\ \A y \in T : \E x \in S : g[x] = y
    OBVIOUS
  <1> HIDE DEF g, T
  <1>2. g \in Surjection(S, T)
    BY <1>1, Fun_IsSurj
  <1>3. IsFiniteSet(T)
    BY <1>2, FS_Surjection
  <1> QED BY <1>3 DEF T

LEMMA FamilyIsFinite ==
  ASSUME NEW S, IsFiniteSet(S), NEW f, \A x \in S : IsFiniteSet(f[x])
  PROVE  IsFiniteSet(UNION {f[x] : x \in S})
  <1>1. IsFiniteSet({f[x] : x \in S}) /\ \A y \in {f[x] : x \in S} : IsFiniteSet(y)
    BY ImageIsFinite
  <1> QED BY <1>1, FS_UNION

\* A finite set as a sequence: all of it, and each element once.
LEMMA SequenceOf ==
  ASSUME NEW S, IsFiniteSet(S)
  PROVE  /\ SetToSeq(S) \in Seq(S) /\ Range(SetToSeq(S)) = S
         /\ \A i, j \in 1..Len(SetToSeq(S)) : SetToSeq(S)[i] = SetToSeq(S)[j] => i = j
  <1> DEFINE n == Cardinality(S)
             q == SetToSeq(S)
  <1>1. n \in Nat /\ ExistsBijection(1..n, S)
    BY FS_CardinalityType
  <1>2. PICK f \in [1..n -> S] : IsInjective(f)
    <2>1. PICK f : f \in Bijection(1..n, S)
      BY <1>1 DEF ExistsBijection
    <2>2. f \in [1..n -> S] /\ IsInjective(f)
      BY <2>1 DEF Bijection, Injection, IsInjective
    <2> QED BY <2>2
  <1>3. q \in [1..n -> S] /\ IsInjective(q)
    BY <1>2 DEF SetToSeq
  <1>4. q \in Surjection(1..n, S)
    <2>1. q \in Injection(1..n, S)
      BY <1>3 DEF Injection, IsInjective
    <2>2. IsFiniteSet(1..n) /\ Cardinality(1..n) = n
      BY <1>1, FS_Interval
    <2> HIDE DEF q, n
    <2> QED BY <1>1, <2>1, <2>2, FS_Injection DEF n
  <1> HIDE DEF q
  <1>5. Range(q) = S
    BY <1>3, <1>4 DEF Range, Surjection
  <1>6. q \in Seq(S) /\ Len(q) = n
    BY <1>1, <1>3
  <1>7. \A i, j \in 1..Len(q) : q[i] = q[j] => i = j
    BY <1>3, <1>6 DEF IsInjective
  <1> QED BY <1>5, <1>6, <1>7 DEF q

-----------------------------------------------------------------------------
(* The statements of a plan                                                  *)

IsFinite(schema) ==
    /\ IsFiniteSet(DOMAIN schema)
    /\ \A t \in DOMAIN schema : IsFiniteSet(DOMAIN schema[t].cols) /\ IsFiniteSet(schema[t].idx)

\* The names of what can be changed.
Names(schema) ==
    (UNION {DOMAIN schema[t].cols : t \in DOMAIN schema})
    \cup (UNION {{i.name : i \in schema[t].idx} : t \in DOMAIN schema})

LEMMA NamesHold ==
  ASSUME NEW schema, NEW t \in DOMAIN schema
  PROVE  /\ \A c \in DOMAIN schema[t].cols : c \in Names(schema)
         /\ \A i \in schema[t].idx : i.name \in Names(schema)
  <1>1. ASSUME NEW c \in DOMAIN schema[t].cols PROVE c \in Names(schema)
    BY DEF Names
  <1>2. ASSUME NEW i \in schema[t].idx PROVE i.name \in Names(schema)
    <2>1. i.name \in {j.name : j \in schema[t].idx}
      OBVIOUS
    <2> QED BY <2>1 DEF Names
  <1> QED BY <1>1, <1>2

LEMMA NamesAreFinite == ASSUME NEW schema, IsFinite(schema) PROVE IsFiniteSet(Names(schema))
  <1> DEFINE columns == [t \in DOMAIN schema |-> DOMAIN schema[t].cols]
             indices == [t \in DOMAIN schema |-> {i.name : i \in schema[t].idx}]
             A == UNION {columns[t] : t \in DOMAIN schema}
             B == UNION {indices[t] : t \in DOMAIN schema}
  <1>1. \A t \in DOMAIN schema : IsFiniteSet(columns[t])
    BY DEF IsFinite
  <1>2. ASSUME NEW t \in DOMAIN schema PROVE IsFiniteSet(indices[t])
    <2>1. IsFiniteSet({[j \in schema[t].idx |-> j.name][i] : i \in schema[t].idx})
      BY ImageIsFinite DEF IsFinite
    <2> QED BY <2>1
  <1>3. Names(schema) = A \cup B
    BY DEF Names
  <1>4. IsFiniteSet(DOMAIN schema)
    BY DEF IsFinite
  <1> HIDE DEF columns, indices
  <1>5. IsFiniteSet(A)
    BY <1>1, <1>4, FamilyIsFinite
  <1>6. IsFiniteSet(B)
    BY <1>2, <1>4, FamilyIsFinite
  <1> HIDE DEF A, B
  <1> QED BY <1>3, <1>5, <1>6, FS_Union

\* The order of the statements in a plan.
Phase(do) ==
    CASE do = "drop_table" -> 1 [] do = "drop_index" -> 2 [] do = "create_table" -> 3 [] do = "drop_column" -> 4
      [] do = "add_column" -> 5 [] do = "alter_column" -> 6 [] do = "create_index" -> 7

Ordered(planned) ==
    \A i, j \in 1..Len(planned) : i < j =>
        planned[i] # planned[j] /\ Phase(planned[i].do) <= Phase(planned[j].do)

\* Statements of the first n phases, each of a set once and in order.
Goes(planned, n, all) ==
    /\ planned \in Seq(Range(planned)) /\ Range(planned) = all
    /\ Ordered(planned)
    /\ \A s \in all : Phase(s.do) \in Nat /\ Phase(s.do) <= n

Made(do, pairs) == {Statement(do, x[1], x[2]) : x \in pairs}
Listed(do, pairs) == SetToSeq(Made(do, pairs))

LEMMA MadePhase == ASSUME NEW do, NEW pairs PROVE \A s \in Made(do, pairs) : s.do = do /\ Phase(s.do) = Phase(do)
  BY DEF Made, Statement

LEMMA ListedGoes ==
  ASSUME NEW do, NEW T, IsFiniteSet(T), NEW N, IsFiniteSet(N), NEW pairs \in SUBSET (T \X N), Phase(do) \in Nat
  PROVE  Goes(Listed(do, pairs), Phase(do), Made(do, pairs))
  <1> DEFINE f == [x \in pairs |-> Statement(do, x[1], x[2])]
             S == Made(do, pairs)
             q == Listed(do, pairs)
  <1>1. IsFiniteSet(pairs)
    <2>1. IsFiniteSet(T \X N)
      BY FS_Product
    <2> QED BY <2>1, FS_Subset
  <1>2. IsFiniteSet({f[x] : x \in pairs})
    BY <1>1, ImageIsFinite
  <1>3. {f[x] : x \in pairs} = S
    BY DEF Made
  <1>4. \A s \in S : s.do = do
    BY MadePhase
  <1>5. q = SetToSeq(S)
    BY DEF Listed
  <1> HIDE DEF f, S, q
  <1>6. q \in Seq(S) /\ Range(q) = S /\ \A i, j \in 1..Len(q) : q[i] = q[j] => i = j
    BY <1>2, <1>3, <1>5, SequenceOf
  <1>7. \A i \in 1..Len(q) : q[i] \in S
    BY <1>6
  <1>8. Ordered(q)
    BY <1>4, <1>6, <1>7 DEF Ordered
  <1>9. Goes(q, Phase(do), S)
    BY <1>4, <1>6, <1>8 DEF Goes
  <1> QED BY <1>9 DEF q, S

LEMMA GoesOnWith ==
  ASSUME NEW a, NEW n \in Nat, NEW S, Goes(a, n, S),
         NEW b, NEW m \in Nat, NEW R, Goes(b, m, R), n < m, \A s \in R : Phase(s.do) = m
  PROVE  Goes(a \o b, m, S \cup R)
  <1> DEFINE V == S \cup R
             c == a \o b
  <1>1. a \in Seq(S) /\ b \in Seq(R) /\ Range(a) = S /\ Range(b) = R
    BY DEF Goes
  <1>2. /\ c \in Seq(V) /\ Len(c) = Len(a) + Len(b) /\ Len(a) \in Nat /\ Len(b) \in Nat
        /\ \A i \in 1..Len(c) : IF i <= Len(a) THEN i \in 1..Len(a) /\ c[i] = a[i]
                                ELSE i - Len(a) \in 1..Len(b) /\ c[i] = b[i - Len(a)]
    <2>1. a \in Seq(V) /\ b \in Seq(V)
      BY <1>1
    <2> HIDE DEF V
    <2> QED BY <2>1
  <1> HIDE DEF c
  <1>3. Range(c) = V
    <2>1. ASSUME NEW s \in S PROVE s \in Range(c)
      <3>1. PICK i \in 1..Len(a) : s = a[i]
        BY <1>1 DEF Range
      <3>2. i \in 1..Len(c) /\ c[i] = s
        BY <1>2, <3>1
      <3> QED BY <1>2, <3>2 DEF Range
    <2>2. ASSUME NEW s \in R PROVE s \in Range(c)
      <3>1. PICK i \in 1..Len(b) : s = b[i]
        BY <1>1 DEF Range
      <3>2. i + Len(a) \in 1..Len(c) /\ c[i + Len(a)] = s
        BY <1>2, <3>1
      <3> QED BY <1>2, <3>2 DEF Range
    <2>3. Range(c) \subseteq V
      BY <1>2 DEF Range
    <2> QED BY <2>1, <2>2, <2>3
  <1>4. \A i \in 1..Len(a) : a[i] \in S /\ Phase(a[i].do) \in Nat /\ Phase(a[i].do) <= n
    BY <1>1 DEF Goes
  <1>5. \A i \in 1..Len(b) : b[i] \in R /\ Phase(b[i].do) = m
    BY <1>1
  <1>6. Ordered(c)
    <2> SUFFICES ASSUME NEW i \in 1..Len(c), NEW j \in 1..Len(c), i < j
                 PROVE  c[i] # c[j] /\ Phase(c[i].do) <= Phase(c[j].do)
      BY DEF Ordered
    <2>1. CASE j <= Len(a)
      <3>1. i \in 1..Len(a) /\ j \in 1..Len(a) /\ c[i] = a[i] /\ c[j] = a[j]
        BY <1>2, <2>1
      <3> QED BY <3>1 DEF Goes, Ordered
    <2>2. CASE i > Len(a)
      <3>1. /\ i - Len(a) \in 1..Len(b) /\ j - Len(a) \in 1..Len(b) /\ i - Len(a) < j - Len(a)
            /\ c[i] = b[i - Len(a)] /\ c[j] = b[j - Len(a)]
        BY <1>2, <2>2
      <3> QED BY <3>1 DEF Goes, Ordered
    <2>3. CASE i <= Len(a) /\ j > Len(a)
      <3>1. i \in 1..Len(a) /\ c[i] = a[i] /\ j - Len(a) \in 1..Len(b) /\ c[j] = b[j - Len(a)]
        BY <1>2, <2>3
      <3>2. Phase(c[i].do) \in Nat /\ Phase(c[i].do) <= n /\ Phase(c[j].do) = m
        BY <1>4, <1>5, <3>1
      <3> QED BY <3>2
    <2> QED BY <1>2, <2>1, <2>2, <2>3
  <1>7. \A s \in V : Phase(s.do) \in Nat /\ Phase(s.do) <= m
    BY DEF Goes
  <1> QED BY <1>2, <1>3, <1>6, <1>7 DEF Goes, c

\* What a diff asks for.
Called(from, to, s) ==
    LET t == s.table
        both == t \in DOMAIN from /\ t \in DOMAIN to
    IN
    /\ s = Statement(s.do, s.table, s.name)
    /\ \/ s.do = "drop_table" /\ t \in DOMAIN from \ DOMAIN to /\ s.name = ""
       \/ s.do = "drop_index" /\ both /\ \E i \in Changed(from[t].idx, to[t].idx) : i.name = s.name
       \/ s.do = "create_table" /\ t \in DOMAIN to \ DOMAIN from /\ s.name = ""
       \/ s.do = "drop_column" /\ both /\ s.name \in DOMAIN from[t].cols \ DOMAIN to[t].cols
       \/ s.do = "add_column" /\ both /\ s.name \in DOMAIN to[t].cols \ DOMAIN from[t].cols
       \/ /\ s.do = "alter_column" /\ both /\ s.name \in DOMAIN from[t].cols \cap DOMAIN to[t].cols
          /\ from[t].cols[s.name] # to[t].cols[s.name]
       \/ /\ s.do = "create_index" /\ t \in DOMAIN to
          /\ \E i \in (IF t \in DOMAIN from THEN Changed(to[t].idx, from[t].idx) ELSE {j \in to[t].idx : ~j.pk}) :
                i.name = s.name

\* An index that the other schema has more than once is asked for, too.
Doubled(repeated, s) ==
    s = Statement("create_index", s.table, s.name) /\ <<s.table, s.name>> \in repeated

LEMMA DiffIs ==
  ASSUME NEW from, NEW to, IsFinite(from), IsFinite(to), NEW repeated \in SUBSET ((DOMAIN to) \X Names(to))
  PROVE  LET d == Diff(from, to, repeated)
         IN  /\ d \in Seq(Range(d)) /\ Ordered(d)
             /\ \A s : s \in Range(d) <=> Called(from, to, s) \/ Doubled(repeated, s)
  <1> DEFINE N == Names(from) \cup Names(to) \cup {""}
             T == DOMAIN from \cup DOMAIN to
             both == DOMAIN from \cap DOMAIN to
             columns(a, b) == UNION {{<<t, c>> : c \in DOMAIN a[t].cols \ DOMAIN b[t].cols} : t \in both}
             dropped == columns(from, to)
             added == columns(to, from)
             altered == UNION {{<<t, c>> : c \in {d \in DOMAIN from[t].cols \cap DOMAIN to[t].cols :
                                                from[t].cols[d] # to[t].cols[d]}} : t \in both}
             made(t) == IF t \in both THEN Changed(to[t].idx, from[t].idx) ELSE {i \in to[t].idx : ~i.pk}
             left == UNION {{<<t, i.name>> : i \in Changed(from[t].idx, to[t].idx)} : t \in both}
             asked == UNION {{<<t, i.name>> : i \in made(t)} : t \in DOMAIN to}
             new == repeated \cup asked
             gone == (DOMAIN from \ DOMAIN to) \X {""}
             missing == (DOMAIN to \ DOMAIN from) \X {""}
  <1>1. Diff(from, to, repeated) = Listed("drop_table", gone) \o Listed("drop_index", left) \o Listed("create_table", missing)
                         \o Listed("drop_column", dropped) \o Listed("add_column", added)
                         \o Listed("alter_column", altered) \o Listed("create_index", new)
    BY DEF Diff, Listed, Made
  <1>2. IsFiniteSet(N) /\ IsFiniteSet(T)
    <2>1. IsFiniteSet(Names(from)) /\ IsFiniteSet(Names(to)) /\ IsFiniteSet({""})
      BY NamesAreFinite, FS_Singleton
    <2>2. IsFiniteSet(N)
      BY <2>1, FS_Union
    <2> QED BY <2>2, FS_Union DEF IsFinite
  <1>3. \A t \in DOMAIN from : \A c \in DOMAIN from[t].cols : c \in N
    BY NamesHold
  <1>4. \A t \in DOMAIN to : \A c \in DOMAIN to[t].cols : c \in N
    BY NamesHold
  <1>5. \A t \in DOMAIN from : \A i \in from[t].idx : i.name \in N
    BY NamesHold
  <1>6. \A t \in DOMAIN to : \A i \in to[t].idx : i.name \in N
    BY NamesHold
  <1>7. "" \in N
    OBVIOUS
  <1>8. \A t, c : <<t, c>> \in dropped <=> t \in both /\ c \in DOMAIN from[t].cols \ DOMAIN to[t].cols
    OBVIOUS
  <1>9. \A t, c : <<t, c>> \in added <=> t \in both /\ c \in DOMAIN to[t].cols \ DOMAIN from[t].cols
    OBVIOUS
  <1>10. \A t, c : <<t, c>> \in altered <=> /\ t \in both /\ c \in DOMAIN from[t].cols \cap DOMAIN to[t].cols
                                            /\ from[t].cols[c] # to[t].cols[c]
    OBVIOUS
  <1>11. \A t, n : <<t, n>> \in left <=> t \in both /\ \E i \in Changed(from[t].idx, to[t].idx) : i.name = n
    OBVIOUS
  <1>12. \A t, n : <<t, n>> \in asked <=> t \in DOMAIN to /\ \E i \in made(t) : i.name = n
    OBVIOUS
  <1> HIDE DEF N
  <1>13. gone \in SUBSET (T \X N) /\ missing \in SUBSET (T \X N)
    BY <1>7
  <1>14. dropped \in SUBSET (T \X N) /\ added \in SUBSET (T \X N) /\ altered \in SUBSET (T \X N)
    BY <1>3, <1>4
  <1>15. left \in SUBSET (T \X N)
    BY <1>5 DEF Changed
  <1>16. new \in SUBSET (T \X N)
    <2>1. asked \in SUBSET (T \X N)
      BY <1>6 DEF Changed
    <2>2. repeated \in SUBSET (T \X N)
      BY DEF N
    <2> QED BY <2>1, <2>2
  <1>26. \A x : x \in new <=> x \in asked \/ x \in repeated
    OBVIOUS
  <1> HIDE DEF T, asked, gone, missing, dropped, added, altered, left, new
  <1>17. Goes(Listed("drop_table", gone), 1, Made("drop_table", gone))
    BY <1>2, <1>13, ListedGoes DEF Phase
  <1>18. Goes(Listed("drop_index", left), 2, Made("drop_index", left))
    BY <1>2, <1>15, ListedGoes DEF Phase
  <1>19. Goes(Listed("create_table", missing), 3, Made("create_table", missing))
    BY <1>2, <1>13, ListedGoes DEF Phase
  <1>20. Goes(Listed("drop_column", dropped), 4, Made("drop_column", dropped))
    BY <1>2, <1>14, ListedGoes DEF Phase
  <1>21. Goes(Listed("add_column", added), 5, Made("add_column", added))
    BY <1>2, <1>14, ListedGoes DEF Phase
  <1>22. Goes(Listed("alter_column", altered), 6, Made("alter_column", altered))
    BY <1>2, <1>14, ListedGoes DEF Phase
  <1>23. Goes(Listed("create_index", new), 7, Made("create_index", new))
    BY <1>2, <1>16, ListedGoes DEF Phase
  <1> DEFINE all == Made("drop_table", gone) \cup Made("drop_index", left) \cup Made("create_table", missing)
                    \cup Made("drop_column", dropped) \cup Made("add_column", added)
                    \cup Made("alter_column", altered) \cup Made("create_index", new)
  <1>24. Goes(Diff(from, to, repeated), 7, all)
    <2> DEFINE L(do, pairs) == Listed(do, pairs)
               a == L("drop_table", gone) \o L("drop_index", left)
               A == Made("drop_table", gone) \cup Made("drop_index", left)
               b == a \o L("create_table", missing)
               B == A \cup Made("create_table", missing)
               c == b \o L("drop_column", dropped)
               C == B \cup Made("drop_column", dropped)
               d == c \o L("add_column", added)
               D == C \cup Made("add_column", added)
               e == d \o L("alter_column", altered)
               E == D \cup Made("alter_column", altered)
    <2>1. Goes(a, 2, A)
      BY <1>17, <1>18, MadePhase, GoesOnWith DEF Phase
    <2> HIDE DEF a, A
    <2>2. Goes(b, 3, B)
      BY <2>1, <1>19, MadePhase, GoesOnWith DEF Phase
    <2> HIDE DEF b, B
    <2>3. Goes(c, 4, C)
      BY <2>2, <1>20, MadePhase, GoesOnWith DEF Phase
    <2> HIDE DEF c, C
    <2>4. Goes(d, 5, D)
      BY <2>3, <1>21, MadePhase, GoesOnWith DEF Phase
    <2> HIDE DEF d, D
    <2>5. Goes(e, 6, E)
      BY <2>4, <1>22, MadePhase, GoesOnWith DEF Phase
    <2> HIDE DEF e, E
    <2>6. Goes(e \o L("create_index", new), 7, E \cup Made("create_index", new))
      BY <2>5, <1>23, MadePhase, GoesOnWith DEF Phase
    <2>7. Diff(from, to, repeated) = e \o L("create_index", new) /\ all = E \cup Made("create_index", new)
      BY <1>1 DEF a, b, c, d, e, A, B, C, D, E
    <2> QED BY <2>6, <2>7
  <1>25. ASSUME NEW s PROVE s \in all <=> Called(from, to, s) \/ Doubled(repeated, s)
    <2>1. \A do, pairs : s \in Made(do, pairs) => s = Statement(s.do, s.table, s.name) /\ s.do = do
      BY DEF Made, Statement
    <2>2. ASSUME NEW do, NEW pairs, \A x \in pairs : x = <<x[1], x[2]>>
          PROVE  s \in Made(do, pairs) <=>
                    s = Statement(s.do, s.table, s.name) /\ s.do = do /\ <<s.table, s.name>> \in pairs
      BY <2>2 DEF Made, Statement
    <2>3. \A pairs \in SUBSET (T \X N) : \A x \in pairs : x = <<x[1], x[2]>>
      OBVIOUS
    <2> DEFINE is == s = Statement(s.do, s.table, s.name)
               t == s.table
    <2>6. s \in all <=> /\ is
                        /\ \/ s.do = "drop_table" /\ <<t, s.name>> \in gone
                           \/ s.do = "drop_index" /\ <<t, s.name>> \in left
                           \/ s.do = "create_table" /\ <<t, s.name>> \in missing
                           \/ s.do = "drop_column" /\ <<t, s.name>> \in dropped
                           \/ s.do = "add_column" /\ <<t, s.name>> \in added
                           \/ s.do = "alter_column" /\ <<t, s.name>> \in altered
                           \/ s.do = "create_index" /\ <<t, s.name>> \in new
      <3>1. s \in Made("drop_table", gone) <=> is /\ s.do = "drop_table" /\ <<t, s.name>> \in gone
        BY <2>2, <2>3, <1>13
      <3>2. s \in Made("drop_index", left) <=> is /\ s.do = "drop_index" /\ <<t, s.name>> \in left
        BY <2>2, <2>3, <1>15
      <3>3. s \in Made("create_table", missing) <=> is /\ s.do = "create_table" /\ <<t, s.name>> \in missing
        BY <2>2, <2>3, <1>13
      <3>4. s \in Made("drop_column", dropped) <=> is /\ s.do = "drop_column" /\ <<t, s.name>> \in dropped
        BY <2>2, <2>3, <1>14
      <3>5. s \in Made("add_column", added) <=> is /\ s.do = "add_column" /\ <<t, s.name>> \in added
        BY <2>2, <2>3, <1>14
      <3>6. s \in Made("alter_column", altered) <=> is /\ s.do = "alter_column" /\ <<t, s.name>> \in altered
        BY <2>2, <2>3, <1>14
      <3>7. s \in Made("create_index", new) <=> is /\ s.do = "create_index" /\ <<t, s.name>> \in new
        BY <2>2, <2>3, <1>16
      <3> HIDE DEF is, t
      <3> QED BY <3>1, <3>2, <3>3, <3>4, <3>5, <3>6, <3>7
    <2>4. <<t, s.name>> \in gone <=> t \in DOMAIN from \ DOMAIN to /\ s.name = ""
      BY DEF gone
    <2>11. <<t, s.name>> \in missing <=> t \in DOMAIN to \ DOMAIN from /\ s.name = ""
      BY DEF missing
    <2>5. /\ <<t, s.name>> \in dropped <=> t \in both /\ s.name \in DOMAIN from[t].cols \ DOMAIN to[t].cols
          /\ <<t, s.name>> \in added <=> t \in both /\ s.name \in DOMAIN to[t].cols \ DOMAIN from[t].cols
      BY <1>8, <1>9
    <2>7. <<t, s.name>> \in altered <=> /\ t \in both /\ s.name \in DOMAIN from[t].cols \cap DOMAIN to[t].cols
                                       /\ from[t].cols[s.name] # to[t].cols[s.name]
      BY <1>10
    <2>8. <<t, s.name>> \in left <=> t \in both /\ \E i \in Changed(from[t].idx, to[t].idx) : i.name = s.name
      BY <1>11
    <2>9. <<t, s.name>> \in asked <=>
            /\ t \in DOMAIN to
            /\ \E i \in (IF t \in DOMAIN from THEN Changed(to[t].idx, from[t].idx) ELSE {j \in to[t].idx : ~j.pk}) :
                  i.name = s.name
      <3>1. t \in DOMAIN to => (t \in both <=> t \in DOMAIN from)
        OBVIOUS
      <3>2. <<t, s.name>> \in asked <=> t \in DOMAIN to /\ \E i \in made(t) : i.name = s.name
        BY <1>12
      <3> QED BY <3>1, <3>2
    <2> HIDE DEF all
    <2>10. t \in both <=> t \in DOMAIN from /\ t \in DOMAIN to
      OBVIOUS
    <2> HIDE DEF both
    <2>12. <<t, s.name>> \in new <=> <<t, s.name>> \in asked \/ <<t, s.name>> \in repeated
      BY <1>26
    <2>13. Doubled(repeated, s) <=> is /\ s.do = "create_index" /\ <<t, s.name>> \in repeated
      BY DEF Doubled, Statement
    <2>14. Called(from, to, s) <=> /\ is
                                   /\ \/ s.do = "drop_table" /\ <<t, s.name>> \in gone
                                      \/ s.do = "drop_index" /\ <<t, s.name>> \in left
                                      \/ s.do = "create_table" /\ <<t, s.name>> \in missing
                                      \/ s.do = "drop_column" /\ <<t, s.name>> \in dropped
                                      \/ s.do = "add_column" /\ <<t, s.name>> \in added
                                      \/ s.do = "alter_column" /\ <<t, s.name>> \in altered
                                      \/ s.do = "create_index" /\ <<t, s.name>> \in asked
      BY <2>4, <2>5, <2>7, <2>8, <2>9, <2>10, <2>11 DEF Called
    <2> HIDE DEF is, t
    <2> QED BY <2>6, <2>12, <2>13, <2>14
  <1> HIDE DEF all
  <1> QED BY <1>24, <1>25 DEF Goes

\* A plan is made from a schema to one that has no index more than once.
LEMMA PlanIs ==
  ASSUME NEW from, NEW to, IsFinite(from), IsFinite(to)
  PROVE  LET d == Diff(from, to, {})
         IN  /\ d \in Seq(Range(d)) /\ Ordered(d)
             /\ \A s : s \in Range(d) <=> Called(from, to, s)
  <1> DEFINE none == {}
             d == Diff(from, to, none)
  <1>1. none \in SUBSET ((DOMAIN to) \X Names(to))
    OBVIOUS
  <1>2. \A s : ~Doubled(none, s)
    BY DEF Doubled
  <1> HIDE DEF none
  <1>3. d \in Seq(Range(d)) /\ Ordered(d) /\ \A s : s \in Range(d) <=> Called(from, to, s) \/ Doubled(none, s)
    BY <1>1, DiffIs
  <1> HIDE DEF d
  <1>4. d \in Seq(Range(d)) /\ Ordered(d) /\ \A s : s \in Range(d) <=> Called(from, to, s)
    BY <1>2, <1>3
  <1> QED BY <1>4 DEF d, none

\* A plan for a source: what it makes is of the source's models, and what else it
\* changes is in scope.
Creating == {"create_table", "create_index"}
Changing == {"drop_table", "drop_index", "drop_column", "add_column", "alter_column"}
Proper(source, s) ==
    LET target == world.targets[source] IN
    /\ s.do \in Creating \cup Changing
    /\ s.do \in Creating => s.table \in DOMAIN target
    /\ s.do \in Changing => IsManaged(source, s.table)
    /\ s.do = "drop_table" => s.table \notin DOMAIN target
    /\ s.do \in {"add_column", "alter_column"} => s.table \in DOMAIN target /\ s.name \in DOMAIN target[s.table].cols

IsPlan(source, planned) ==
    /\ planned \in Seq(Range(planned)) /\ Ordered(planned)
    /\ \A i \in 1..Len(planned) : Proper(source, planned[i])

LEMMA DiffIsPlan ==
  ASSUME NEW source, NEW from, IsFinite(from), IsFinite(world.targets[source]),
         \A t \in DOMAIN from : IsManaged(source, t)
  PROVE  IsPlan(source, Diff(from, world.targets[source], {}))
  <1> DEFINE to == world.targets[source]
             d == Diff(from, to, {})
  <1>1. d \in Seq(Range(d)) /\ Ordered(d) /\ \A s \in Range(d) : Called(from, to, s)
    BY PlanIs
  <1>2. ASSUME NEW s, Called(from, to, s) PROVE Proper(source, s)
    BY <1>2 DEF Called, Proper, Changing, Creating
  <1>3. \A i \in 1..Len(d) : d[i] \in Range(d)
    BY DEF Range
  <1> HIDE DEF d
  <1> QED BY <1>1, <1>2, <1>3 DEF IsPlan, d

-----------------------------------------------------------------------------
(* What the statements of a plan do to a schema                              *)

WorldKnown == \E s \in Scenarios : world = s.world

\* What a world is made of.
LEMMA WorldIs ==
  ASSUME WorldKnown
  PROVE  /\ Backend \in {"sqlite", "postgresql", "mysql"}
         /\ world.calls \subseteq Operations
         /\ \A schema \in world.others : IsSchema(Backend, schema)
         /\ \A source \in Range(Sources) :
               /\ IsModels(Backend, world.targets[source])
               /\ world.scopes[source].kind \in {"managed", "tables", "prefixes", "exclusive"}
  BY ScenariosAssumption DEF WorldKnown, Backend

\* What the types of its backend are.
LEMMA TypesAre ==
  ASSUME WorldKnown
  PROVE  /\ \A n \in NativeTypes(Backend) : Stores(Backend, n) # <<>> => Inferred(Backend, n) # Unreadable
         /\ \A n \in NativeTypes(Backend), t \in StorageTypes(Backend) :
               ReadType(Backend, n, {t}) = t /\ ~Blurred(Backend, n) =>
                  Stores(Backend, n) = Stores(Backend, Declared(Backend, t))
         /\ \A t \in StorageTypes(Backend) : t # Unreadable /\ Declared(Backend, t) \in NativeTypes(Backend)
         /\ \A t \in StorageTypes(Backend) : t \in Settling(Backend) =>
               ReadType(Backend, Declared(Backend, t), {t}) = t /\ Stores(Backend, Declared(Backend, t)) # <<>>
  <1>1. PICK s \in Scenarios : world = s.world
    BY DEF WorldKnown
  <1>2. Backend = s.world.backend
    BY <1>1 DEF Backend
  <1> HIDE DEF Blurred
  <1> QED BY <1>2, TypesAssumption

\* What an index of the models is like.
IsModelIndex(i, table) ==
    /\ DOMAIN i = {"name", "cols", "unique", "pk", "partial", "constraint"}
    /\ i.unique \in BOOLEAN /\ i.pk \in BOOLEAN /\ i.partial = FALSE /\ i.constraint = FALSE /\ i.cols # <<>>
    /\ Range(i.cols) \subseteq DOMAIN table.cols /\ Expression \notin Range(i.cols)
    /\ \A j \in table.idx : (i.name = j.name => i = j) /\ (i.pk /\ j.pk => i = j)

LEMMA ModelIs ==
  ASSUME NEW target, IsModels(Backend, target), NEW t \in DOMAIN target
  PROVE  /\ IsTable(target[t])
         /\ \A c \in DOMAIN target[t].cols : target[t].cols[c] \in StorageTypes(Backend)
         /\ \A i \in target[t].idx : IsModelIndex(i, target[t])
         /\ \E i \in target[t].idx : i.pk
  <1>1. IsTable(target[t])
    BY DEF IsModels
  <1>2. PICK key \in target[t].idx : key.pk /\ \A j \in target[t].idx : j.pk => j = key
    BY DEF IsModels
  <1>3. \A i \in target[t].idx : ~i.partial /\ ~i.constraint /\ Range(i.cols) \subseteq DOMAIN target[t].cols \ {Expression}
    BY DEF IsModels
  <1>4. \A i \in target[t].idx :
           /\ DOMAIN i = {"name", "cols", "unique", "pk", "partial", "constraint"}
           /\ {i.unique, i.pk, i.partial, i.constraint} \subseteq BOOLEAN /\ i.cols # <<>>
           /\ \A j \in target[t].idx : i.name = j.name => i = j
    BY <1>1 DEF IsTable
  <1>5. \A c \in DOMAIN target[t].cols : target[t].cols[c] \in StorageTypes(Backend)
    BY DEF IsModels
  <1>6. ASSUME NEW i \in target[t].idx PROVE IsModelIndex(i, target[t])
    BY <1>2, <1>3, <1>4 DEF IsModelIndex
  <1> QED BY <1>1, <1>2, <1>5, <1>6

Clean(table) == table.odd = {} /\ \A i \in table.idx : Expression \notin Range(i.cols)

Kept(source, t, a, b) ==
    /\ t \in DOMAIN b /\ b[t].cols = a[t].cols /\ b[t].odd = a[t].odd
    /\ \/ b[t].idx = a[t].idx
       \/ a[t].idx \subseteq b[t].idx /\ t \in DOMAIN world.targets[source]

\* The primary keys of the models' tables stay.
KeysStay(source, a, b) ==
    \A t \in DOMAIN a \cap DOMAIN world.targets[source] :
        t \in DOMAIN b /\ \A i \in a[t].idx : i.pk => i \in b[t].idx

Evolves(source, a, b) ==
    /\ \A t \in DOMAIN b : t \in DOMAIN a \/ t \in DOMAIN world.targets[source]
    /\ \A t \in DOMAIN a : IsManaged(source, t) \/ Kept(source, t, a, b)
    /\ \A t \in DOMAIN b : (t \in DOMAIN a => Clean(a[t])) => Clean(b[t])
    /\ KeysStay(source, a, b)

LEMMA EvolvesFurther ==
  ASSUME NEW source, NEW a, NEW b, NEW c, Evolves(source, a, b), Evolves(source, b, c)
  PROVE  Evolves(source, a, c)
  <1>1. \A t \in DOMAIN c : t \in DOMAIN a \/ t \in DOMAIN world.targets[source]
    BY DEF Evolves
  <1>2. ASSUME NEW t \in DOMAIN a, ~IsManaged(source, t) PROVE Kept(source, t, a, c)
    <2>1. Kept(source, t, a, b) /\ Kept(source, t, b, c)
      BY <1>2 DEF Evolves, Kept
    <2> QED BY <2>1 DEF Kept
  <1>3. ASSUME NEW t \in DOMAIN c, t \in DOMAIN a => Clean(a[t]) PROVE Clean(c[t])
    BY <1>3 DEF Evolves
  <1>4. KeysStay(source, a, c)
    BY DEF Evolves, KeysStay
  <1> QED BY <1>1, <1>2, <1>3, <1>4 DEF Evolves

LEMMA EvolvesNowhere == ASSUME NEW source, NEW a PROVE Evolves(source, a, a)
  BY DEF Evolves, Kept, KeysStay

\* A table is made or changed.
LEMMA PutEvolves ==
  ASSUME NEW source, NEW a, IsSchema(Backend, a), NEW t, NEW new,
         DOMAIN new = {"cols", "idx", "odd"}, IsTable(new),
         \A c \in DOMAIN new.cols : new.cols[c] \in NativeTypes(Backend),
         t \notin DOMAIN a => t \in DOMAIN world.targets[source] /\ new.odd = {} /\ Clean(new),
         t \in DOMAIN a =>
            /\ new.odd = a[t].odd /\ (Clean(a[t]) => Clean(new)) /\ \A i \in a[t].idx : i.pk => i \in new.idx
            /\ \/ IsManaged(source, t)
               \/ /\ new.cols = a[t].cols /\ a[t].idx \subseteq new.idx
                  /\ t \in DOMAIN world.targets[source]
  PROVE  IsSchema(Backend, Put(a, t, new)) /\ Evolves(source, a, Put(a, t, new))
  <1> DEFINE b == Put(a, t, new)
  <1>1. DOMAIN b = DOMAIN a \cup {t} /\ b[t] = new /\ \A u \in DOMAIN a \ {t} : b[u] = a[u]
    BY DEF Put
  <1> HIDE DEF b
  <1>2. IsFiniteSet(DOMAIN b)
    BY <1>1, FS_AddElement DEF IsSchema
  <1>3. IsSchema(Backend, b)
    BY <1>1, <1>2 DEF IsSchema
  <1>4. ASSUME NEW u \in DOMAIN a, ~IsManaged(source, u) PROVE Kept(source, u, a, b)
    BY <1>1, <1>4 DEF Kept
  <1>5. KeysStay(source, a, b)
    BY <1>1 DEF KeysStay
  <1>6. Evolves(source, a, b)
    BY <1>1, <1>4, <1>5 DEF Evolves
  <1> QED BY <1>3, <1>6 DEF b

LEMMA TakenHolds ==
  ASSUME NEW schema, NEW t \in DOMAIN schema
  PROVE  \A i \in schema[t].idx : i.name \in Taken(schema, t)
  <1> SUFFICES ASSUME NEW i \in schema[t].idx PROVE i.name \in Taken(schema, t)
    OBVIOUS
  <1>1. i.name \in {j.name : j \in schema[t].idx}
    OBVIOUS
  <1> QED BY <1>1 DEF Taken, IndexNames

LEMMA ExecuteEvolves ==
  ASSUME WorldKnown, NEW source, IsModels(Backend, world.targets[source]), NEW a, IsSchema(Backend, a),
         NEW s, Proper(source, s)
  PROVE  LET b == Execute(a, world.targets[source], s)[1]
         IN  IsSchema(Backend, b) /\ Evolves(source, a, b)
  <1> DEFINE target == world.targets[source]
             t == s.table
             table == a[t]
             column(c) == Declared(Backend, target[t].cols[c])
             done == Execute(a, target, s)
             Good == IsSchema(Backend, done[1]) /\ Evolves(source, a, done[1])
  <1> SUFFICES Good
    OBVIOUS
  <1> HIDE DEF Good
  <1>1. ASSUME NEW new, done = <<Put(a, t, new), TRUE>>,
               DOMAIN new = {"cols", "idx", "odd"}, IsTable(new),
               \A c \in DOMAIN new.cols : new.cols[c] \in NativeTypes(Backend),
               t \notin DOMAIN a => t \in DOMAIN target /\ new.odd = {} /\ Clean(new),
               t \in DOMAIN a =>
                  /\ new.odd = a[t].odd /\ (Clean(a[t]) => Clean(new)) /\ \A i \in a[t].idx : i.pk => i \in new.idx
                  /\ \/ IsManaged(source, t)
                     \/ new.cols = a[t].cols /\ a[t].idx \subseteq new.idx /\ t \in DOMAIN target
        PROVE  Good
    <2>1. done[1] = Put(a, t, new)
      BY <1>1
    <2> QED BY <1>1, <2>1, PutEvolves DEF Good
  <1>2. ASSUME t \in DOMAIN a
        PROVE  /\ DOMAIN table = {"cols", "idx", "odd"} /\ IsTable(table)
               /\ \A c \in DOMAIN table.cols : table.cols[c] \in NativeTypes(Backend)
    BY <1>2 DEF IsSchema
  <1>3. ASSUME t \in DOMAIN target, NEW c \in DOMAIN target[t].cols PROVE column(c) \in NativeTypes(Backend)
    BY <1>3, ModelIs, TypesAre
  <1>4. CASE s.do = "create_table" /\ t \notin DOMAIN a /\ (Backend # "mysql" => t \notin IndexNames(a))
    <2> DEFINE named(i) == [i EXCEPT !.name = PrimaryName(t)]
               keys == {i \in target[t].idx : i.pk}
               new == [cols |-> [c \in DOMAIN target[t].cols |-> column(c)],
                       idx |-> {named(i) : i \in keys}, odd |-> {}]
    <2>1. done = <<Put(a, t, new), TRUE>>
      BY <1>4 DEF Execute
    <2>2. t \in DOMAIN target
      BY <1>4 DEF Proper, Creating
    <2>3. PICK key \in target[t].idx : key.pk
      BY <2>2, ModelIs
    <2>12. \A i \in target[t].idx : IsModelIndex(i, target[t])
      BY <2>2, ModelIs
    <2>4. keys = {key}
      BY <2>3, <2>12 DEF IsModelIndex
    <2>5. new.idx = {named(key)} /\ new.odd = {} /\ DOMAIN new.cols = DOMAIN target[t].cols
          /\ \A c \in DOMAIN new.cols : new.cols[c] = column(c)
      BY <2>4
    <2>6. /\ DOMAIN key = {"name", "cols", "unique", "pk", "partial", "constraint"}
          /\ {key.unique, key.pk, key.partial, key.constraint} \subseteq BOOLEAN
          /\ key.cols # <<>> /\ Range(key.cols) \subseteq DOMAIN target[t].cols
          /\ ~key.partial /\ Expression \notin Range(key.cols)
      BY <2>3, <2>12 DEF IsModelIndex
    <2>7. /\ DOMAIN named(key) = DOMAIN key /\ named(key).cols = key.cols /\ named(key).unique = key.unique
          /\ named(key).pk = key.pk /\ named(key).partial = key.partial
          /\ named(key).constraint = key.constraint
      BY <2>6
    <2>8. IsFiniteSet(DOMAIN target[t].cols) /\ IsFiniteSet({named(key)})
      BY <2>2, ModelIs, FS_Singleton DEF IsTable
    <2>9. DOMAIN new = {"cols", "idx", "odd"}
      OBVIOUS
    <2> HIDE DEF new, named
    <2>10. IsTable(new)
      BY <2>5, <2>6, <2>7, <2>8 DEF IsTable
    <2>11. Clean(new)
      BY <2>5, <2>6, <2>7 DEF Clean
    <2> HIDE DEF column
    <2> QED BY <1>1, <1>3, <1>4, <2>1, <2>2, <2>5, <2>9, <2>10, <2>11
  <1>5. CASE s.do = "drop_table" /\ t \in DOMAIN a
    <2> DEFINE b == [u \in DOMAIN a \ {t} |-> a[u]]
    <2>1. done[1] = b
      BY <1>5 DEF Execute
    <2>2. IsManaged(source, t) /\ t \notin DOMAIN target
      BY <1>5 DEF Proper, Changing
    <2>3. IsFiniteSet(DOMAIN b)
      BY FS_Subset DEF IsSchema
    <2>4. IsSchema(Backend, b)
      BY <2>3 DEF IsSchema
    <2>5. Evolves(source, a, b)
      BY <2>2 DEF Evolves, Kept, KeysStay
    <2> QED BY <2>1, <2>4, <2>5 DEF Good
  <1>6. CASE /\ s.do = "alter_column" /\ t \in DOMAIN a /\ s.name \in DOMAIN table.cols
             /\ Casts(Backend, table.cols[s.name], column(s.name))
    <2> DEFINE new == [table EXCEPT !.cols[s.name] = column(s.name)]
    <2>1. done = <<Put(a, t, new), TRUE>>
      BY <1>6 DEF Execute
    <2>2. DOMAIN new = {"cols", "idx", "odd"} /\ DOMAIN new.cols = DOMAIN table.cols
          /\ new.idx = table.idx /\ new.odd = table.odd
          /\ \A c \in DOMAIN new.cols : new.cols[c] = table.cols[c] \/ (c = s.name /\ new.cols[c] = column(c))
      BY <1>2, <1>6
    <2>3. IsManaged(source, t) /\ t \in DOMAIN target /\ s.name \in DOMAIN target[t].cols
      BY <1>6 DEF Proper, Changing
    <2> HIDE DEF new, column
    <2>4. IsTable(new)
      BY <1>2, <1>6, <2>2 DEF IsTable
    <2> QED BY <1>1, <1>2, <1>3, <1>6, <2>1, <2>2, <2>3, <2>4 DEF Clean
  <1>7. CASE s.do = "add_column" /\ t \in DOMAIN a /\ s.name \notin DOMAIN table.cols
    <2> DEFINE new == [table EXCEPT !.cols = Put(@, s.name, column(s.name))]
    <2>1. done = <<Put(a, t, new), TRUE>>
      BY <1>7 DEF Execute
    <2>2. DOMAIN new = {"cols", "idx", "odd"} /\ DOMAIN new.cols = DOMAIN table.cols \cup {s.name}
          /\ new.idx = table.idx /\ new.odd = table.odd
          /\ \A c \in DOMAIN new.cols : IF c = s.name THEN new.cols[c] = column(c) ELSE new.cols[c] = table.cols[c]
      BY <1>2, <1>7 DEF Put
    <2>3. IsManaged(source, t) /\ t \in DOMAIN target /\ s.name \in DOMAIN target[t].cols
      BY <1>7 DEF Proper, Changing
    <2>4. IsFiniteSet(DOMAIN new.cols)
      BY <1>2, <1>7, <2>2, FS_AddElement DEF IsTable
    <2> HIDE DEF new, column
    <2>5. IsTable(new)
      BY <1>2, <1>7, <2>2, <2>4 DEF IsTable
    <2> QED BY <1>1, <1>2, <1>3, <1>7, <2>1, <2>2, <2>3, <2>5 DEF Clean
  <1>8. CASE /\ s.do = "drop_column" /\ t \in DOMAIN a /\ s.name \in DOMAIN table.cols
             /\ \A i \in table.idx : s.name \notin Range(i.cols)
    <2> DEFINE new == [table EXCEPT !.cols = [c \in DOMAIN @ \ {s.name} |-> @[c]]]
    <2>1. done = <<Put(a, t, new), TRUE>>
      BY <1>8 DEF Execute
    <2>2. DOMAIN new = {"cols", "idx", "odd"} /\ DOMAIN new.cols = DOMAIN table.cols \ {s.name}
          /\ new.idx = table.idx /\ new.odd = table.odd
          /\ \A c \in DOMAIN new.cols : new.cols[c] = table.cols[c]
      BY <1>2, <1>8
    <2>3. IsManaged(source, t)
      BY <1>8 DEF Proper, Changing
    <2>4. IsFiniteSet(DOMAIN new.cols)
      BY <1>2, <1>8, <2>2, FS_Subset DEF IsTable
    <2> HIDE DEF new
    <2>5. IsTable(new)
      BY <1>2, <1>8, <2>2, <2>4 DEF IsTable
    <2> QED BY <1>1, <1>2, <1>8, <2>1, <2>2, <2>3, <2>5 DEF Clean
  <1>9. CASE /\ s.do = "drop_index" /\ t \in DOMAIN a
             /\ \E i \in table.idx : i.name = s.name /\ ~i.pk /\ ~i.constraint
    <2> DEFINE new == [table EXCEPT !.idx = {i \in @ : i.name # s.name}]
    <2>1. done = <<Put(a, t, new), TRUE>>
      BY <1>9 DEF Execute
    <2>2. DOMAIN new = {"cols", "idx", "odd"} /\ new.cols = table.cols
          /\ new.idx = {i \in table.idx : i.name # s.name} /\ new.odd = table.odd
      BY <1>2, <1>9
    <2>3. IsManaged(source, t)
      BY <1>9 DEF Proper, Changing
    <2>4. IsFiniteSet(new.idx) /\ new.idx \subseteq table.idx
      BY <1>2, <1>9, <2>2, FS_Subset DEF IsTable
    <2>5. \A i \in table.idx : i.pk => i \in new.idx
      <3>1. PICK dropped \in table.idx : dropped.name = s.name /\ ~dropped.pk
        BY <1>9
      <3>2. \A i \in table.idx : i.name = s.name => i = dropped
        BY <1>2, <1>9, <3>1 DEF IsTable
      <3> QED BY <2>2, <3>1, <3>2
    <2> HIDE DEF new
    <2>6. IsTable(new)
      BY <1>2, <1>9, <2>2, <2>4 DEF IsTable
    <2> QED BY <1>1, <1>2, <1>9, <2>1, <2>2, <2>3, <2>4, <2>5, <2>6 DEF Clean
  <1>10. CASE /\ s.do = "create_index" /\ t \in DOMAIN a /\ s.name \notin Taken(a, t)
              /\ \A i \in {j \in target[t].idx : j.name = s.name} : Range(i.cols) \subseteq DOMAIN table.cols
    <2> DEFINE asked == {i \in target[t].idx : i.name = s.name}
               plain(i) == [i EXCEPT !.pk = FALSE]
               new == [table EXCEPT !.idx = @ \cup {plain(i) : i \in asked}]
    <2>1. done = <<Put(a, t, new), TRUE>>
      BY <1>10 DEF Execute
    <2>2. DOMAIN new = {"cols", "idx", "odd"} /\ new.cols = table.cols
          /\ new.idx = table.idx \cup {plain(i) : i \in asked} /\ new.odd = table.odd
      BY <1>2, <1>10
    <2>3. t \in DOMAIN target
      BY <1>10 DEF Proper, Creating
    <2>4. IsFiniteSet(target[t].idx)
      BY <2>3, ModelIs DEF IsTable
    <2>5. IsFiniteSet({plain(i) : i \in asked})
      <3>1. IsFiniteSet(asked)
        BY <2>4, FS_Subset
      <3> HIDE DEF asked, plain
      <3>2. IsFiniteSet({[j \in asked |-> plain(j)][i] : i \in asked})
        BY <3>1, ImageIsFinite
      <3> QED BY <3>2
    <2>6. IsFiniteSet(new.idx)
      BY <1>2, <1>10, <2>2, <2>5, FS_Union DEF IsTable
    <2>7. \A i \in {plain(j) : j \in asked} :
             /\ DOMAIN i = {"name", "cols", "unique", "pk", "partial", "constraint"}
             /\ {i.unique, i.pk, i.partial, i.constraint} \subseteq BOOLEAN /\ i.name = s.name /\ ~i.pk
             /\ i.cols # <<>> /\ Range(i.cols) \subseteq DOMAIN table.cols /\ Expression \notin Range(i.cols)
             /\ \A j \in {plain(k) : k \in asked} : i = j
      <3>1. ASSUME NEW i \in asked
            PROVE  /\ DOMAIN i = {"name", "cols", "unique", "pk", "partial", "constraint"}
                   /\ i.unique \in BOOLEAN /\ i.partial = FALSE /\ i.constraint = FALSE /\ i.name = s.name
                   /\ i.cols # <<>> /\ Range(i.cols) \subseteq DOMAIN table.cols /\ Expression \notin Range(i.cols)
                   /\ \A j \in asked : i = j
        <4>1. \A j \in target[t].idx : IsModelIndex(j, target[t])
          BY <2>3, ModelIs
        <4> QED BY <1>10, <4>1 DEF IsModelIndex
      <3>2. ASSUME NEW i \in asked
            PROVE  /\ DOMAIN plain(i) = DOMAIN i /\ plain(i).unique = i.unique /\ plain(i).partial = i.partial
                   /\ plain(i).constraint = i.constraint
                   /\ plain(i).name = i.name /\ plain(i).cols = i.cols /\ plain(i).pk = FALSE
        BY <3>1
      <3> HIDE DEF asked, plain
      <3>3. ASSUME NEW i \in asked
            PROVE  /\ DOMAIN plain(i) = {"name", "cols", "unique", "pk", "partial", "constraint"}
                   /\ {plain(i).unique, plain(i).pk, plain(i).partial, plain(i).constraint} \subseteq BOOLEAN
                   /\ plain(i).name = s.name /\ ~plain(i).pk /\ plain(i).cols # <<>>
                   /\ Range(plain(i).cols) \subseteq DOMAIN table.cols /\ Expression \notin Range(plain(i).cols)
                   /\ \A k \in asked : plain(i) = plain(k)
        BY <3>1, <3>2
      <3> QED BY <3>3
    <2> HIDE DEF new, asked, plain
    <2>8. Clean(table) => Clean(new)
      BY <2>2, <2>7 DEF Clean
    <2>9. IsTable(new)
      <3> DEFINE made == {plain(i) : i \in asked}
      <3> HIDE DEF made
      <3>1. \A i \in made : \A j \in table.idx : i.name # j.name
        BY <1>10, <2>7, TakenHolds DEF made
      <3>2. \A i \in made :
               /\ DOMAIN i = {"name", "cols", "unique", "pk", "partial", "constraint"}
               /\ {i.unique, i.pk, i.partial, i.constraint} \subseteq BOOLEAN
               /\ i.cols # <<>> /\ Range(i.cols) \subseteq DOMAIN table.cols \cup {Expression}
               /\ i.pk => ~i.partial /\ Expression \notin Range(i.cols)
               /\ \A j \in made : i = j
        BY <2>7 DEF made
      <3>3. new.idx = table.idx \cup made
        BY <2>2 DEF made
      <3> QED BY <1>2, <1>10, <2>2, <2>6, <3>1, <3>2, <3>3 DEF IsTable
    <2> QED BY <1>1, <1>2, <1>10, <2>1, <2>2, <2>3, <2>8, <2>9
  <1>11. CASE done = <<a, FALSE>>
    BY <1>11, EvolvesNowhere DEF Good
  <1> QED BY <1>4, <1>5, <1>6, <1>7, <1>8, <1>9, <1>10, <1>11 DEF Execute

\* Induction up to n: the first number that is in a set, if any is.
LEMMA FirstOne ==
  ASSUME NEW n \in Nat, NEW bad \in SUBSET (0..n), 0 \notin bad,
         \A m \in 1..n : m \in bad => m - 1 \in bad
  PROVE  bad = {}
  <1> SUFFICES ASSUME bad # {} PROVE FALSE
    OBVIOUS
  <1>1. bad \subseteq Nat
    OBVIOUS
  <1>2. PICK m \in bad : \A k \in bad : <<k, m>> \notin OpToRel(<, Nat)
    BY <1>1, NatLessThanWellFounded, WFMin
  <1>3. m \in 1..n /\ m - 1 \in bad /\ m - 1 < m
    OBVIOUS
  <1>4. <<m - 1, m>> \in OpToRel(<, Nat)
    BY <1>1, <1>3 DEF OpToRel
  <1> QED BY <1>2, <1>3, <1>4

After(done, target, s) == IF done[2] THEN Execute(done[1], target, s) ELSE done

IsRun(done, schema, target, planned) ==
    /\ done[0] = <<schema, TRUE>>
    /\ \A i \in 1..Len(planned) : done[i] = After(done[i - 1], target, planned[i])
    /\ ExecuteAll(schema, target, planned) = done[Len(planned)]

LEMMA ExecuteAllRuns ==
  ASSUME NEW schema, NEW target, NEW planned, Len(planned) \in Nat
  PROVE  \E done : IsRun(done, schema, target, planned)
  <1> DEFINE n == Len(planned)
             step(x, i) == After(x, target, planned[i])
             Runs(f, m) == f = [i \in 0..m |-> IF i = 0 THEN <<schema, TRUE>> ELSE step(f[i - 1], i)]
             bad == {m \in 0..n : ~\E f : Runs(f, m)}
  <1> HIDE DEF step
  <1>1. 0 \notin bad
    <2>1. Runs([i \in 0..0 |-> <<schema, TRUE>>], 0)
      OBVIOUS
    <2> QED BY <2>1
  <1>2. ASSUME NEW m \in 1..n, m - 1 \notin bad PROVE m \notin bad
    <2>1. PICK f : Runs(f, m - 1)
      <3>1. m - 1 \in 0..n
        BY <1>2
      <3> HIDE DEF Runs
      <3> QED BY <3>1, <1>2
    <2> DEFINE g == [i \in 0..m |-> IF i = m THEN step(f[m - 1], m) ELSE f[i]]
    <2>2. Runs(g, m)
      <3>1. ASSUME NEW i \in 0..m PROVE g[i] = IF i = 0 THEN <<schema, TRUE>> ELSE step(g[i - 1], i)
        <4>1. CASE i = m
          <5>1. i # 0 /\ g[i - 1] = f[m - 1] /\ g[i] = step(f[m - 1], m)
            BY <4>1
          <5> QED BY <4>1, <5>1
        <4>2. CASE i # m
          <5>1. g[i] = f[i] /\ i \in 0..(m - 1)
            BY <4>2
          <5>2. CASE i = 0
            BY <2>1, <5>1, <5>2
          <5>3. CASE i # 0
            <6>1. i - 1 \in 0..m /\ i - 1 # m
              BY <5>1, <5>3
            <6>2. g[i - 1] = f[i - 1]
              BY <6>1
            <6> QED BY <2>1, <5>1, <5>3, <6>2
          <5> QED BY <5>2, <5>3
        <4> QED BY <4>1, <4>2
      <3> QED BY <3>1
    <2> HIDE DEF g
    <2> QED BY <2>2
  <1> HIDE DEF Runs
  <1>3. bad = {}
    BY <1>1, <1>2, FirstOne
  <1>4. \E f : Runs(f, n)
    BY <1>3
  <1> DEFINE done == CHOOSE f : Runs(f, n)
  <1>5. Runs(done, n)
    BY <1>4
  <1>6. ExecuteAll(schema, target, planned) = done[n]
    BY DEF ExecuteAll, Runs, step, After
  <1> HIDE DEF done
  <1>7. done = [i \in 0..n |-> IF i = 0 THEN <<schema, TRUE>> ELSE step(done[i - 1], i)]
    BY <1>5 DEF Runs
  <1>8. done[0] = <<schema, TRUE>> /\ \A i \in 1..n : done[i] = step(done[i - 1], i)
    <2> DEFINE value(i) == IF i = 0 THEN <<schema, TRUE>> ELSE step(done[i - 1], i)
    <2>1. 0 \in 0..n /\ \A i \in 1..n : i \in 0..n /\ i # 0
      OBVIOUS
    <2>2. value(0) = <<schema, TRUE>> /\ \A i \in 1..n : value(i) = step(done[i - 1], i)
      OBVIOUS
    <2>3. done = [i \in 0..n |-> value(i)]
      BY <1>7
    <2> HIDE DEF value
    <2>4. \A i \in 0..n : done[i] = value(i)
      BY <2>3
    <2> QED BY <2>1, <2>2, <2>4
  <1>9. IsRun(done, schema, target, planned)
    <2>1. \A i \in 1..Len(planned) : done[i] = After(done[i - 1], target, planned[i])
      BY <1>8 DEF step
    <2> QED BY <1>6, <1>8, <2>1 DEF IsRun
  <1> QED BY <1>9

LEMMA ExecuteAllEvolves ==
  ASSUME WorldKnown, NEW source, IsModels(Backend, world.targets[source]), NEW a, IsSchema(Backend, a),
         NEW planned, IsPlan(source, planned)
  PROVE  LET b == ExecuteAll(a, world.targets[source], planned)[1]
         IN  IsSchema(Backend, b) /\ Evolves(source, a, b)
  <1> DEFINE n == Len(planned)
             target == world.targets[source]
  <1>1. n \in Nat
    BY DEF IsPlan
  <1>2. PICK done : IsRun(done, a, target, planned)
    BY <1>1, ExecuteAllRuns
  <1> DEFINE Good(i) == IsSchema(Backend, done[i][1]) /\ Evolves(source, a, done[i][1])
             bad == {i \in 0..n : ~Good(i)}
  <1>3. Good(0)
    <2>1. done[0][1] = a
      BY <1>2 DEF IsRun
    <2> QED BY <2>1, EvolvesNowhere
  <1>4. ASSUME NEW m \in 1..n, Good(m - 1) PROVE Good(m)
    <2>1. done[m] = IF done[m - 1][2] THEN Execute(done[m - 1][1], target, planned[m]) ELSE done[m - 1]
      BY <1>2 DEF After, IsRun
    <2>2. CASE done[m - 1][2]
      <3> DEFINE c == done[m - 1][1]
      <3>1. Proper(source, planned[m])
        BY <1>1 DEF IsPlan
      <3>2. done[m][1] = Execute(c, target, planned[m])[1]
        BY <2>1, <2>2
      <3> HIDE DEF c
      <3>3. IsSchema(Backend, c) /\ Evolves(source, a, c)
        BY <1>4 DEF c
      <3>4. IsSchema(Backend, done[m][1]) /\ Evolves(source, c, done[m][1])
        BY <3>1, <3>2, <3>3, ExecuteEvolves
      <3> QED BY <3>3, <3>4, EvolvesFurther
    <2>3. CASE ~done[m - 1][2]
      BY <1>4, <2>1, <2>3
    <2> QED BY <2>2, <2>3
  <1> HIDE DEF Good
  <1>5. bad = {}
    <2>1. 0 \notin bad /\ \A m \in 1..n : m \in bad => m - 1 \in bad
      BY <1>1, <1>3, <1>4
    <2> HIDE DEF bad
    <2>2. bad \in SUBSET (0..n)
      BY DEF bad
    <2> QED BY <1>1, <2>1, <2>2, FirstOne
  <1>6. Good(n)
    BY <1>1, <1>5
  <1> QED BY <1>2, <1>6 DEF Good, IsRun

-----------------------------------------------------------------------------
(* The inductive invariant                                                   *)

Places == {"idle", "inspect", "table", "table_indices", "indices", "constraints", "decide",
           "write", "lock", "markers", "statement"}
Reading == {"table", "table_indices", "indices", "constraints", "decide"}
Planned == {"write", "lock", "markers", "statement"}
Jobs == [op : Operations \cup {"none"}, todo : Seq(Range(Sources)), verify : BOOLEAN]

WorldOK == WorldKnown /\ IsSchema(Backend, live)

Types ==
    /\ pc \in [Processes -> Places]
    /\ job \in [Processes -> Jobs]
    /\ DOMAIN seen = Processes /\ DOMAIN plan = Processes /\ DOMAIN since = Processes

\* The table that is being read.
Chosen(read) == CHOOSE u \in read.todo : TRUE

\* An inspection under way or complete: finite, of tables in scope, and on its
\* backend's way.
IsReading(source, at, read) ==
    /\ DOMAIN read = {"cols", "idx", "odd", "todo"}
    /\ read.odd \in BOOLEAN
    /\ IsFiniteSet(DOMAIN read.cols)
    /\ \A t \in DOMAIN read.cols : IsManaged(source, t) /\ IsFiniteSet(DOMAIN read.cols[t])
    /\ \A t \in read.todo : IsManaged(source, t)
    /\ at # "indices" => /\ DOMAIN read.idx = DOMAIN read.cols
                         /\ \A t \in DOMAIN read.cols : IsFiniteSet(read.idx[t])
    /\ at = "table_indices" => Chosen(read) \in read.todo /\ Chosen(read) \in DOMAIN read.cols
    /\ at = "indices" => Backend # "sqlite"
    /\ at = "constraints" => Backend = "mysql"

CallOK(p) ==
    /\ pc[p] # "idle" => job[p].todo # <<>>
    /\ pc[p] \in Reading => IsReading(Source(p), pc[p], seen[p])
    /\ pc[p] \in Planned => IsPlan(Source(p), plan[p])

InScope(p, t) == t \notin Internal /\ IsManaged(Source(p), t)

\* What an inspection knows of a table by the time it is at a place: whatever is odd
\* about it has been noticed in what it has read so far.
KnownAt(at, read, t, table) ==
    /\ at \in {"table", "table_indices"} => read.odd \/ "strict" \notin table.odd
    /\ at \in {"table", "table_indices"} /\ t \notin read.todo => read.odd \/ Clean(table)
    /\ at = "table_indices" /\ t = Chosen(read) => read.odd \/ "generated" \notin table.odd
    /\ at \in {"indices", "constraints"} => t \in DOMAIN read.cols
    /\ at \in {"indices", "constraints"} => read.odd \/ "generated" \notin table.odd
    /\ at = "constraints" => read.odd \/ \A i \in table.idx : Expression \notin Range(i.cols)
    /\ at = "decide" => read.odd \/ Clean(table)
    /\ at \in Planned => Clean(table)

\* Once nobody else has written since the inspection began.
Knows(p) ==
    pc[p] \in Reading \cup Planned /\ since[p] # "others" /\ Backend # "postgresql" =>
        \A t \in DOMAIN live : InScope(p, t) => KnownAt(pc[p], seen[p], t, live[t])

IInv == WorldOK /\ Types /\ \A p \in Processes : CallOK(p) /\ Knows(p)

LEMMA IInvImplies == IInv => NothingLost
  <1> SUFFICES ASSUME IInv, NEW p \in Processes, pc[p] \in Planned, since[p] # "others", Backend # "postgresql",
                      NEW t \in Visible(Source(p))
               PROVE  ~HasExpression(t) /\ live[t].odd = {}
    BY DEF NothingLost, Planned
  <1>1. t \in DOMAIN live /\ InScope(p, t)
    BY DEF Visible, InScope
  <1>2. Clean(live[t])
    BY <1>1 DEF IInv, Knows, KnownAt
  <1> QED BY <1>2 DEF Clean, HasExpression

LEMMA InitIInv == Init => IInv
  <1> SUFFICES ASSUME Init PROVE IInv
    OBVIOUS
  <1>1. WorldOK
    BY ScenariosAssumption DEF Init, WorldOK, WorldKnown, Backend
  <1>2. NoJob \in Jobs
    <2>1. <<>> \in Seq(Range(Sources))
      OBVIOUS
    <2> QED BY <2>1 DEF NoJob, Jobs
  <1>3. Types
    BY <1>2 DEF Init, Types, Places
  <1>4. ASSUME NEW p \in Processes PROVE CallOK(p) /\ Knows(p)
    <2>1. pc[p] = "idle"
      BY DEF Init
    <2> QED BY <2>1 DEF CallOK, Knows, KnownAt, Reading, Planned
  <1> QED BY <1>1, <1>3, <1>4 DEF IInv

-----------------------------------------------------------------------------
(* Steps                                                                     *)

\* Another process's inspection and plan stay as they are, or somebody has written.
LEMMA OthersStay ==
  ASSUME IInv, NEW q \in Processes, world' = world,
         pc'[q] = pc[q], job'[q] = job[q], seen'[q] = seen[q], plan'[q] = plan[q],
         (live' = live /\ since'[q] = since[q]) \/ since'[q] = "others"
  PROVE  CallOK(q)' /\ Knows(q)'
  <1>1. CallOK(q) /\ Knows(q)
    BY DEF IInv
  <1>2. CallOK(q)'
    BY <1>1 DEF CallOK, Source, IsReading, IsPlan, Proper, IsManaged, Backend
  <1>3. CASE since'[q] = "others"
    BY <1>2, <1>3 DEF Knows
  <1>4. CASE live' = live /\ since'[q] = since[q]
    <2>1. \A t : InScope(q, t)' <=> InScope(q, t)
      BY DEF InScope, IsManaged, Internal, Source, Backend
    <2>2. Backend' = Backend
      BY DEF Backend
    <2> QED BY <1>1, <1>2, <1>4, <2>1, <2>2 DEF Knows
  <1> QED BY <1>2, <1>3, <1>4

LEMMA StepIInv ==
  ASSUME IInv, NEW p \in Processes, world' = world, IsSchema(Backend, live'), Types',
         \A q \in Processes \ {p} :
            /\ pc'[q] = pc[q] /\ job'[q] = job[q] /\ seen'[q] = seen[q] /\ plan'[q] = plan[q]
            /\ (live' = live /\ since'[q] = since[q]) \/ since'[q] = "others",
         CallOK(p)', Knows(p)'
  PROVE  IInv'
  <1>1. WorldOK'
    BY DEF IInv, WorldOK, WorldKnown, Backend
  <1>2. ASSUME NEW q \in Processes PROVE CallOK(q)' /\ Knows(q)'
    <2>1. CASE q = p
      BY <2>1
    <2>2. CASE q # p
      BY <2>2, OthersStay
    <2> QED BY <2>1, <2>2
  <1> QED BY <1>1, <1>2 DEF IInv

LEMMA EndSourceIInv ==
  ASSUME IInv, NEW p \in Processes, NEW outcome, pc[p] # "idle", EndSource(p, outcome),
         UNCHANGED <<live, since, world>>
  PROVE  IInv'
  <1> DEFINE rest == IF outcome \in {"unchanged", "planned", "synced"} THEN Tail(job[p].todo) ELSE <<>>
             at == IF rest = <<>> THEN "idle" ELSE "inspect"
             next == IF rest = <<>> THEN NoJob ELSE [job[p] EXCEPT !.todo = rest, !.verify = FALSE]
  <1>1. Types /\ WorldOK /\ job[p] \in Jobs /\ job[p].todo # <<>>
    BY DEF IInv, Types, CallOK
  <1>2. rest \in Seq(Range(Sources))
    BY <1>1 DEF Jobs
  <1>3. /\ job' = [job EXCEPT ![p] = next] /\ pc' = [pc EXCEPT ![p] = at]
        /\ seen' = [seen EXCEPT ![p] = Nothing] /\ plan' = [plan EXCEPT ![p] = <<>>]
    BY DEF EndSource, Goto
  <1>4. next \in Jobs /\ (rest # <<>> => next.todo = rest)
    <2>1. NoJob \in Jobs
      <3>1. <<>> \in Seq(Range(Sources))
        OBVIOUS
      <3> QED BY <3>1 DEF NoJob, Jobs
    <2> HIDE DEF rest
    <2> QED BY <1>1, <1>2, <2>1 DEF Jobs
  <1> HIDE DEF next
  <1>5. Types'
    BY <1>1, <1>3, <1>4 DEF Types, Places
  <1>6. pc'[p] = at /\ job'[p] = next /\ at \in {"idle", "inspect"}
    BY <1>1, <1>3 DEF Types
  <1>7. CallOK(p)' /\ Knows(p)'
    BY <1>4, <1>6 DEF CallOK, Knows, Reading, Planned
  <1>8. IsSchema(Backend, live')
    BY <1>1 DEF WorldOK
  <1>9. \A q \in Processes \ {p} :
           pc'[q] = pc[q] /\ job'[q] = job[q] /\ seen'[q] = seen[q] /\ plan'[q] = plan[q]
    BY <1>1, <1>3 DEF Types
  <1> QED BY <1>5, <1>7, <1>8, <1>9, StepIInv

LEMMA CallIInv == ASSUME IInv, NEW p \in Processes, Call(p) PROVE IInv'
  <1>1. Types /\ WorldOK /\ UNCHANGED <<live, since, world, seen, plan>> /\ pc' = [pc EXCEPT ![p] = "inspect"]
    BY DEF IInv, Call, KeepSchema, Goto
  <1>2. PICK op \in world.calls, s \in Range(Sources) :
          job' = [job EXCEPT ![p] = [op |-> op, verify |-> FALSE,
                                     todo |-> IF op = "sync_all" THEN Sources ELSE <<s>>]]
    BY DEF Call
  <1> DEFINE new == [op |-> op, verify |-> FALSE, todo |-> IF op = "sync_all" THEN Sources ELSE <<s>>]
  <1>3. new \in Jobs /\ new.todo # <<>>
    <2>1. op \in Operations
      BY <1>1, WorldIs DEF WorldOK
    <2>2. <<s>> \in Seq(Range(Sources)) /\ <<s>> # <<>>
      OBVIOUS
    <2> QED BY <2>1, <2>2, SourcesAssumption DEF Jobs
  <1>4. job' = [job EXCEPT ![p] = new]
    BY <1>2
  <1> HIDE DEF new
  <1>5. Types'
    BY <1>1, <1>3, <1>4 DEF Types, Places
  <1>6. pc'[p] = "inspect" /\ job'[p] = new
    BY <1>1, <1>4 DEF Types
  <1>7. CallOK(p)' /\ Knows(p)'
    BY <1>3, <1>6 DEF CallOK, Knows, Reading, Planned
  <1>8. IsSchema(Backend, live')
    BY <1>1 DEF WorldOK
  <1>9. \A q \in Processes \ {p} : pc'[q] = pc[q] /\ job'[q] = job[q]
    BY <1>1, <1>4 DEF Types
  <1> QED BY <1>1, <1>5, <1>7, <1>8, <1>9, StepIInv

\* A step of an inspection.
LEMMA ReadsOn ==
  ASSUME IInv, NEW p \in Processes, NEW at \in Reading, pc[p] # "idle", pc' = [pc EXCEPT ![p] = at],
         DOMAIN seen' = Processes, DOMAIN since' = Processes,
         \A q \in Processes \ {p} : seen'[q] = seen[q] /\ since'[q] = since[q],
         UNCHANGED <<live, world, job, plan>>,
         IsReading(Source(p), at, seen'[p]),
         since'[p] # "others" /\ Backend # "postgresql" =>
            \A t \in DOMAIN live : InScope(p, t) => KnownAt(at, seen'[p], t, live[t])
  PROVE  IInv'
  <1>1. Types /\ WorldOK /\ CallOK(p)
    BY DEF IInv
  <1>2. Types'
    BY <1>1 DEF Types, Reading, Places
  <1>3. pc'[p] = at /\ Source(p)' = Source(p) /\ Backend' = Backend
    BY <1>1 DEF Types, Source, Backend
  <1>4. at \notin Planned /\ at # "idle"
    BY DEF Reading, Planned
  <1>5. CallOK(p)'
    BY <1>1, <1>3, <1>4 DEF CallOK, Source, IsReading, IsManaged, Backend
  <1>6. Knows(p)'
    <2>1. \A t : InScope(p, t)' <=> InScope(p, t)
      BY DEF InScope, IsManaged, Internal, Source, Backend
    <2> QED BY <1>3, <2>1 DEF Knows
  <1>7. IsSchema(Backend, live')
    BY <1>1 DEF WorldOK
  <1>8. \A q \in Processes \ {p} : pc'[q] = pc[q]
    BY <1>1 DEF Types
  <1> QED BY <1>2, <1>5, <1>6, <1>7, <1>8, StepIInv

LEMMA FreshSince ==
  ASSUME Types, NEW p \in Processes, Fresh(p)
  PROVE  DOMAIN since' = Processes /\ \A q \in Processes \ {p} : since'[q] = since[q]
  BY DEF Types, Fresh

\* What a table of the live schema can have.
LEMMA LiveIs ==
  ASSUME WorldOK, NEW t \in DOMAIN live
  PROVE  /\ live[t].odd \subseteq Odd /\ (Backend # "sqlite" => "strict" \notin live[t].odd)
         /\ \A what : HasOdd(t, what) <=> what \in live[t].odd
         /\ HasExpression(t) <=> \E i \in live[t].idx : Expression \in Range(i.cols)
         /\ Clean(live[t]) <=> /\ "strict" \notin live[t].odd /\ "generated" \notin live[t].odd
                              /\ "foreign_key" \notin live[t].odd /\ ~HasExpression(t)
  <1>1. live[t].odd \subseteq Odd /\ (Backend # "sqlite" => "strict" \notin live[t].odd)
    BY DEF WorldOK, IsSchema
  <1>2. live[t].odd = {} <=> /\ "strict" \notin live[t].odd /\ "generated" \notin live[t].odd
                            /\ "foreign_key" \notin live[t].odd
    BY <1>1 DEF Odd
  <1> QED BY <1>1, <1>2 DEF HasOdd, HasExpression, Clean

LEMMA IndicesAreFinite == ASSUME WorldOK, NEW t PROVE IsFiniteSet(IndicesOf(t))
  <1>1. CASE t \in DOMAIN live
    <2> DEFINE indices == live[t].idx
               plain(i) == IF Expression \notin Range(i.cols) THEN i
                           ELSE [i EXCEPT !.cols = SelectSeq(@, LAMBDA c : c # Expression)]
               all == {plain(j) : j \in indices}
    <2>1. IsFiniteSet(indices)
      BY <1>1 DEF WorldOK, IsSchema, IsTable
    <2>2. IndicesOf(t) = {i \in all : i.cols # <<>>}
      BY <1>1 DEF IndicesOf, AsRead
    <2> HIDE DEF plain, indices
    <2>3. IsFiniteSet({[j \in indices |-> plain(j)][i] : i \in indices})
      BY <2>1, ImageIsFinite
    <2>4. IsFiniteSet(all)
      BY <2>3
    <2> HIDE DEF all
    <2> QED BY <2>2, <2>4, FS_Subset
  <1>2. CASE t \notin DOMAIN live
    BY <1>2, FS_EmptySet DEF IndicesOf
  <1> QED BY <1>1, <1>2

LEMMA ReadNamesIInv == ASSUME IInv, NEW p \in Processes, ReadNames(p) PROVE IInv'
  <1> DEFINE tables == Visible(Source(p))
             odd == \E t \in tables : HasOdd(t, "strict")
             read == [Nothing EXCEPT !.todo = tables, !.odd = odd]
  <1>1. /\ Types /\ WorldOK /\ pc[p] = "inspect" /\ pc' = [pc EXCEPT ![p] = "table"]
        /\ UNCHANGED <<live, world, job, plan>> /\ Fresh(p)
    BY DEF IInv, ReadNames, Goto
  <1>2. seen' = [seen EXCEPT ![p] = read]
    BY DEF ReadNames
  <1>3. /\ DOMAIN read = {"cols", "idx", "odd", "todo"} /\ read.cols = <<>> /\ read.idx = <<>>
        /\ read.odd = odd /\ read.todo = tables
    BY DEF Nothing
  <1>4. odd \in BOOLEAN /\ \A t \in tables : IsManaged(Source(p), t)
    BY DEF Visible
  <1>5. ASSUME NEW t \in DOMAIN live, InScope(p, t) PROVE t \in tables /\ (odd \/ "strict" \notin live[t].odd)
    BY <1>5 DEF Visible, InScope, HasOdd
  <1>6. DOMAIN <<>> = {} /\ IsFiniteSet({})
    BY FS_EmptySet
  <1> HIDE DEF read, tables, odd
  <1>7. IsReading(Source(p), "table", read)
    BY <1>3, <1>4, <1>6 DEF IsReading
  <1>8. \A t \in DOMAIN live : InScope(p, t) => KnownAt("table", read, t, live[t])
    BY <1>3, <1>5 DEF KnownAt, Planned
  <1>9. DOMAIN seen' = Processes /\ seen'[p] = read /\ \A q \in Processes \ {p} : seen'[q] = seen[q]
    BY <1>1, <1>2 DEF Types
  <1>10. DOMAIN since' = Processes /\ \A q \in Processes \ {p} : since'[q] = since[q]
    BY <1>1, FreshSince
  <1> QED BY <1>1, <1>7, <1>8, <1>9, <1>10, ReadsOn DEF Reading

LEMMA ReadTableIInv == ASSUME IInv, NEW p \in Processes, ReadTable(p) PROVE IInv'
  <1>1. /\ Types /\ WorldOK /\ pc[p] = "table" /\ UNCHANGED <<live, world, job, plan, since>>
        /\ IsReading(Source(p), "table", seen[p])
    BY DEF IInv, ReadTable, KeepSchema, CallOK, Reading
  <1>2. since[p] # "others" /\ Backend # "postgresql" =>
            \A t \in DOMAIN live : InScope(p, t) => KnownAt("table", seen[p], t, live[t])
    BY <1>1 DEF IInv, Knows, Reading
  <1>3. CASE seen[p].todo = {} /\ Goto(p, "decide") /\ UNCHANGED seen
    <2>1. IsReading(Source(p), "decide", seen[p])
      BY <1>1 DEF IsReading
    <2>2. ASSUME since[p] # "others" /\ Backend # "postgresql", NEW t \in DOMAIN live, InScope(p, t)
          PROVE  KnownAt("decide", seen[p], t, live[t])
      BY <1>2, <1>3, <2>2 DEF KnownAt, Planned
    <2> QED BY <1>1, <1>3, <2>1, <2>2, ReadsOn DEF Reading, Types, Goto
  <1>4. CASE seen[p].todo # {}
    <2> DEFINE t == Chosen(seen[p])
               cols == IF t \in DOMAIN live THEN live[t].cols ELSE <<>>
               odd == seen[p].odd \/ HasOdd(t, "generated")
               key == {i \in IndicesOf(t) : i.pk}
    <2>1. /\ seen' = [seen EXCEPT ![p].cols = Put(@, t, cols), ![p].idx = Put(@, t, key), ![p].odd = odd]
          /\ Goto(p, "table_indices")
      BY <1>4 DEF ReadTable, Chosen
    <2>2. t \in seen[p].todo
      BY <1>4 DEF Chosen
    <2>3. /\ DOMAIN seen' = Processes /\ \A q \in Processes \ {p} : seen'[q] = seen[q]
          /\ DOMAIN seen'[p] = {"cols", "idx", "odd", "todo"}
          /\ seen'[p].cols = Put(seen[p].cols, t, cols) /\ seen'[p].idx = Put(seen[p].idx, t, key)
          /\ seen'[p].odd = odd /\ seen'[p].todo = seen[p].todo
      <3> HIDE DEF t, cols, odd, key
      <3> QED BY <1>1, <2>1 DEF Types, IsReading
    <2>4. IsFiniteSet(DOMAIN cols)
      BY <1>1, FS_EmptySet DEF WorldOK, IsSchema, IsTable
    <2>5. IsFiniteSet(key)
      BY <1>1, IndicesAreFinite, FS_Subset
    <2>6. odd \in BOOLEAN /\ (seen[p].odd => odd)
      BY <1>1 DEF IsReading, HasOdd
    <2>7. t \in DOMAIN live => odd \/ "generated" \notin live[t].odd
      BY DEF HasOdd
    <2>8. Chosen(seen'[p]) = t
      BY <2>3 DEF Chosen
    <2> HIDE DEF t, cols, odd, key
    <2>9. /\ DOMAIN seen'[p].cols = DOMAIN seen[p].cols \cup {t} /\ DOMAIN seen'[p].idx = DOMAIN seen[p].idx \cup {t}
          /\ seen'[p].cols[t] = cols /\ seen'[p].idx[t] = key
          /\ \A u \in DOMAIN seen[p].cols : u # t => seen'[p].cols[u] = seen[p].cols[u]
          /\ \A u \in DOMAIN seen[p].idx : u # t => seen'[p].idx[u] = seen[p].idx[u]
      BY <2>3 DEF Put
    <2>10. IsFiniteSet(DOMAIN seen[p].cols \cup {t})
      BY <1>1, FS_AddElement DEF IsReading
    <2>11. IsReading(Source(p), "table_indices", seen'[p])
      BY <1>1, <2>2, <2>3, <2>4, <2>5, <2>6, <2>8, <2>9, <2>10 DEF IsReading
    <2>12. ASSUME since[p] # "others" /\ Backend # "postgresql", NEW u \in DOMAIN live, InScope(p, u)
           PROVE  KnownAt("table_indices", seen'[p], u, live[u])
      BY <1>2, <2>3, <2>6, <2>7, <2>8, <2>12 DEF KnownAt, Planned
    <2> QED BY <1>1, <2>1, <2>3, <2>11, <2>12, ReadsOn DEF Reading, Types, Goto
  <1> QED BY <1>3, <1>4 DEF ReadTable

LEMMA ReadTableIndicesIInv == ASSUME IInv, NEW p \in Processes, ReadTableIndices(p) PROVE IInv'
  <1>1. /\ Types /\ WorldOK /\ pc[p] = "table_indices" /\ UNCHANGED <<live, world, job, plan, since>>
        /\ IsReading(Source(p), "table_indices", seen[p]) /\ Goto(p, "table")
    BY DEF IInv, ReadTableIndices, KeepSchema, CallOK, Reading
  <1>2. since[p] # "others" /\ Backend # "postgresql" =>
            \A t \in DOMAIN live : InScope(p, t) => KnownAt("table_indices", seen[p], t, live[t])
    BY <1>1 DEF IInv, Knows, Reading
  <1> DEFINE t == Chosen(seen[p])
             odd == seen[p].odd \/ HasExpression(t) \/ HasOdd(t, "foreign_key")
             others == {i \in IndicesOf(t) : ~i.pk}
  <1>3. seen' = [seen EXCEPT ![p].idx[t] = @ \cup others, ![p].odd = odd, ![p].todo = @ \ {t}]
    BY DEF ReadTableIndices, Chosen
  <1>4. t \in seen[p].todo /\ t \in DOMAIN seen[p].cols /\ t \in DOMAIN seen[p].idx
    BY <1>1 DEF IsReading
  <1>5. IsFiniteSet(seen[p].idx[t] \cup others)
    <2>1. IsFiniteSet(others)
      BY <1>1, IndicesAreFinite, FS_Subset
    <2>2. IsFiniteSet(seen[p].idx[t])
      BY <1>1, <1>4 DEF IsReading
    <2> QED BY <2>1, <2>2, FS_Union
  <1>6. odd \in BOOLEAN /\ (seen[p].odd => odd)
    BY <1>1 DEF IsReading, HasOdd, HasExpression
  <1>7. t \in DOMAIN live => odd \/ ("foreign_key" \notin live[t].odd /\ ~HasExpression(t))
    BY DEF HasOdd
  <1> HIDE DEF t, odd, others
  <1>8. /\ DOMAIN seen' = Processes /\ \A q \in Processes \ {p} : seen'[q] = seen[q]
        /\ DOMAIN seen'[p] = {"cols", "idx", "odd", "todo"}
        /\ seen'[p].cols = seen[p].cols /\ seen'[p].idx = [seen[p].idx EXCEPT ![t] = @ \cup others]
        /\ seen'[p].odd = odd /\ seen'[p].todo = seen[p].todo \ {t}
    BY <1>1, <1>3 DEF Types, IsReading
  <1>9. /\ DOMAIN seen'[p].idx = DOMAIN seen[p].idx /\ seen'[p].idx[t] = seen[p].idx[t] \cup others
        /\ \A u \in DOMAIN seen[p].idx : u # t => seen'[p].idx[u] = seen[p].idx[u]
    BY <1>4, <1>8
  <1>10. IsReading(Source(p), "table", seen'[p])
    BY <1>1, <1>5, <1>6, <1>8, <1>9 DEF IsReading
  <1>11. ASSUME since[p] # "others" /\ Backend # "postgresql", NEW u \in DOMAIN live, InScope(p, u)
         PROVE  KnownAt("table", seen'[p], u, live[u])
    <2>1. KnownAt("table_indices", seen[p], u, live[u])
      BY <1>2, <1>11
    <2>2. odd \/ "strict" \notin live[u].odd
      BY <2>1, <1>6 DEF KnownAt
    <2>3. ASSUME u \notin seen'[p].todo PROVE odd \/ Clean(live[u])
      <3>1. CASE u = t
        <4>1. odd \/ "generated" \notin live[u].odd
          BY <2>1, <3>1, <1>6 DEF KnownAt, t
        <4> QED BY <1>1, <1>7, <2>2, <3>1, <4>1, LiveIs
      <3>2. CASE u # t
        BY <2>1, <2>3, <3>2, <1>6, <1>8 DEF KnownAt
      <3> QED BY <3>1, <3>2
    <2> QED BY <1>8, <2>2, <2>3 DEF KnownAt, Planned
  <1> QED BY <1>1, <1>8, <1>10, <1>11, ReadsOn DEF Reading, Types, Goto

LEMMA ReadColumnsIInv == ASSUME IInv, NEW p \in Processes, ReadColumns(p) PROVE IInv'
  <1> DEFINE tables == Visible(Source(p))
             cols == [t \in tables |-> live[t].cols]
             odd == (Backend = "mysql" /\ \E t \in tables : HasOdd(t, "generated"))
             read == [Nothing EXCEPT !.cols = cols, !.odd = odd]
  <1>1. /\ Types /\ WorldOK /\ pc[p] = "inspect" /\ pc' = [pc EXCEPT ![p] = "indices"]
        /\ UNCHANGED <<live, world, job, plan>> /\ Fresh(p) /\ Backend # "sqlite"
    BY DEF IInv, ReadColumns, Goto
  <1>2. seen' = [seen EXCEPT ![p] = read]
    BY DEF ReadColumns
  <1>3. /\ DOMAIN read = {"cols", "idx", "odd", "todo"} /\ read.cols = cols
        /\ read.odd = odd /\ read.todo = {}
    BY DEF Nothing
  <1>4. odd \in BOOLEAN
    OBVIOUS
  <1>5. /\ DOMAIN cols = tables /\ tables \subseteq DOMAIN live
        /\ \A t \in tables : IsManaged(Source(p), t) /\ cols[t] = live[t].cols
    BY DEF Visible
  <1>6. IsFiniteSet(tables)
    BY <1>1, <1>5, FS_Subset DEF WorldOK, IsSchema, IsTable
  <1>7. Backend \in {"sqlite", "postgresql", "mysql"}
    BY <1>1, WorldIs DEF WorldOK
  <1>8. ASSUME NEW t \in DOMAIN live, InScope(p, t), Backend # "postgresql"
        PROVE  t \in tables /\ (odd \/ "generated" \notin live[t].odd)
    BY <1>1, <1>7, <1>8 DEF Visible, InScope, HasOdd
  <1> HIDE DEF read, tables, cols, odd
  <1>9. IsReading(Source(p), "indices", read)
    BY <1>1, <1>3, <1>4, <1>5, <1>6 DEF IsReading, WorldOK, IsSchema, IsTable
  <1>10. Backend # "postgresql" =>
             \A t \in DOMAIN live : InScope(p, t) => KnownAt("indices", read, t, live[t])
    BY <1>3, <1>5, <1>8 DEF KnownAt, Planned
  <1>11. DOMAIN seen' = Processes /\ seen'[p] = read /\ \A q \in Processes \ {p} : seen'[q] = seen[q]
    BY <1>1, <1>2 DEF Types
  <1>12. DOMAIN since' = Processes /\ \A q \in Processes \ {p} : since'[q] = since[q]
    BY <1>1, FreshSince
  <1> QED BY <1>1, <1>9, <1>10, <1>11, <1>12, ReadsOn DEF Reading

LEMMA ReadIndicesIInv == ASSUME IInv, NEW p \in Processes, ReadIndices(p) PROVE IInv'
  <1> DEFINE tables == DOMAIN seen[p].cols
             idx == [t \in tables |-> IndicesOf(t)]
             odd == seen[p].odd \/ (Backend = "mysql" /\ \E t \in tables : HasExpression(t))
             at == IF Backend = "mysql" THEN "constraints" ELSE "decide"
  <1>1. /\ Types /\ WorldOK /\ pc[p] = "indices" /\ UNCHANGED <<live, world, job, plan, since>>
        /\ IsReading(Source(p), "indices", seen[p]) /\ Goto(p, at)
    BY DEF IInv, ReadIndices, KeepSchema, CallOK, Reading
  <1>2. since[p] # "others" /\ Backend # "postgresql" =>
            \A t \in DOMAIN live : InScope(p, t) => KnownAt("indices", seen[p], t, live[t])
    BY <1>1 DEF IInv, Knows, Reading
  <1>3. seen' = [seen EXCEPT ![p].idx = idx, ![p].odd = odd]
    BY DEF ReadIndices
  <1>4. odd \in BOOLEAN /\ (seen[p].odd => odd)
    BY <1>1 DEF IsReading, HasExpression
  <1>5. DOMAIN idx = tables /\ \A t \in tables : IsFiniteSet(idx[t])
    BY <1>1, IndicesAreFinite
  <1>6. Backend = "mysql" => \A t \in tables : odd \/ ~HasExpression(t)
    OBVIOUS
  <1> HIDE DEF idx, odd
  <1>7. /\ DOMAIN seen' = Processes /\ \A q \in Processes \ {p} : seen'[q] = seen[q]
        /\ DOMAIN seen'[p] = {"cols", "idx", "odd", "todo"}
        /\ seen'[p].cols = seen[p].cols /\ seen'[p].idx = idx
        /\ seen'[p].odd = odd /\ seen'[p].todo = seen[p].todo
    BY <1>1, <1>3 DEF Types, IsReading
  <1>8. at \in Reading /\ at # "table_indices" /\ at # "indices" /\ (at = "constraints" => Backend = "mysql")
    BY DEF Reading
  <1>9. IsReading(Source(p), at, seen'[p])
    BY <1>1, <1>4, <1>5, <1>7, <1>8 DEF IsReading
  <1>10. ASSUME since[p] # "others" /\ Backend # "postgresql", NEW t \in DOMAIN live, InScope(p, t)
         PROVE  KnownAt(at, seen'[p], t, live[t])
    <2>1. KnownAt("indices", seen[p], t, live[t])
      BY <1>2, <1>10
    <2>2. Backend = "mysql"
      BY <1>1, <1>10, WorldIs DEF IsReading, WorldOK
    <2>3. odd \/ ~HasExpression(t)
      BY <1>6, <2>1, <2>2 DEF KnownAt
    <2>4. odd \/ \A i \in live[t].idx : Expression \notin Range(i.cols)
      BY <1>1, <2>3, LiveIs
    <2> QED BY <1>4, <1>7, <2>1, <2>2, <2>4 DEF KnownAt, Planned
  <1> HIDE DEF at
  <1> QED BY <1>1, <1>7, <1>8, <1>9, <1>10, ReadsOn DEF Types, Goto

LEMMA ReadConstraintsIInv == ASSUME IInv, NEW p \in Processes, ReadConstraints(p) PROVE IInv'
  <1> DEFINE odd == seen[p].odd \/ \E t \in DOMAIN seen[p].cols : HasOdd(t, "foreign_key")
  <1>1. /\ Types /\ WorldOK /\ pc[p] = "constraints" /\ UNCHANGED <<live, world, job, plan, since>>
        /\ IsReading(Source(p), "constraints", seen[p]) /\ Goto(p, "decide")
    BY DEF IInv, ReadConstraints, KeepSchema, CallOK, Reading
  <1>2. since[p] # "others" /\ Backend # "postgresql" =>
            \A t \in DOMAIN live : InScope(p, t) => KnownAt("constraints", seen[p], t, live[t])
    BY <1>1 DEF IInv, Knows, Reading
  <1>3. seen' = [seen EXCEPT ![p].odd = odd]
    BY DEF ReadConstraints
  <1>4. odd \in BOOLEAN /\ (seen[p].odd => odd)
    BY <1>1 DEF IsReading, HasOdd
  <1>5. \A t \in DOMAIN seen[p].cols : odd \/ ~HasOdd(t, "foreign_key")
    OBVIOUS
  <1> HIDE DEF odd
  <1>6. /\ DOMAIN seen' = Processes /\ \A q \in Processes \ {p} : seen'[q] = seen[q]
        /\ DOMAIN seen'[p] = {"cols", "idx", "odd", "todo"}
        /\ seen'[p].cols = seen[p].cols /\ seen'[p].idx = seen[p].idx
        /\ seen'[p].odd = odd /\ seen'[p].todo = seen[p].todo
    BY <1>1, <1>3 DEF Types, IsReading
  <1>7. IsReading(Source(p), "decide", seen'[p])
    BY <1>1, <1>4, <1>6 DEF IsReading
  <1>8. ASSUME since[p] # "others" /\ Backend # "postgresql", NEW t \in DOMAIN live, InScope(p, t)
        PROVE  KnownAt("decide", seen'[p], t, live[t])
    <2>1. KnownAt("constraints", seen[p], t, live[t])
      BY <1>2, <1>8
    <2>2. odd \/ "foreign_key" \notin live[t].odd
      BY <1>5, <2>1 DEF KnownAt, HasOdd
    <2>3. "strict" \notin live[t].odd
      BY <1>1, LiveIs DEF IsReading
    <2>4. odd \/ ("generated" \notin live[t].odd /\ ~HasExpression(t))
      BY <1>1, <1>4, <2>1, LiveIs DEF KnownAt
    <2>5. odd \/ Clean(live[t])
      BY <1>1, <2>2, <2>3, <2>4, LiveIs
    <2> QED BY <1>6, <2>5 DEF KnownAt, Planned
  <1> QED BY <1>1, <1>6, <1>7, <1>8, ReadsOn DEF Reading, Types, Goto

\* What normalising leaves of a table's indices: one of the models' for each full index of its
\* shape, and the others that are full, but for shadows.
LEMMA NormalIndicesAre ==
  ASSUME NEW candidates, NEW observed
  PROVE  /\ \A x \in NormalIndices(candidates, observed) :
               \/ x \in candidates /\ \E i \in observed : ~i.partial /\ ShapeMatches(x, i)
               \/ /\ x \in observed /\ ~x.partial /\ \A c \in candidates : ~ShapeMatches(c, x)
                  /\ ~Shadow(x, candidates, observed)
         /\ \A i \in observed : ~i.partial /\ (\E c \in candidates : ShapeMatches(c, i)) =>
               \E c \in candidates : ShapeMatches(c, i) /\ c \in NormalIndices(candidates, observed)
         /\ \A i \in observed :
               /\ ~i.partial /\ (\A c \in candidates : ~ShapeMatches(c, i)) /\ ~Shadow(i, candidates, observed)
               => i \in NormalIndices(candidates, observed)
  <1> DEFINE full == {i \in observed : ~i.partial}
             matches(i) == {c \in candidates : ShapeMatches(c, i)}
             first(i) == CHOOSE c \in matches(i) : TRUE
             taken == {first(i) : i \in {j \in full : matches(j) # {}}}
             left == {i \in full : matches(i) = {} /\ ~Shadow(i, candidates, observed)}
  <1>1. NormalIndices(candidates, observed) = taken \cup left
    BY DEF NormalIndices
  <1>2. \A i : matches(i) # {} => first(i) \in matches(i)
    OBVIOUS
  <1>3. \A i, c : c \in matches(i) <=> c \in candidates /\ ShapeMatches(c, i)
    OBVIOUS
  <1>4. \A i : matches(i) = {} <=> \A c \in candidates : ~ShapeMatches(c, i)
    OBVIOUS
  <1> HIDE DEF first, matches
  <1>5. ASSUME NEW x \in taken PROVE x \in candidates /\ \E i \in observed : ~i.partial /\ ShapeMatches(x, i)
    BY <1>2, <1>3
  <1>6. ASSUME NEW i \in observed, ~i.partial, matches(i) # {}
        PROVE  \E c \in candidates : ShapeMatches(c, i) /\ c \in taken
    <2>1. first(i) \in taken
      BY <1>6
    <2> QED BY <1>2, <1>3, <1>6, <2>1
  <1> HIDE DEF taken
  <1> QED BY <1>1, <1>4, <1>5, <1>6

LEMMA NormalTableIs ==
  ASSUME NEW cols, NEW idx, NEW targets
  PROVE  /\ DOMAIN NormalTable(cols, idx, targets).cols = DOMAIN cols
         /\ NormalTable(cols, idx, targets).idx = NormalIndices(UNION {u.idx : u \in targets}, idx)
  <1> DEFINE type(c) == ReadType(Backend, cols[c], {t.cols[c] : t \in {u \in targets : c \in DOMAIN u.cols}})
             left == NormalIndices(UNION {u.idx : u \in targets}, idx)
  <1>1. NormalTable(cols, idx, targets) = [cols |-> [c \in DOMAIN cols |-> type(c)], idx |-> left]
    BY DEF NormalTable
  <1> HIDE DEF type
  <1> QED BY <1>1

LEMMA NormalisedIsFinite ==
  ASSUME NEW s, IsFiniteSet(DOMAIN s.cols),
         \A t \in DOMAIN s.cols : IsFiniteSet(DOMAIN s.cols[t]) /\ IsFiniteSet(s.idx[t]),
         NEW target, IsFinite(target)
  PROVE  IsFinite(Normalised(s, target)) /\ DOMAIN Normalised(s, target) = DOMAIN s.cols
  <1> DEFINE n == Normalised(s, target)
  <1>1. DOMAIN n = DOMAIN s.cols /\ \A t \in DOMAIN s.cols :
           n[t] = NormalTable(s.cols[t], s.idx[t], TargetOf(target, t))
    BY DEF Normalised
  <1>2. ASSUME NEW t \in DOMAIN s.cols PROVE IsFiniteSet(DOMAIN n[t].cols) /\ IsFiniteSet(n[t].idx)
    <2> DEFINE targets == TargetOf(target, t)
               candidates == UNION {u.idx : u \in targets}
    <2>1. DOMAIN n[t].cols = DOMAIN s.cols[t] /\ n[t].idx = NormalIndices(candidates, s.idx[t])
      <3> HIDE DEF targets
      <3>1. n[t] = NormalTable(s.cols[t], s.idx[t], targets)
        BY <1>1 DEF targets
      <3> HIDE DEF n
      <3> QED BY <3>1, NormalTableIs
    <2>2. IsFiniteSet(candidates)
      <3>1. CASE t \in DOMAIN target
        <4>1. candidates = target[t].idx
          BY <3>1 DEF TargetOf
        <4> QED BY <3>1, <4>1 DEF IsFinite
      <3>2. CASE t \notin DOMAIN target
        <4>1. candidates = {}
          BY <3>2 DEF TargetOf
        <4> QED BY <4>1, FS_EmptySet
      <3> QED BY <3>1, <3>2
    <2> HIDE DEF candidates
    <2>3. NormalIndices(candidates, s.idx[t]) \subseteq candidates \cup s.idx[t]
      BY NormalIndicesAre
    <2>4. IsFiniteSet(candidates \cup s.idx[t])
      BY <2>2, FS_Union
    <2> QED BY <2>1, <2>3, <2>4, FS_Subset
  <1> HIDE DEF n
  <1> QED BY <1>1, <1>2 DEF IsFinite, n

LEMMA RepeatedNames ==
  ASSUME NEW s, NEW target
  PROVE  LET n == Normalised(s, target) IN AllRepeated(s, target) \in SUBSET ((DOMAIN n) \X Names(n))
  <1> DEFINE n == Normalised(s, target)
             candidates(t) == UNION {u.idx : u \in TargetOf(target, t)}
             here(t) == {<<t, c.name>> : c \in Repeated(candidates(t), s.idx[t])}
  <1>1. DOMAIN n = DOMAIN s.cols /\ \A t \in DOMAIN s.cols :
           n[t] = NormalTable(s.cols[t], s.idx[t], TargetOf(target, t))
    BY DEF Normalised
  <1>2. AllRepeated(s, target) = UNION {here(t) : t \in DOMAIN s.cols}
    BY DEF AllRepeated
  <1> HIDE DEF n
  <1>3. ASSUME NEW t \in DOMAIN s.cols, NEW c \in Repeated(candidates(t), s.idx[t]) PROVE c.name \in Names(n)
    <2>1. n[t].idx = NormalIndices(candidates(t), s.idx[t])
      BY <1>1, NormalTableIs
    <2>2. c \in n[t].idx
      BY <1>3, <2>1 DEF Repeated
    <2> QED BY <1>1, <2>2, NamesHold
  <1> HIDE DEF candidates
  <1>4. \A t \in DOMAIN s.cols : here(t) \subseteq (DOMAIN n) \X Names(n)
    BY <1>1, <1>3
  <1> HIDE DEF here
  <1>5. AllRepeated(s, target) \in SUBSET ((DOMAIN n) \X Names(n))
    BY <1>2, <1>4
  <1> QED BY <1>5 DEF n

\* A step of a plan before its first statement.
LEMMA PlansOn ==
  ASSUME IInv, NEW p \in Processes, NEW at \in Planned, pc[p] # "idle", pc' = [pc EXCEPT ![p] = at],
         DOMAIN seen' = Processes, DOMAIN plan' = Processes,
         \A q \in Processes \ {p} : seen'[q] = seen[q] /\ plan'[q] = plan[q],
         UNCHANGED <<live, world, job, since>>,
         IsPlan(Source(p), plan'[p]),
         since[p] # "others" /\ Backend # "postgresql" =>
            \A t \in DOMAIN live : InScope(p, t) => Clean(live[t])
  PROVE  IInv'
  <1>1. Types /\ WorldOK /\ CallOK(p)
    BY DEF IInv
  <1>2. Types'
    BY <1>1 DEF Types, Planned, Places
  <1>3. pc'[p] = at /\ Source(p)' = Source(p) /\ Backend' = Backend
    BY <1>1 DEF Types, Source, Backend
  <1>4. at \notin Reading /\ at # "idle"
    BY DEF Reading, Planned
  <1>5. CallOK(p)'
    BY <1>1, <1>3, <1>4 DEF CallOK, Source, IsPlan, Proper, IsManaged
  <1>6. Knows(p)'
    <2>1. \A t : InScope(p, t)' <=> InScope(p, t)
      BY DEF InScope, IsManaged, Internal, Source, Backend
    <2> QED BY <1>3, <1>4, <2>1 DEF Knows, KnownAt, Planned
  <1>7. IsSchema(Backend, live')
    BY <1>1 DEF WorldOK
  <1>8. \A q \in Processes \ {p} : pc'[q] = pc[q]
    BY <1>1 DEF Types
  <1> QED BY <1>2, <1>5, <1>6, <1>7, <1>8, StepIInv

LEMMA SourceIs ==
  ASSUME IInv, NEW p \in Processes, pc[p] # "idle"
  PROVE  Source(p) \in Range(Sources) /\ IsModels(Backend, Target(p))
  <1>1. job[p] \in Jobs /\ job[p].todo # <<>> /\ WorldOK
    BY DEF IInv, Types, CallOK
  <1>2. job[p].todo \in Seq(Range(Sources))
    BY <1>1 DEF Jobs
  <1>3. Source(p) \in Range(Sources)
    BY <1>1, <1>2 DEF Source
  <1> QED BY <1>1, <1>3, WorldIs DEF Target, WorldOK

LEMMA DecideIInv == ASSUME IInv, NEW p \in Processes, Decide(p) PROVE IInv'
  <1> DEFINE schema == Normalised(seen[p], Target(p))
             planned == Diff(schema, Target(p), {})
             next == IF Backend = "mysql" THEN "lock" ELSE "write"
  <1>1. /\ Types /\ WorldOK /\ pc[p] = "decide" /\ UNCHANGED <<live, world, since>>
        /\ IsReading(Source(p), "decide", seen[p])
    BY DEF IInv, Decide, KeepSchema, CallOK, Reading
  <1>2. since[p] # "others" /\ Backend # "postgresql" =>
            \A t \in DOMAIN live : InScope(p, t) => KnownAt("decide", seen[p], t, live[t])
    BY <1>1 DEF IInv, Knows, Reading
  <1>3. CASE \E outcome : EndSource(p, outcome)
    BY <1>1, <1>3, EndSourceIInv
  <1>4. CASE /\ ~Unsupported(seen[p], schema)
             /\ plan' = [plan EXCEPT ![p] = planned] /\ seen' = [seen EXCEPT ![p] = Nothing]
             /\ Goto(p, next) /\ UNCHANGED <<job, result>>
    <2>1. ~seen[p].odd
      BY <1>4 DEF Unsupported
    <2>2. IsModels(Backend, Target(p))
      BY <1>1, SourceIs
    <2>8. IsFinite(Target(p))
      BY <2>2 DEF IsModels, IsTable, IsFinite
    <2>3. IsFinite(schema) /\ DOMAIN schema = DOMAIN seen[p].cols
      BY <1>1, <2>8, NormalisedIsFinite DEF IsReading
    <2>4. IsPlan(Source(p), planned)
      <3> HIDE DEF schema
      <3>1. \A t \in DOMAIN schema : IsManaged(Source(p), t)
        BY <1>1, <2>3 DEF IsReading
      <3>2. IsFinite(world.targets[Source(p)])
        BY <2>8 DEF Target
      <3> QED BY <2>3, <3>1, <3>2, DiffIsPlan DEF Target
    <2> HIDE DEF planned
    <2>5. /\ DOMAIN seen' = Processes /\ DOMAIN plan' = Processes /\ plan'[p] = planned
          /\ \A q \in Processes \ {p} : seen'[q] = seen[q] /\ plan'[q] = plan[q]
      BY <1>1, <1>4 DEF Types
    <2>6. since[p] # "others" /\ Backend # "postgresql" =>
             \A t \in DOMAIN live : InScope(p, t) => Clean(live[t])
      BY <1>2, <2>1 DEF KnownAt
    <2>7. next \in Planned /\ pc' = [pc EXCEPT ![p] = next]
      BY <1>4 DEF Planned, Goto
    <2> HIDE DEF next
    <2> QED BY <1>1, <1>4, <2>4, <2>5, <2>6, <2>7, PlansOn
  <1> QED BY <1>3, <1>4 DEF Decide

\* A plan is complete: the next thing is to inspect again.
LEMMA VerifyIInv ==
  ASSUME IInv, NEW p \in Processes, pc[p] # "idle", Verify(p), world' = world, IsSchema(Backend, live'),
         DOMAIN since' = Processes,
         \A q \in Processes \ {p} : (live' = live /\ since'[q] = since[q]) \/ since'[q] = "others"
  PROVE  IInv'
  <1>1. /\ Types /\ job[p] \in Jobs /\ job[p].todo # <<>> /\ pc' = [pc EXCEPT ![p] = "inspect"]
        /\ job' = [job EXCEPT ![p] = [job[p] EXCEPT !.verify = TRUE]]
        /\ plan' = [plan EXCEPT ![p] = <<>>] /\ seen' = seen
    BY DEF IInv, Types, CallOK, Verify, Goto
  <1> DEFINE new == [job[p] EXCEPT !.verify = TRUE]
  <1>2. new \in Jobs /\ new.todo = job[p].todo
    BY <1>1 DEF Jobs
  <1>3. Types'
    BY <1>1, <1>2 DEF Types, Places
  <1>4. pc'[p] = "inspect" /\ job'[p] = new
    BY <1>1 DEF Types
  <1>5. CallOK(p)' /\ Knows(p)'
    BY <1>1, <1>2, <1>4 DEF CallOK, Knows, Reading, Planned
  <1>6. \A q \in Processes \ {p} :
           pc'[q] = pc[q] /\ job'[q] = job[q] /\ seen'[q] = seen[q] /\ plan'[q] = plan[q]
    BY <1>1 DEF Types
  <1> QED BY <1>3, <1>5, <1>6, StepIInv

LEMMA WriteSince ==
  ASSUME Types, NEW p \in Processes, NEW schema, Write(p, schema)
  PROVE  /\ live' = schema /\ DOMAIN since' = Processes /\ since'[p] = since[p]
         /\ \A q \in Processes \ {p} : (live' = live /\ since'[q] = since[q]) \/ since'[q] = "others"
  BY DEF Types, Write

\* What a plan writes, in one transaction or statement by statement.
LEMMA WritePlanWrites ==
  ASSUME IInv, NEW p \in Processes, WritePlan(p)
  PROVE  \/ \E outcome : EndSource(p, outcome) /\ UNCHANGED <<live, since>>
         \/ /\ Verify(p) /\ IsSchema(Backend, live') /\ Evolves(Source(p), live, live')
            /\ \E schema : Write(p, schema)
  <1> DEFINE done == ExecuteAll(live, Target(p), plan[p])
  <1>1. pc[p] = "write" /\ WorldOK /\ IsPlan(Source(p), plan[p]) /\ IsModels(Backend, world.targets[Source(p)])
    BY SourceIs DEF IInv, WritePlan, CallOK, Planned, Target
  <1>2. IsSchema(Backend, done[1]) /\ Evolves(Source(p), live, done[1])
    BY <1>1, ExecuteAllEvolves DEF WorldOK, Target
  <1> HIDE DEF done
  <1>3. \/ Write(p, done[1]) /\ Verify(p)
        \/ EndSource(p, "failed") /\ UNCHANGED <<live, since>>
    BY DEF WritePlan, done
  <1>4. Write(p, done[1]) => live' = done[1]
    BY DEF Write
  <1> QED BY <1>2, <1>3, <1>4

LEMMA WritePlanIInv == ASSUME IInv, NEW p \in Processes, WritePlan(p) PROVE IInv'
  <1>1. pc[p] # "idle" /\ world' = world /\ Types
    BY DEF WritePlan, IInv
  <1>2. CASE \E outcome : EndSource(p, outcome) /\ UNCHANGED <<live, since>>
    BY <1>1, <1>2, EndSourceIInv
  <1>3. CASE Verify(p) /\ IsSchema(Backend, live') /\ \E schema : Write(p, schema)
    BY <1>1, <1>3, WriteSince, VerifyIInv
  <1> QED BY <1>2, <1>3, WritePlanWrites

\* What is known of a planned sync.
LEMMA PlannedKnows ==
  ASSUME IInv, NEW p \in Processes, pc[p] \in Planned
  PROVE  /\ Types /\ WorldOK /\ IsPlan(Source(p), plan[p])
         /\ since[p] # "others" /\ Backend # "postgresql" =>
               \A t \in DOMAIN live : InScope(p, t) => Clean(live[t])
  <1>1. CallOK(p) /\ Knows(p)
    BY DEF IInv
  <1> QED BY <1>1 DEF IInv, CallOK, Knows, KnownAt

LEMMA LockIInv == ASSUME IInv, NEW p \in Processes, Lock(p) PROVE IInv'
  <1>1. pc[p] = "lock" /\ UNCHANGED <<live, since, world>>
    BY DEF Lock, KeepSchema
  <1>2. CASE Goto(p, "markers") /\ UNCHANGED <<job, seen, plan, result>>
    BY <1>1, <1>2, PlannedKnows, PlansOn DEF Planned, Goto, Types
  <1>3. CASE EndSource(p, "error")
    BY <1>1, <1>3, EndSourceIInv
  <1> QED BY <1>2, <1>3 DEF Lock

LEMMA CheckMarkersIInv == ASSUME IInv, NEW p \in Processes, CheckMarkers(p) PROVE IInv'
  <1>1. pc[p] = "markers" /\ UNCHANGED <<live, since, world>>
    BY DEF CheckMarkers, KeepSchema
  <1>2. CASE Goto(p, "statement") /\ UNCHANGED <<job, seen, plan, result, owner>>
    BY <1>1, <1>2, PlannedKnows, PlansOn DEF Planned, Goto, Types
  <1>3. CASE EndSource(p, "refused")
    BY <1>1, <1>3, EndSourceIInv
  <1> QED BY <1>2, <1>3 DEF CheckMarkers

LEMMA ExecuteNextWrites ==
  ASSUME IInv, NEW p \in Processes, ExecuteNext(p)
  PROVE  \/ (Verify(p) \/ EndSource(p, "failed")) /\ UNCHANGED <<live, since>>
         \/ /\ plan[p] # <<>> /\ plan' = [plan EXCEPT ![p] = Tail(@)] /\ UNCHANGED <<pc, job, seen>>
            /\ IsSchema(Backend, live') /\ Evolves(Source(p), live, live')
            /\ \E schema : Write(p, schema)
  <1> DEFINE done == Execute(live, Target(p), Head(plan[p]))
  <1>1. pc[p] = "statement" /\ WorldOK /\ IsPlan(Source(p), plan[p]) /\ IsModels(Backend, world.targets[Source(p)])
    BY SourceIs DEF IInv, ExecuteNext, CallOK, Planned, Target
  <1>2. ASSUME plan[p] # <<>> PROVE IsSchema(Backend, done[1]) /\ Evolves(Source(p), live, done[1])
    <2>1. Proper(Source(p), Head(plan[p]))
      <3>1. Head(plan[p]) = plan[p][1] /\ 1 \in 1..Len(plan[p])
        BY <1>1, <1>2 DEF IsPlan
      <3> QED BY <1>1, <3>1 DEF IsPlan
    <2> QED BY <1>1, <2>1, ExecuteEvolves DEF WorldOK, Target
  <1> HIDE DEF done
  <1>3. \/ (Verify(p) \/ EndSource(p, "failed")) /\ UNCHANGED <<live, since>>
        \/ /\ plan[p] # <<>> /\ Write(p, done[1]) /\ plan' = [plan EXCEPT ![p] = Tail(@)]
           /\ UNCHANGED <<pc, job, seen>>
    BY DEF ExecuteNext, done
  <1>4. Write(p, done[1]) => live' = done[1]
    BY DEF Write
  <1> QED BY <1>2, <1>3, <1>4

LEMMA SequenceOfRange == ASSUME NEW S, NEW s \in Seq(S) PROVE s \in Seq(Range(s))
  BY DEF Range

LEMMA TailIs ==
  ASSUME NEW S, NEW s \in Seq(S), s # <<>>
  PROVE  /\ Tail(s) \in Seq(S) /\ Len(Tail(s)) = Len(s) - 1 /\ Len(s) \in Nat
         /\ \A i \in 1..Len(Tail(s)) : Tail(s)[i] = s[i + 1] /\ i + 1 \in 1..Len(s)
  OBVIOUS

LEMMA RangeIs ==
  ASSUME NEW S, NEW q \in Seq(S)
  PROVE  \A s : s \in Range(q) <=> \E i \in 1..Len(q) : q[i] = s
  BY DEF Range

\* The first statement of a plan, and those after it.
LEMMA TailGoes ==
  ASSUME NEW planned, planned \in Seq(Range(planned)), Ordered(planned), planned # <<>>
  PROVE  /\ Ordered(Tail(planned))
         /\ Head(planned) \in Range(planned) /\ Range(Tail(planned)) = Range(planned) \ {Head(planned)}
         /\ \A s \in Range(planned) : s = Head(planned) \/ Phase(Head(planned).do) <= Phase(s.do)
  <1> DEFINE n == Len(planned)
             rest == Tail(planned)
  <1>1. n \in Nat /\ n > 0 /\ Head(planned) = planned[1] /\ Len(rest) = n - 1
    OBVIOUS
  <1>2. \A i \in 1..Len(rest) : rest[i] = planned[i + 1] /\ i + 1 \in 1..n
    OBVIOUS
  <1>3. \A i, j \in 1..n : i < j => planned[i] # planned[j] /\ Phase(planned[i].do) <= Phase(planned[j].do)
    BY DEF Ordered
  <1>4. \A s : s \in Range(planned) <=> \E i \in 1..n : planned[i] = s
    BY DEF Range
  <1>5. rest \in Seq(Range(planned))
    OBVIOUS
  <1> HIDE DEF rest, n
  <1>6. \A s : s \in Range(rest) <=> \E i \in 1..Len(rest) : rest[i] = s
    BY <1>5, RangeIs
  <1>7. Ordered(rest)
    BY <1>1, <1>2, <1>3 DEF Ordered
  <1>8. Head(planned) \in Range(planned)
    BY <1>1, <1>4
  <1>9. \A s \in Range(planned) : s = Head(planned) \/ Phase(Head(planned).do) <= Phase(s.do)
    <2> SUFFICES ASSUME NEW i \in 1..n PROVE planned[i] = planned[1] \/ Phase(planned[1].do) <= Phase(planned[i].do)
      BY <1>1, <1>4
    <2>1. i = 1 \/ 1 < i
      BY <1>1
    <2> QED BY <1>1, <1>3, <2>1
  <1>10. ASSUME NEW s PROVE s \in Range(rest) <=> s \in Range(planned) \ {Head(planned)}
    <2>1. ASSUME s \in Range(rest) PROVE s \in Range(planned) /\ s # Head(planned)
      <3>1. PICK i \in 1..Len(rest) : rest[i] = s
        BY <1>6, <2>1
      <3>2. i + 1 \in 1..n /\ 1 < i + 1 /\ planned[i + 1] = s
        BY <1>1, <1>2, <3>1
      <3> QED BY <1>1, <1>3, <1>4, <3>2
    <2>2. ASSUME s \in Range(planned), s # Head(planned) PROVE s \in Range(rest)
      <3>1. PICK i \in 1..n : planned[i] = s
        BY <1>4, <2>2
      <3>2. i # 1
        BY <1>1, <2>2, <3>1
      <3>3. i - 1 \in 1..Len(rest) /\ (i - 1) + 1 = i
        BY <1>1, <3>2
      <3>4. rest[i - 1] = s
        BY <1>2, <3>1, <3>3
      <3> QED BY <1>6, <3>3, <3>4
    <2> QED BY <2>1, <2>2
  <1>11. Range(rest) = Range(planned) \ {Head(planned)}
    BY <1>10
  <1> QED BY <1>7, <1>8, <1>9, <1>11 DEF rest

LEMMA ExecuteNextIInv == ASSUME IInv, NEW p \in Processes, ExecuteNext(p) PROVE IInv'
  <1>1. pc[p] = "statement" /\ world' = world /\ Types /\ WorldOK
    BY DEF ExecuteNext, IInv
  <1>2. CASE Verify(p) /\ UNCHANGED <<live, since>>
    BY <1>1, <1>2, VerifyIInv DEF WorldOK, Types
  <1>3. CASE EndSource(p, "failed") /\ UNCHANGED <<live, since>>
    BY <1>1, <1>3, EndSourceIInv
  <1>4. CASE /\ plan[p] # <<>> /\ plan' = [plan EXCEPT ![p] = Tail(@)] /\ UNCHANGED <<pc, job, seen>>
             /\ IsSchema(Backend, live') /\ Evolves(Source(p), live, live')
             /\ \E schema : Write(p, schema)
    <2>1. /\ DOMAIN since' = Processes /\ since'[p] = since[p]
          /\ \A q \in Processes \ {p} : (live' = live /\ since'[q] = since[q]) \/ since'[q] = "others"
      BY <1>1, <1>4, WriteSince
    <2>2. DOMAIN plan' = Processes /\ plan'[p] = Tail(plan[p]) /\ \A q \in Processes \ {p} : plan'[q] = plan[q]
      BY <1>1, <1>4 DEF Types
    <2>3. IsPlan(Source(p), plan[p])
      BY <1>1, PlannedKnows DEF Planned
    <2>4. IsPlan(Source(p), Tail(plan[p]))
      <3>1. Tail(plan[p]) \in Seq(Range(plan[p])) /\ Len(Tail(plan[p])) = Len(plan[p]) - 1 /\ Len(plan[p]) \in Nat
        BY <1>4, <2>3, TailIs DEF IsPlan
      <3>2. \A i \in 1..Len(Tail(plan[p])) : Tail(plan[p])[i] = plan[p][i + 1] /\ i + 1 \in 1..Len(plan[p])
        BY <1>4, <2>3, TailIs DEF IsPlan
      <3>3. Tail(plan[p]) \in Seq(Range(Tail(plan[p])))
        BY <3>1, SequenceOfRange
      <3>4. Ordered(Tail(plan[p]))
        BY <1>4, <2>3, TailGoes DEF IsPlan
      <3> QED BY <2>3, <3>2, <3>3, <3>4 DEF IsPlan
    <2>5. Types'
      BY <1>1, <1>4, <2>1, <2>2 DEF Types
    <2>6. CallOK(p)'
      <3>1. CallOK(p)
        BY DEF IInv
      <3> QED BY <1>1, <1>4, <2>2, <2>4, <3>1
          DEF CallOK, Source, IsPlan, Proper, IsManaged, Reading
    <2>7. Knows(p)'
      <3>1. \A t : InScope(p, t)' <=> InScope(p, t)
        BY <1>1, <1>4 DEF InScope, IsManaged, Internal, Source, Backend
      <3>2. Backend' = Backend
        BY <1>1 DEF Backend
      <3>3. ASSUME since[p] # "others", Backend # "postgresql", NEW t \in DOMAIN live', InScope(p, t)
            PROVE  Clean(live'[t])
        <4>1. t \in DOMAIN live => Clean(live[t])
          BY <1>1, <3>3, PlannedKnows DEF Planned
        <4> QED BY <1>4, <4>1 DEF Evolves
      <3> QED BY <1>1, <1>4, <2>1, <3>1, <3>2, <3>3 DEF Knows, KnownAt, Planned, Reading
    <2>8. \A q \in Processes \ {p} :
             pc'[q] = pc[q] /\ job'[q] = job[q] /\ seen'[q] = seen[q] /\ plan'[q] = plan[q]
      BY <1>4, <2>2
    <2> QED BY <1>1, <1>4, <2>1, <2>5, <2>6, <2>7, <2>8, StepIInv
  <1> QED BY <1>2, <1>3, <1>4, ExecuteNextWrites

LEMMA FailIInv == ASSUME IInv, NEW p \in Processes, Fail(p) PROVE IInv'
  BY EndSourceIInv DEF Fail, KeepSchema

LEMMA ForeignIInv == ASSUME IInv, Foreign PROVE IInv'
  <1>1. /\ world' = world /\ pc' = pc /\ job' = job /\ seen' = seen /\ plan' = plan
        /\ since' = [q \in Processes |-> "others"] /\ live' \in world.others
    BY DEF Foreign
  <1>2. WorldOK'
    <2>1. IsSchema(Backend, live')
      BY <1>1, WorldIs DEF IInv, WorldOK
    <2> QED BY <1>1, <2>1 DEF IInv, WorldOK, WorldKnown, Backend
  <1>3. Types'
    BY <1>1 DEF IInv, Types
  <1>4. ASSUME NEW q \in Processes PROVE CallOK(q)' /\ Knows(q)'
    BY <1>1, OthersStay
  <1> QED BY <1>2, <1>3, <1>4 DEF IInv

LEMMA NextIInv == IInv /\ [Next]_vars => IInv'
  <1> SUFFICES ASSUME IInv, [Next]_vars PROVE IInv'
    OBVIOUS
  <1>1. CASE UNCHANGED vars
    <2>1. \A q \in Processes : CallOK(q)' /\ Knows(q)'
      BY <1>1, OthersStay DEF vars
    <2>2. WorldOK' /\ Types'
      BY <1>1 DEF vars, IInv, WorldOK, WorldKnown, Types, Backend
    <2> QED BY <2>1, <2>2 DEF IInv
  <1>2. ASSUME NEW p \in Processes, Step(p) PROVE IInv'
    BY <1>2, CallIInv, ReadNamesIInv, ReadTableIInv, ReadTableIndicesIInv, ReadColumnsIInv, ReadIndicesIInv,
       ReadConstraintsIInv, DecideIInv, WritePlanIInv, LockIInv, CheckMarkersIInv, ExecuteNextIInv, FailIInv
       DEF Step
  <1> QED BY <1>1, <1>2, ForeignIInv DEF Next

-----------------------------------------------------------------------------

\* On SQLite and MySQL a plan is made and executed only while every table in its scope is
\* free of what Toasty cannot express (a foreign key, a generated column, a strict table, an
\* index on an expression), unless somebody else writes: inspect has noticed all of it.
THEOREM PlansAreSafe == Spec => []NothingLost
  <1>1. Init => IInv
    BY InitIInv
  <1>2. IInv /\ [Next]_vars => IInv'
    BY NextIInv
  <1>3. IInv => NothingLost
    BY IInvImplies
  <1> QED BY <1>1, <1>2, <1>3, PTL DEF Spec

-----------------------------------------------------------------------------
(* Scope                                                                     *)

LEMMA StepEvolves ==
  ASSUME IInv, NEW p \in Processes, Step(p), plan'[p] # plan[p]
  PROVE  pc[p] # "idle" /\ (live' = live \/ Evolves(Source(p), live, live'))
  <1>1. CASE WritePlan(p)
    BY <1>1, WritePlanWrites DEF WritePlan
  <1>2. CASE ExecuteNext(p)
    BY <1>2, ExecuteNextWrites DEF ExecuteNext
  <1>3. CASE Call(p) \/ ReadNames(p) \/ ReadTable(p) \/ ReadTableIndices(p) \/ ReadColumns(p) \/ ReadIndices(p)
             \/ ReadConstraints(p)
    BY <1>3 DEF Call, ReadNames, ReadTable, ReadTableIndices, ReadColumns, ReadIndices, ReadConstraints, KeepSchema
  <1>4. CASE Decide(p) \/ Lock(p) \/ CheckMarkers(p) \/ Fail(p)
    BY <1>4 DEF Decide, Lock, CheckMarkers, Fail, KeepSchema
  <1> QED BY <1>1, <1>2, <1>3, <1>4 DEF Step

LEMMA StepStaysInScope ==
  ASSUME IInv, NEW p \in Processes, Step(p), plan'[p] # plan[p]
  PROVE  WritesInScope(p)
  <1>1. /\ Source(p) \in Range(Sources) /\ Target(p) = world.targets[Source(p)]
        /\ world.scopes[Source(p)].kind \in {"managed", "tables", "prefixes", "exclusive"}
    BY StepEvolves, SourceIs, WorldIs DEF IInv, WorldOK, Target
  <1>2. \A t \in DOMAIN live : IsManaged(Source(p), t) => t \in Owned(Source(p))
    BY <1>1 DEF IsManaged, Owned
  <1>3. CASE live' = live
    BY <1>3 DEF WritesInScope
  <1>4. CASE Evolves(Source(p), live, live')
    <2>1. ASSUME NEW t \in DOMAIN live, ~IsManaged(Source(p), t) PROVE Kept(Source(p), t, live, live')
      BY <1>4, <2>1 DEF Evolves
    <2>2. \A t \in DOMAIN live' : t \notin DOMAIN live => t \in DOMAIN Target(p)
      BY <1>1, <1>4 DEF Evolves
    <2> QED BY <1>1, <1>2, <2>1, <2>2 DEF WritesInScope, Kept
  <1> QED BY <1>3, <1>4, StepEvolves

LEMMA OnlyOnePlans ==
  ASSUME IInv, NEW p \in Processes, NEW q \in Processes, Step(q), plan'[p] # plan[p]
  PROVE  q = p
  <1>1. DOMAIN plan = Processes
    BY DEF IInv, Types
  <1>2. plan' = plan \/ \E x : plan' = [plan EXCEPT ![q] = x]
    BY DEF Step, Call, ReadNames, ReadTable, ReadTableIndices, ReadColumns, ReadIndices, ReadConstraints,
           Decide, WritePlan, Lock, CheckMarkers, ExecuteNext, Fail, EndSource, Verify
  <1> QED BY <1>1, <1>2

LEMMA ForeignCounts == ASSUME foreign \in Nat, [Next]_vars PROVE foreign' \in Nat
  <1>1. ASSUME NEW p \in Processes, Step(p) PROVE foreign' = foreign
    BY <1>1 DEF Step, Call, ReadNames, ReadTable, ReadTableIndices, ReadColumns, ReadIndices, ReadConstraints,
                Decide, WritePlan, Lock, CheckMarkers, ExecuteNext, Fail, KeepSchema
  <1>2. CASE Foreign
    BY <1>2 DEF Foreign
  <1>3. CASE UNCHANGED vars
    BY <1>3 DEF vars
  <1> QED BY <1>1, <1>2, <1>3 DEF Next

SInv == IInv /\ foreign \in Nat

\* On every backend and whatever others do meanwhile, a sync writes to no table that was there
\* and is out of its source's scope, but for the indices of its own models, and makes only its
\* models' tables (is_managed bounds what is observed, and so what is planned).
THEOREM ScopesAreHonoured == Spec => ScopeHonoured
  <1>1. Init => SInv
    BY InitIInv DEF Init, SInv
  <1>2. SInv /\ [Next]_vars => SInv'
    BY NextIInv, ForeignCounts DEF SInv
  <1>3. SInv /\ [Next]_vars =>
           [\A p \in Processes : plan'[p] # plan[p] /\ foreign' = foreign => WritesInScope(p)]_vars
    <2> SUFFICES ASSUME IInv, foreign \in Nat, Next, NEW p \in Processes, plan'[p] # plan[p], foreign' = foreign
                 PROVE  WritesInScope(p)
      BY DEF SInv
    <2>1. ~Foreign
      BY DEF Foreign
    <2>2. PICK q \in Processes : Step(q)
      BY <2>1 DEF Next
    <2> QED BY <2>2, OnlyOnePlans, StepStaysInScope
  <1> QED BY <1>1, <1>2, <1>3, PTL DEF Spec, ScopeHonoured

-----------------------------------------------------------------------------
(* What a sync has read, and how it ends                                     *)

\* What an inspection has read by the time it is at a place is what is there: the tables
\* in scope, their columns, and their indices as far as they are read.
MirrorsAt(at, read, tables) ==
    /\ IF at \in {"table", "table_indices"} THEN DOMAIN read.cols \cup read.todo = tables
       ELSE DOMAIN read.cols = tables
    /\ \A t \in DOMAIN read.cols :
          /\ read.cols[t] = live[t].cols
          /\ \/ at = "indices" \/ (at \in {"table", "table_indices"} /\ t \in read.todo)
             \/ read.idx[t] = IndicesOf(t)
    /\ at = "table_indices" => read.idx[Chosen(read)] = {i \in IndicesOf(Chosen(read)) : i.pk}
    /\ read.odd => \E t \in tables : live[t].odd # {} \/ HasExpression(t)

\* Unless somebody else has written since it began.
Mirrors(p) ==
    pc[p] \in Reading /\ since[p] # "others" => MirrorsAt(pc[p], seen[p], Visible(Source(p)))

\* The result of a sync under way is not there yet.
Open(p) ==
    pc[p] \notin {"idle", "inspect"} \/ (pc[p] = "inspect" /\ job[p].verify) => result[p].is = "none"

EndsWell(p) ==
    result[p].is \in {"unchanged", "synced"} /\ since[p] # "others" /\ ~Indistinct => IsTarget(result[p].source)

SyncedInv ==
    IInv /\ DOMAIN result = Processes /\ \A p \in Processes : Mirrors(p) /\ Open(p) /\ EndsWell(p)

\* What a step of one process leaves as it is for the others.
LEMMA StepLeaves ==
  ASSUME IInv, DOMAIN result = Processes, NEW p \in Processes, Step(p)
  PROVE  /\ world' = world /\ DOMAIN result' = Processes
         /\ \A q \in Processes \ {p} :
               /\ pc'[q] = pc[q] /\ job'[q] = job[q] /\ seen'[q] = seen[q] /\ plan'[q] = plan[q]
               /\ result'[q] = result[q]
               /\ (live' = live /\ since'[q] = since[q]) \/ since'[q] = "others"
  <1>1. Types
    BY DEF IInv
  <1>2. world' = world
    BY DEF Step, Call, ReadNames, ReadTable, ReadTableIndices, ReadColumns, ReadIndices, ReadConstraints,
           Decide, WritePlan, Lock, CheckMarkers, ExecuteNext, Fail, KeepSchema
  <1>3. pc' = pc \/ \E x : pc' = [pc EXCEPT ![p] = x]
    BY DEF Step, Call, ReadNames, ReadTable, ReadTableIndices, ReadColumns, ReadIndices, ReadConstraints,
           Decide, WritePlan, Lock, CheckMarkers, ExecuteNext, Fail, EndSource, Verify, Goto
  <1>4. job' = job \/ \E x : job' = [job EXCEPT ![p] = x]
    <2>1. CASE Call(p)
      BY <2>1 DEF Call
    <2>2. CASE \E outcome : EndSource(p, outcome)
      <3>1. PICK outcome : EndSource(p, outcome)
        BY <2>2
      <3> DEFINE rest == IF outcome \in {"unchanged", "planned", "synced"} THEN Tail(job[p].todo) ELSE <<>>
                 new == IF rest = <<>> THEN NoJob ELSE [job[p] EXCEPT !.todo = rest, !.verify = FALSE]
      <3>2. job' = [job EXCEPT ![p] = new]
        BY <3>1 DEF EndSource
      <3> HIDE DEF new
      <3> QED BY <3>2
    <2>3. CASE Verify(p)
      <3>1. job' = [job EXCEPT ![p] = [job[p] EXCEPT !.verify = TRUE]]
        BY <2>3 DEF Verify
      <3> QED BY <3>1
    <2>4. CASE job' = job
      BY <2>4
    <2> QED BY <2>1, <2>2, <2>3, <2>4
        DEF Step, ReadNames, ReadTable, ReadTableIndices, ReadColumns, ReadIndices, ReadConstraints,
            Decide, WritePlan, Lock, CheckMarkers, ExecuteNext, Fail
  <1>5. DOMAIN seen' = Processes /\ \A q \in Processes \ {p} : seen'[q] = seen[q]
    BY <1>1 DEF Types, Step, Call, ReadNames, ReadTable, ReadTableIndices, ReadColumns, ReadIndices, ReadConstraints,
           Decide, WritePlan, Lock, CheckMarkers, ExecuteNext, Fail, EndSource, Verify
  <1>6. plan' = plan \/ \E x : plan' = [plan EXCEPT ![p] = x]
    BY DEF Step, Call, ReadNames, ReadTable, ReadTableIndices, ReadColumns, ReadIndices, ReadConstraints,
           Decide, WritePlan, Lock, CheckMarkers, ExecuteNext, Fail, EndSource, Verify
  <1>7. result' = result \/ \E x : result' = [result EXCEPT ![p] = x]
    BY DEF Step, Call, ReadNames, ReadTable, ReadTableIndices, ReadColumns, ReadIndices, ReadConstraints,
           Decide, WritePlan, Lock, CheckMarkers, ExecuteNext, Fail, EndSource, Verify, Fresh
  <1>8. \/ live' = live /\ since' = since
        \/ live' = live /\ Fresh(p)
        \/ \E schema : Write(p, schema)
    BY DEF Step, Call, ReadNames, ReadTable, ReadTableIndices, ReadColumns, ReadIndices, ReadConstraints,
           Decide, WritePlan, Lock, CheckMarkers, ExecuteNext, Fail, KeepSchema
  <1>9. \A q \in Processes \ {p} : (live' = live /\ since'[q] = since[q]) \/ since'[q] = "others"
    BY <1>1, <1>8, FreshSince, WriteSince
  <1> QED BY <1>1, <1>2, <1>3, <1>4, <1>5, <1>6, <1>7, <1>9 DEF Types

\* How the last source ended, and what was read, as long as nobody else has written.
LEMMA ViewStays ==
  ASSUME IInv, world' = world, live' = live, NEW source
  PROVE  /\ Visible(source)' = Visible(source) /\ Backend' = Backend /\ Indistinct' = Indistinct
         /\ IsTarget(source)' <=> IsTarget(source)
         /\ \A t : IndicesOf(t)' = IndicesOf(t) /\ (HasExpression(t)' <=> HasExpression(t))
  <1>1. Backend' = Backend
    BY DEF Backend
  <1>2. Visible(source)' = Visible(source)
    BY <1>1 DEF Visible, IsManaged, Internal
  <1>3. \A t : IndicesOf(t)' = IndicesOf(t) /\ (HasExpression(t)' <=> HasExpression(t))
    BY DEF IndicesOf, HasExpression
  <1>4. Indistinct' = Indistinct
    BY <1>1, <1>3 DEF Indistinct
  <1>5. IsTarget(source)' <=> IsTarget(source)
    BY <1>1, <1>2 DEF IsTarget, TableIs
  <1> QED BY <1>1, <1>2, <1>3, <1>4, <1>5

LEMMA OthersView ==
  ASSUME SyncedInv, NEW q \in Processes, world' = world,
         pc'[q] = pc[q], job'[q] = job[q], seen'[q] = seen[q], result'[q] = result[q],
         (live' = live /\ since'[q] = since[q]) \/ since'[q] = "others"
  PROVE  Mirrors(q)' /\ Open(q)' /\ EndsWell(q)'
  <1>1. IInv /\ Mirrors(q) /\ Open(q) /\ EndsWell(q)
    BY DEF SyncedInv
  <1>2. Open(q)'
    BY <1>1 DEF Open
  <1>3. CASE since'[q] = "others"
    BY <1>2, <1>3 DEF Mirrors, EndsWell
  <1>4. CASE live' = live /\ since'[q] = since[q]
    <2>1. Source(q)' = Source(q)
      BY DEF Source
    <2>2. Visible(Source(q))' = Visible(Source(q))
      <3> DEFINE source == Source(q)
      <3>1. source' = source
        BY <2>1
      <3> HIDE DEF source
      <3>2. Visible(source)' = Visible(source)
        BY <1>1, <1>4, <3>1, ViewStays
      <3> QED BY <3>1, <3>2 DEF source
    <2>3. Mirrors(q)'
      BY <1>1, <1>4, <2>2, ViewStays DEF Mirrors, MirrorsAt, Chosen
    <2>4. EndsWell(q)'
      BY <1>1, <1>4, ViewStays DEF EndsWell
    <2> QED BY <1>2, <2>3, <2>4
  <1> QED BY <1>3, <1>4

\* A step of an inspection.
LEMMA MirrorsOn ==
  ASSUME IInv, NEW p \in Processes, world' = world, live' = live, job' = job,
         since'[p] # "others" => MirrorsAt(pc'[p], seen'[p], Visible(Source(p)))
  PROVE  Mirrors(p)'
  <1>1. Source(p)' = Source(p)
    BY DEF Source
  <1>2. Visible(Source(p))' = Visible(Source(p))
    <2> DEFINE source == Source(p)
    <2>1. source' = source
      BY <1>1
    <2> HIDE DEF source
    <2>2. Visible(source)' = Visible(source)
      BY <2>1, ViewStays
    <2> QED BY <2>1, <2>2 DEF source
  <1> QED BY <1>2, ViewStays DEF Mirrors, MirrorsAt, Chosen

LEMMA ReadNamesMirrors == ASSUME SyncedInv, NEW p \in Processes, ReadNames(p) PROVE Mirrors(p)'
  <1> DEFINE tables == Visible(Source(p))
             odd == \E t \in tables : HasOdd(t, "strict")
             read == [Nothing EXCEPT !.todo = tables, !.odd = odd]
  <1>1. IInv /\ Types /\ pc' = [pc EXCEPT ![p] = "table"] /\ UNCHANGED <<world, live, job>>
    BY DEF SyncedInv, IInv, ReadNames, Goto
  <1>2. seen' = [seen EXCEPT ![p] = read]
    BY DEF ReadNames
  <1>3. DOMAIN read.cols = {} /\ read.todo = tables /\ read.odd = odd
    BY DEF Nothing
  <1>4. odd => \E t \in tables : live[t].odd # {}
    BY DEF HasOdd
  <1> HIDE DEF read, tables, odd
  <1>5. MirrorsAt("table", read, tables)
    BY <1>3, <1>4 DEF MirrorsAt
  <1>6. pc'[p] = "table" /\ seen'[p] = read
    BY <1>1, <1>2 DEF Types
  <1> QED BY <1>1, <1>5, <1>6, MirrorsOn DEF tables

LEMMA ReadTableMirrors == ASSUME SyncedInv, NEW p \in Processes, ReadTable(p) PROVE Mirrors(p)'
  <1> DEFINE tables == Visible(Source(p))
  <1>1. /\ IInv /\ Types /\ pc[p] = "table" /\ UNCHANGED <<live, world, job, plan, since>>
        /\ IsReading(Source(p), "table", seen[p])
    BY DEF SyncedInv, IInv, ReadTable, KeepSchema, CallOK, Reading
  <1>2. since[p] # "others" => MirrorsAt("table", seen[p], tables)
    BY <1>1 DEF SyncedInv, Mirrors, Reading
  <1>3. tables \subseteq DOMAIN live
    BY DEF Visible
  <1> HIDE DEF tables
  <1>4. CASE seen[p].todo = {} /\ Goto(p, "decide") /\ UNCHANGED seen
    <2>1. pc'[p] = "decide" /\ seen'[p] = seen[p]
      BY <1>1, <1>4 DEF Types, Goto
    <2>2. since[p] # "others" => MirrorsAt("decide", seen[p], tables)
      BY <1>2, <1>4 DEF MirrorsAt
    <2> QED BY <1>1, <2>1, <2>2, MirrorsOn DEF tables
  <1>5. CASE seen[p].todo # {}
    <2> DEFINE t == Chosen(seen[p])
               cols == IF t \in DOMAIN live THEN live[t].cols ELSE <<>>
               odd == seen[p].odd \/ HasOdd(t, "generated")
               key == {i \in IndicesOf(t) : i.pk}
    <2>1. /\ seen' = [seen EXCEPT ![p].cols = Put(@, t, cols), ![p].idx = Put(@, t, key), ![p].odd = odd]
          /\ Goto(p, "table_indices")
      BY <1>5 DEF ReadTable, Chosen
    <2>2. t \in seen[p].todo
      BY <1>5 DEF Chosen
    <2>3. /\ seen'[p].cols = Put(seen[p].cols, t, cols) /\ seen'[p].idx = Put(seen[p].idx, t, key)
          /\ seen'[p].odd = odd /\ seen'[p].todo = seen[p].todo
      <3> HIDE DEF t, cols, odd, key
      <3> QED BY <1>1, <2>1 DEF Types, IsReading
    <2>4. odd => seen[p].odd \/ (t \in DOMAIN live /\ live[t].odd # {})
      BY DEF HasOdd
    <2>5. Chosen(seen'[p]) = t /\ pc'[p] = "table_indices"
      BY <1>1, <2>1, <2>3 DEF Chosen, Goto, Types
    <2>6. t \in DOMAIN live => cols = live[t].cols
      OBVIOUS
    <2> HIDE DEF t, cols, odd
    <2>7. /\ DOMAIN seen'[p].cols = DOMAIN seen[p].cols \cup {t}
          /\ seen'[p].cols[t] = cols /\ seen'[p].idx[t] = key
          /\ \A u \in DOMAIN seen[p].cols : u # t =>
                seen'[p].cols[u] = seen[p].cols[u] /\ seen'[p].idx[u] = seen[p].idx[u]
      <3> HIDE DEF key
      <3> QED BY <1>1, <2>3 DEF Put, IsReading
    <2>8. ASSUME since[p] # "others" PROVE MirrorsAt("table_indices", seen'[p], tables)
      <3>1. MirrorsAt("table", seen[p], tables)
        BY <1>2, <2>8
      <3>2. t \in tables /\ t \in DOMAIN live
        BY <1>3, <2>2, <3>1 DEF MirrorsAt
      <3>3. DOMAIN seen'[p].cols \cup seen'[p].todo = tables
        BY <2>3, <2>7, <3>1, <3>2 DEF MirrorsAt
      <3>4. ASSUME NEW u \in DOMAIN seen'[p].cols
            PROVE  /\ seen'[p].cols[u] = live[u].cols
                   /\ u \in seen'[p].todo \/ seen'[p].idx[u] = IndicesOf(u)
        <4> HIDE DEF key
        <4> QED BY <2>2, <2>3, <2>6, <2>7, <3>1, <3>2, <3>4 DEF MirrorsAt
      <3>5. seen'[p].odd => \E u \in tables : live[u].odd # {} \/ HasExpression(u)
        BY <2>3, <2>4, <3>1, <3>2 DEF MirrorsAt
      <3> QED BY <2>5, <2>7, <3>3, <3>4, <3>5 DEF MirrorsAt
    <2> QED BY <1>1, <2>5, <2>8, MirrorsOn DEF tables
  <1> QED BY <1>4, <1>5 DEF ReadTable

LEMMA ReadTableIndicesMirrors == ASSUME SyncedInv, NEW p \in Processes, ReadTableIndices(p) PROVE Mirrors(p)'
  <1> DEFINE tables == Visible(Source(p))
             t == Chosen(seen[p])
             odd == seen[p].odd \/ HasExpression(t) \/ HasOdd(t, "foreign_key")
             others == {i \in IndicesOf(t) : ~i.pk}
  <1>1. /\ IInv /\ Types /\ pc[p] = "table_indices" /\ UNCHANGED <<live, world, job, plan, since>>
        /\ IsReading(Source(p), "table_indices", seen[p]) /\ Goto(p, "table")
    BY DEF SyncedInv, IInv, ReadTableIndices, KeepSchema, CallOK, Reading
  <1>2. since[p] # "others" => MirrorsAt("table_indices", seen[p], tables)
    BY <1>1 DEF SyncedInv, Mirrors, Reading
  <1>3. seen' = [seen EXCEPT ![p].idx[t] = @ \cup others, ![p].odd = odd, ![p].todo = @ \ {t}]
    BY DEF ReadTableIndices, Chosen
  <1>4. t \in seen[p].todo /\ t \in DOMAIN seen[p].cols /\ t \in DOMAIN seen[p].idx
    BY <1>1 DEF IsReading
  <1>5. odd => seen[p].odd \/ HasExpression(t) \/ live[t].odd # {}
    BY DEF HasOdd
  <1>6. {i \in IndicesOf(t) : i.pk} \cup others = IndicesOf(t)
    OBVIOUS
  <1>7. pc'[p] = "table"
    BY <1>1 DEF Types, Goto
  <1> DEFINE chosen == Chosen(seen[p])
  <1>8. chosen = t
    OBVIOUS
  <1> HIDE DEF t, odd, others, tables, chosen
  <1>9. /\ seen'[p].cols = seen[p].cols /\ seen'[p].idx = [seen[p].idx EXCEPT ![t] = @ \cup others]
        /\ seen'[p].odd = odd /\ seen'[p].todo = seen[p].todo \ {t}
    BY <1>1, <1>3 DEF Types, IsReading
  <1>10. /\ seen'[p].idx[t] = seen[p].idx[t] \cup others
         /\ \A u \in DOMAIN seen[p].idx : u # t => seen'[p].idx[u] = seen[p].idx[u]
    BY <1>4, <1>9
  <1>11. ASSUME since[p] # "others" PROVE MirrorsAt("table", seen'[p], tables)
    <2>1. MirrorsAt("table_indices", seen[p], tables)
      BY <1>2, <1>11
    <2>2. seen[p].idx[t] = {i \in IndicesOf(t) : i.pk}
      BY <1>8, <2>1 DEF MirrorsAt, chosen
    <2>3. seen'[p].idx[t] = IndicesOf(t)
      BY <1>6, <1>10, <2>2
    <2>4. DOMAIN seen'[p].cols \cup seen'[p].todo = tables
      BY <1>4, <1>9, <2>1 DEF MirrorsAt
    <2>5. ASSUME NEW u \in DOMAIN seen'[p].cols
          PROVE  seen'[p].cols[u] = live[u].cols /\ (u \in seen'[p].todo \/ seen'[p].idx[u] = IndicesOf(u))
      <3>1. CASE u = t
        BY <1>9, <2>1, <2>3, <2>5, <3>1 DEF MirrorsAt
      <3>2. CASE u # t
        <4>1. u \in DOMAIN seen[p].idx
          BY <1>1, <1>9, <2>5 DEF IsReading
        <4> QED BY <1>9, <1>10, <2>1, <2>5, <3>2, <4>1 DEF MirrorsAt
      <3> QED BY <3>1, <3>2
    <2>6. seen'[p].odd => \E u \in tables : live[u].odd # {} \/ HasExpression(u)
      BY <1>4, <1>5, <1>9, <2>1 DEF MirrorsAt
    <2> QED BY <2>4, <2>5, <2>6 DEF MirrorsAt
  <1> QED BY <1>1, <1>7, <1>11, MirrorsOn DEF tables

LEMMA ReadColumnsMirrors == ASSUME SyncedInv, NEW p \in Processes, ReadColumns(p) PROVE Mirrors(p)'
  <1> DEFINE tables == Visible(Source(p))
             cols == [t \in tables |-> live[t].cols]
             odd == (Backend = "mysql" /\ \E t \in tables : HasOdd(t, "generated"))
             read == [Nothing EXCEPT !.cols = cols, !.odd = odd]
  <1>1. IInv /\ Types /\ pc' = [pc EXCEPT ![p] = "indices"] /\ UNCHANGED <<world, live, job>>
    BY DEF SyncedInv, IInv, ReadColumns, Goto
  <1>2. seen' = [seen EXCEPT ![p] = read]
    BY DEF ReadColumns
  <1>3. read.cols = cols /\ read.odd = odd
    BY DEF Nothing
  <1>4. odd => \E t \in tables : live[t].odd # {}
    BY DEF HasOdd
  <1>5. DOMAIN cols = tables /\ \A t \in tables : cols[t] = live[t].cols
    OBVIOUS
  <1> HIDE DEF read, tables, odd, cols
  <1>6. MirrorsAt("indices", read, tables)
    BY <1>3, <1>4, <1>5 DEF MirrorsAt
  <1>7. pc'[p] = "indices" /\ seen'[p] = read
    BY <1>1, <1>2 DEF Types
  <1> QED BY <1>1, <1>6, <1>7, MirrorsOn DEF tables

LEMMA ReadIndicesMirrors == ASSUME SyncedInv, NEW p \in Processes, ReadIndices(p) PROVE Mirrors(p)'
  <1> DEFINE tables == Visible(Source(p))
             idx == [t \in DOMAIN seen[p].cols |-> IndicesOf(t)]
             odd == seen[p].odd \/ (Backend = "mysql" /\ \E t \in DOMAIN seen[p].cols : HasExpression(t))
             at == IF Backend = "mysql" THEN "constraints" ELSE "decide"
  <1>1. /\ IInv /\ Types /\ pc[p] = "indices" /\ UNCHANGED <<live, world, job, plan, since>>
        /\ IsReading(Source(p), "indices", seen[p]) /\ Goto(p, at)
    BY DEF SyncedInv, IInv, ReadIndices, KeepSchema, CallOK, Reading
  <1>2. since[p] # "others" => MirrorsAt("indices", seen[p], tables)
    BY <1>1 DEF SyncedInv, Mirrors, Reading
  <1>3. seen' = [seen EXCEPT ![p].idx = idx, ![p].odd = odd]
    BY DEF ReadIndices
  <1>4. pc'[p] = at /\ at \in {"constraints", "decide"}
    BY <1>1 DEF Types, Goto
  <1>5. odd => seen[p].odd \/ \E t \in DOMAIN seen[p].cols : HasExpression(t)
    OBVIOUS
  <1>6. \A t \in DOMAIN seen[p].cols : idx[t] = IndicesOf(t)
    OBVIOUS
  <1> HIDE DEF idx, odd, tables, at
  <1>7. seen'[p].cols = seen[p].cols /\ seen'[p].idx = idx /\ seen'[p].odd = odd
    BY <1>1, <1>3 DEF Types, IsReading
  <1>8. since[p] # "others" => MirrorsAt(at, seen'[p], tables)
    BY <1>2, <1>4, <1>5, <1>6, <1>7 DEF MirrorsAt
  <1> QED BY <1>1, <1>4, <1>8, MirrorsOn DEF tables

LEMMA ReadConstraintsMirrors == ASSUME SyncedInv, NEW p \in Processes, ReadConstraints(p) PROVE Mirrors(p)'
  <1> DEFINE tables == Visible(Source(p))
             odd == seen[p].odd \/ \E t \in DOMAIN seen[p].cols : HasOdd(t, "foreign_key")
  <1>1. /\ IInv /\ Types /\ pc[p] = "constraints" /\ UNCHANGED <<live, world, job, plan, since>>
        /\ IsReading(Source(p), "constraints", seen[p]) /\ Goto(p, "decide")
    BY DEF SyncedInv, IInv, ReadConstraints, KeepSchema, CallOK, Reading
  <1>2. since[p] # "others" => MirrorsAt("constraints", seen[p], tables)
    BY <1>1 DEF SyncedInv, Mirrors, Reading
  <1>3. seen' = [seen EXCEPT ![p].odd = odd]
    BY DEF ReadConstraints
  <1>4. pc'[p] = "decide"
    BY <1>1 DEF Types, Goto
  <1>5. odd => seen[p].odd \/ \E t \in DOMAIN seen[p].cols : live[t].odd # {}
    BY DEF HasOdd
  <1> HIDE DEF odd, tables
  <1>6. seen'[p].cols = seen[p].cols /\ seen'[p].idx = seen[p].idx /\ seen'[p].odd = odd
    BY <1>1, <1>3 DEF Types, IsReading
  <1>7. since[p] # "others" => MirrorsAt("decide", seen'[p], tables)
    BY <1>2, <1>5, <1>6 DEF MirrorsAt
  <1> QED BY <1>1, <1>4, <1>7, MirrorsOn DEF tables

LEMMA StepMirrors == ASSUME SyncedInv, NEW p \in Processes, Step(p) PROVE Mirrors(p)'
  <1>1. CASE \/ ReadNames(p) \/ ReadTable(p) \/ ReadTableIndices(p)
             \/ ReadColumns(p) \/ ReadIndices(p) \/ ReadConstraints(p)
    BY <1>1, ReadNamesMirrors, ReadTableMirrors, ReadTableIndicesMirrors,
       ReadColumnsMirrors, ReadIndicesMirrors, ReadConstraintsMirrors
  <1>2. CASE \/ Call(p) \/ Decide(p) \/ WritePlan(p) \/ Lock(p) \/ CheckMarkers(p) \/ ExecuteNext(p) \/ Fail(p)
    <2>1. Types
      BY DEF SyncedInv, IInv
    <2>2. \/ \E at \in {"idle", "inspect"} \cup Planned : pc' = [pc EXCEPT ![p] = at]
          \/ pc' = pc /\ pc[p] = "statement"
      BY <1>2 DEF Call, Decide, WritePlan, Lock, CheckMarkers, ExecuteNext, Fail, EndSource, Verify, Goto, Planned
    <2>3. pc'[p] \notin Reading
      BY <2>1, <2>2 DEF Types, Reading, Planned
    <2> QED BY <2>3 DEF Mirrors
  <1> QED BY <1>1, <1>2 DEF Step
-----------------------------------------------------------------------------
(* Indices as they are read                                                  *)

WithoutExpressions(i) ==
    IF Expression \notin Range(i.cols) THEN i ELSE [i EXCEPT !.cols = SelectSeq(@, LAMBDA c : c # Expression)]

LEMMA AsReadOf == ASSUME NEW S PROVE \A x : x \in AsRead(S) <=> x.cols # <<>> /\ \E i \in S : x = WithoutExpressions(i)
  BY DEF AsRead, WithoutExpressions

LEMMA WithoutExpressionsIs ==
  ASSUME NEW i, DOMAIN i = {"name", "cols", "unique", "pk", "partial", "constraint"}
  PROVE  LET x == WithoutExpressions(i) IN
         /\ x.name = i.name /\ x.unique = i.unique /\ x.pk = i.pk /\ x.partial = i.partial /\ x.constraint = i.constraint
         /\ Expression \notin Range(i.cols) => x = i
  BY DEF WithoutExpressions

LEMMA AsReadIs ==
  ASSUME NEW table, IsTable(table)
  PROVE  /\ \A x \in AsRead(table.idx) : \E i \in table.idx :
               /\ x.name = i.name /\ x.unique = i.unique /\ x.pk = i.pk /\ x.partial = i.partial /\ x.constraint = i.constraint
               /\ Expression \notin Range(i.cols) => x = i
         /\ \A i \in table.idx : Expression \notin Range(i.cols) => i \in AsRead(table.idx)
         /\ \A x, y \in AsRead(table.idx) : x.name = y.name => x = y
  <1>1. \A i \in table.idx :
           /\ DOMAIN i = {"name", "cols", "unique", "pk", "partial", "constraint"} /\ i.cols # <<>>
           /\ \A j \in table.idx : i.name = j.name => i = j
    BY DEF IsTable
  <1>2. ASSUME NEW x \in AsRead(table.idx)
        PROVE  \E i \in table.idx :
                  /\ x = WithoutExpressions(i)
                  /\ x.name = i.name /\ x.unique = i.unique /\ x.pk = i.pk /\ x.partial = i.partial /\ x.constraint = i.constraint
                  /\ Expression \notin Range(i.cols) => x = i
    <2>1. PICK i \in table.idx : x = WithoutExpressions(i)
      BY AsReadOf
    <2> QED BY <1>1, <2>1, WithoutExpressionsIs
  <1>3. ASSUME NEW i \in table.idx, Expression \notin Range(i.cols) PROVE i \in AsRead(table.idx)
    BY <1>1, <1>3, AsReadOf, WithoutExpressionsIs
  <1>4. ASSUME NEW x \in AsRead(table.idx), NEW y \in AsRead(table.idx), x.name = y.name PROVE x = y
    <2>1. PICK i \in table.idx : x = WithoutExpressions(i) /\ x.name = i.name
      BY <1>2
    <2>2. PICK j \in table.idx : y = WithoutExpressions(j) /\ y.name = j.name
      BY <1>2
    <2> QED BY <1>1, <1>4, <2>1, <2>2
  <1> QED BY <1>2, <1>3, <1>4

\* An index is dropped, or added.
LEMMA AsReadDrops ==
  ASSUME NEW table, IsTable(table), NEW name
  PROVE  AsRead({i \in table.idx : i.name # name}) = {x \in AsRead(table.idx) : x.name # name}
  <1>1. \A i \in table.idx : WithoutExpressions(i).name = i.name
    BY WithoutExpressionsIs DEF IsTable
  <1>2. \A x : x \in AsRead({i \in table.idx : i.name # name}) <=>
                  x.cols # <<>> /\ \E i \in table.idx : i.name # name /\ x = WithoutExpressions(i)
    BY AsReadOf
  <1>3. \A x : x \in AsRead(table.idx) <=> x.cols # <<>> /\ \E i \in table.idx : x = WithoutExpressions(i)
    BY AsReadOf
  <1> QED BY <1>1, <1>2, <1>3

LEMMA AsReadAdds ==
  ASSUME NEW S, NEW j, DOMAIN j = {"name", "cols", "unique", "pk", "partial", "constraint"},
         j.cols # <<>>, Expression \notin Range(j.cols)
  PROVE  AsRead(S \cup {j}) = AsRead(S) \cup {j}
  <1>1. WithoutExpressions(j) = j
    BY WithoutExpressionsIs
  <1>2. \A x : x \in AsRead(S \cup {j}) <=> x.cols # <<>> /\ \E i \in S \cup {j} : x = WithoutExpressions(i)
    BY AsReadOf
  <1>3. \A x : x \in AsRead(S) <=> x.cols # <<>> /\ \E i \in S : x = WithoutExpressions(i)
    BY AsReadOf
  <1> QED BY <1>1, <1>2, <1>3

\* A column's type as it is read, where the models have one for it, and a table of the models as
\* normalising leaves it.
ReadsAs(native, type) == ReadType(Backend, native, {type})
NormalOf(table, model) == NormalTable(table.cols, AsRead(table.idx), {model})

LEMMA NormalIs ==
  ASSUME NEW table, NEW model
  PROVE  LET normal == NormalOf(table, model) IN
         /\ DOMAIN normal.cols = DOMAIN table.cols /\ normal.idx = NormalIndices(model.idx, AsRead(table.idx))
         /\ \A c \in DOMAIN table.cols \cap DOMAIN model.cols :
               normal.cols[c] = ReadsAs(table.cols[c], model.cols[c])
         /\ \A c \in DOMAIN table.cols \ DOMAIN model.cols : normal.cols[c] = Inferred(Backend, table.cols[c])
  <1> DEFINE normal == NormalOf(table, model)
             targets == {model}
             idx == AsRead(table.idx)
  <1>1. normal = NormalTable(table.cols, idx, targets)
    BY DEF NormalOf
  <1>2. DOMAIN normal.cols = DOMAIN table.cols /\ normal.idx = NormalIndices(UNION {u.idx : u \in targets}, idx)
    <2> HIDE DEF normal, targets, idx
    <2> QED BY <1>1, NormalTableIs
  <1>3. UNION {u.idx : u \in targets} = model.idx
    OBVIOUS
  <1> DEFINE types(c) == {u.cols[c] : u \in {v \in targets : c \in DOMAIN v.cols}}
             type(c) == ReadType(Backend, table.cols[c], types(c))
  <1>4. normal.cols = [c \in DOMAIN table.cols |-> type(c)]
    BY DEF NormalOf, NormalTable
  <1>5. ASSUME NEW c \in DOMAIN table.cols \cap DOMAIN model.cols
        PROVE  type(c) = ReadsAs(table.cols[c], model.cols[c])
    <2>1. types(c) = {model.cols[c]}
      OBVIOUS
    <2> QED BY <2>1 DEF ReadsAs
  <1>6. ASSUME NEW c \in DOMAIN table.cols \ DOMAIN model.cols PROVE type(c) = Inferred(Backend, table.cols[c])
    <2>1. types(c) = {}
      OBVIOUS
    <2> QED BY <2>1 DEF ReadType
  <1> HIDE DEF type, normal, idx
  <1>7. \A c \in DOMAIN table.cols : normal.cols[c] = type(c)
    BY <1>4
  <1> QED BY <1>2, <1>3, <1>5, <1>6, <1>7 DEF normal, idx

\* A column is read as the type that is asked for, or as what it is taken for without; and a
\* settling type is read as itself.
LEMMA TypesRead ==
  ASSUME WorldKnown
  PROVE  /\ \A n, t : ReadsAs(n, t) = t \/ ReadsAs(n, t) = Inferred(Backend, n)
         /\ \A n \in NativeTypes(Backend), t \in StorageTypes(Backend) :
               ReadsAs(n, t) = t /\ ~Blurred(Backend, n) => Stores(Backend, n) = Stores(Backend, Declared(Backend, t))
         /\ \A t \in StorageTypes(Backend) : t \in Settling(Backend) => ReadsAs(Declared(Backend, t), t) = t
  <1>1. ASSUME NEW n, NEW t PROVE ReadsAs(n, t) = t \/ ReadsAs(n, t) = Inferred(Backend, n)
    BY DEF ReadsAs, ReadType
  <1> QED BY <1>1, TypesAre DEF ReadsAs

-----------------------------------------------------------------------------
(* How a source ends                                                       *)

\* What the second inspection finds.
Differences(p) ==
    Diff(Target(p), Normalised(seen[p], Target(p)), AllRepeated(seen[p], Target(p)))

\* Each way of ending a source, and from where.
Ends(p, outcome) ==
    LET schema == Normalised(seen[p], Target(p))
        planned == Diff(schema, Target(p), {})
        differences == Differences(p)
    IN
    /\ outcome = "unchanged" => pc[p] = "decide" /\ ~Unsupported(seen[p], schema) /\ planned = <<>>
    /\ outcome = "synced" => pc[p] = "decide" /\ ~Unsupported(seen[p], schema) /\ differences = <<>>
    /\ outcome = "incomplete" =>
          pc[p] = "decide" /\ ~Unsupported(seen[p], schema) /\ job[p].verify /\ differences # <<>>
    /\ outcome = "refused" =>
          \/ pc[p] = "decide" /\ (Unsupported(seen[p], schema) \/ Refused(planned))
          \/ pc[p] = "markers" /\ world.markers # "none"
    /\ outcome = "failed" =>
          \/ pc[p] = "write" /\ ~ExecuteAll(live, Target(p), plan[p])[2]
          \/ pc[p] = "statement" /\ plan[p] # <<>> /\ ~Execute(live, Target(p), Head(plan[p]))[2]

LEMMA DecideEnds ==
  ASSUME NEW p, Decide(p)
  PROVE  (\E outcome : EndSource(p, outcome) /\ Ends(p, outcome)) \/ result' = result
  <1> DEFINE schema == Normalised(seen[p], Target(p))
             planned == Diff(schema, Target(p), {})
             differences == Differences(p)
             unsupported == Unsupported(seen[p], schema)
  <1>1. /\ pc[p] = "decide"
        /\ \/ unsupported /\ EndSource(p, "refused")
           \/ ~unsupported /\ job[p].verify /\ differences = <<>> /\ EndSource(p, "synced")
           \/ ~unsupported /\ job[p].verify /\ differences # <<>> /\ EndSource(p, "incomplete")
           \/ ~unsupported /\ planned = <<>> /\ EndSource(p, "unchanged")
           \/ Refused(planned) /\ EndSource(p, "refused")
           \/ EndSource(p, "planned")
           \/ result' = result
    BY DEF Decide, Differences
  <1>2. \A outcome : Ends(p, outcome) <=>
           /\ outcome = "unchanged" => pc[p] = "decide" /\ ~unsupported /\ planned = <<>>
           /\ outcome = "synced" => pc[p] = "decide" /\ ~unsupported /\ differences = <<>>
           /\ outcome = "incomplete" => pc[p] = "decide" /\ ~unsupported /\ job[p].verify /\ differences # <<>>
           /\ outcome = "refused" =>
                 (pc[p] = "decide" /\ (unsupported \/ Refused(planned))) \/ (pc[p] = "markers" /\ world.markers # "none")
           /\ outcome = "failed" =>
                 \/ pc[p] = "write" /\ ~ExecuteAll(live, Target(p), plan[p])[2]
                 \/ pc[p] = "statement" /\ plan[p] # <<>> /\ ~Execute(live, Target(p), Head(plan[p]))[2]
    BY DEF Ends
  <1> HIDE DEF schema, planned, differences, unsupported
  <1> QED BY <1>1, <1>2

LEMMA StepEnds ==
  ASSUME SyncedInv, NEW p \in Processes, Step(p)
  PROVE  /\ Open(p)'
         /\ \/ result'[p].is = "none"
            \/ \E outcome : EndSource(p, outcome) /\ UNCHANGED <<live, since, world>> /\ Ends(p, outcome)
  <1>1. Types /\ DOMAIN result = Processes /\ Open(p)
    BY DEF SyncedInv, IInv
  <1>2. ASSUME NEW outcome, EndSource(p, outcome) PROVE Open(p)'
    <2> DEFINE rest == IF outcome \in {"unchanged", "planned", "synced"} THEN Tail(job[p].todo) ELSE <<>>
               at == IF rest = <<>> THEN "idle" ELSE "inspect"
               new == IF rest = <<>> THEN NoJob ELSE [job[p] EXCEPT !.todo = rest, !.verify = FALSE]
    <2>1. job' = [job EXCEPT ![p] = new] /\ pc' = [pc EXCEPT ![p] = at]
      BY <1>2 DEF EndSource, Goto
    <2>2. at = "inspect" => ~new.verify
      <3>1. job[p] \in Jobs
        BY <1>1 DEF Types
      <3> QED BY <3>1 DEF Jobs
    <2>3. at \in {"idle", "inspect"}
      OBVIOUS
    <2> HIDE DEF new, at
    <2> QED BY <1>1, <2>1, <2>2, <2>3 DEF Open, Types
  <1>3. CASE \E outcome : EndSource(p, outcome) /\ UNCHANGED <<live, since, world>> /\ Ends(p, outcome)
    BY <1>2, <1>3
  <1>4. CASE Call(p)
    BY <1>1, <1>4 DEF Call, Open, Types, Goto, NoResult
  <1>5. CASE ReadNames(p) \/ ReadColumns(p)
    <2>1. pc[p] = "inspect" /\ Fresh(p)
      BY <1>5 DEF ReadNames, ReadColumns
    <2>2. result'[p].is = "none"
      BY <1>1, <2>1 DEF Open, Fresh, NoResult
    <2> QED BY <2>2 DEF Open
  <1>6. CASE pc[p] \notin {"idle", "inspect"} /\ result' = result
    BY <1>1, <1>6 DEF Open
  <1>7. CASE ReadTable(p) \/ ReadTableIndices(p) \/ ReadIndices(p) \/ ReadConstraints(p)
    BY <1>6, <1>7 DEF ReadTable, ReadTableIndices, ReadIndices, ReadConstraints
  <1>8. CASE Decide(p)
    <2>1. UNCHANGED <<live, since, world>> /\ pc[p] = "decide"
      BY <1>8 DEF Decide, KeepSchema
    <2> QED BY <1>3, <1>6, <1>8, <2>1, DecideEnds
  <1>9. CASE WritePlan(p)
    <2>1. pc[p] = "write" /\ world' = world
      BY <1>9 DEF WritePlan
    <2>2. \/ Verify(p)
          \/ /\ EndSource(p, "failed") /\ UNCHANGED <<live, since>>
             /\ ~ExecuteAll(live, Target(p), plan[p])[2]
      BY <1>9 DEF WritePlan
    <2> QED BY <1>3, <1>6, <2>1, <2>2 DEF Verify, Ends
  <1>10. CASE Lock(p) \/ CheckMarkers(p)
    <2>1. /\ UNCHANGED <<live, since, world>> /\ pc[p] \in {"lock", "markers"}
          /\ \/ result' = result \/ EndSource(p, "error")
             \/ EndSource(p, "refused") /\ pc[p] = "markers" /\ world.markers # "none"
      BY <1>10 DEF Lock, CheckMarkers, KeepSchema
    <2> QED BY <1>3, <1>6, <2>1 DEF Ends
  <1>11. CASE ExecuteNext(p)
    <2>1. pc[p] = "statement" /\ world' = world
      BY <1>11 DEF ExecuteNext
    <2>2. \/ Verify(p) \/ result' = result
          \/ /\ EndSource(p, "failed") /\ UNCHANGED <<live, since>>
             /\ plan[p] # <<>> /\ ~Execute(live, Target(p), Head(plan[p]))[2]
      BY <1>11 DEF ExecuteNext
    <2> QED BY <1>3, <1>6, <2>1, <2>2 DEF Verify, Ends
  <1>12. CASE Fail(p)
    BY <1>3, <1>12 DEF Fail, KeepSchema, Ends
  <1> QED BY <1>4, <1>5, <1>7, <1>8, <1>9, <1>10, <1>11, <1>12 DEF Step

\* The same tables, columns, types and indices.
SameTable(a, b) ==
    /\ DOMAIN a.cols = DOMAIN b.cols /\ \A c \in DOMAIN a.cols : a.cols[c] = b.cols[c]
    /\ a.idx = b.idx

\* What a diff that asks for nothing shows.
LEMMA NothingCalled ==
  ASSUME NEW from, NEW to, IsFinite(from), IsFinite(to), NEW repeated \in SUBSET ((DOMAIN to) \X Names(to)),
         Diff(from, to, repeated) = <<>>
  PROVE  DOMAIN from = DOMAIN to /\ \A t \in DOMAIN to : SameTable(from[t], to[t])
  <1>1. \A s : ~Called(from, to, s)
    <2>1. Range(Diff(from, to, repeated)) = {}
      BY DEF Range
    <2> QED BY <2>1, DiffIs
  <1>2. ASSUME NEW t \in DOMAIN from \ DOMAIN to PROVE FALSE
    <2>1. Called(from, to, Statement("drop_table", t, ""))
      BY DEF Called, Statement
    <2> QED BY <1>1, <2>1
  <1>3. ASSUME NEW t \in DOMAIN to \ DOMAIN from PROVE FALSE
    <2>1. Called(from, to, Statement("create_table", t, ""))
      BY DEF Called, Statement
    <2> QED BY <1>1, <2>1
  <1>4. DOMAIN from = DOMAIN to
    BY <1>2, <1>3
  <1>5. ASSUME NEW t \in DOMAIN to PROVE SameTable(from[t], to[t])
    <2>1. ASSUME NEW c \in DOMAIN from[t].cols \ DOMAIN to[t].cols PROVE FALSE
      <3>1. Called(from, to, Statement("drop_column", t, c))
        BY <1>4 DEF Called, Statement
      <3> QED BY <1>1, <3>1
    <2>2. ASSUME NEW c \in DOMAIN to[t].cols \ DOMAIN from[t].cols PROVE FALSE
      <3>1. Called(from, to, Statement("add_column", t, c))
        BY <1>4 DEF Called, Statement
      <3> QED BY <1>1, <3>1
    <2>3. ASSUME NEW c \in DOMAIN from[t].cols \cap DOMAIN to[t].cols, from[t].cols[c] # to[t].cols[c] PROVE FALSE
      <3>1. Called(from, to, Statement("alter_column", t, c))
        BY <1>4, <2>3 DEF Called, Statement
      <3> QED BY <1>1, <3>1
    <2>4. ASSUME NEW i \in Changed(from[t].idx, to[t].idx) PROVE FALSE
      <3>1. Called(from, to, Statement("drop_index", t, i.name))
        BY <1>4 DEF Called, Statement
      <3> QED BY <1>1, <3>1
    <2>5. ASSUME NEW i \in Changed(to[t].idx, from[t].idx) PROVE FALSE
      <3>1. Called(from, to, Statement("create_index", t, i.name))
        BY <1>4 DEF Called, Statement
      <3> QED BY <1>1, <3>1
    <2>6. \A a, b : Changed(a, b) = {} => a \subseteq b
      <3> SUFFICES ASSUME NEW a, NEW b, Changed(a, b) = {}, NEW i \in a PROVE i \in b
        OBVIOUS
      <3>1. {j \in b : j.name = i.name} = {i}
        BY DEF Changed
      <3> QED BY <3>1
    <2>7. Changed(from[t].idx, to[t].idx) = {} /\ Changed(to[t].idx, from[t].idx) = {}
      BY <2>4, <2>5
    <2>8. from[t].idx \subseteq to[t].idx /\ to[t].idx \subseteq from[t].idx
      BY <2>6, <2>7
    <2> QED BY <2>1, <2>2, <2>3, <2>8 DEF SameTable
  <1> QED BY <1>4, <1>5

\* Without expressions a table's indices are read as they are.
LEMMA PlainAsRead ==
  ASSUME NEW indices, \A i \in indices : i.cols # <<>> /\ Expression \notin Range(i.cols)
  PROVE  AsRead(indices) = indices
  BY DEF AsRead

\* A table that reads like its target stores the same and has the same indices, unless it has
\* what only looks the same.
LEMMA SameTableIsTarget ==
  ASSUME WorldKnown, NEW target, IsModels(Backend, target), NEW t \in DOMAIN target,
         NEW table, IsTable(table), \A c \in DOMAIN table.cols : table.cols[c] \in NativeTypes(Backend),
         \A i \in table.idx : Expression \notin Range(i.cols),
         \A c \in DOMAIN table.cols : ~Blurred(Backend, table.cols[c]),
         SameTable(NormalOf(table, target[t]), target[t])
  PROVE  TableIs(table, target[t])
  <1> DEFINE model == target[t]
             normal == NormalOf(table, model)
             full == {i \in table.idx : ~i.partial}
  <1>1. AsRead(table.idx) = table.idx
    BY PlainAsRead DEF IsTable
  <1>2. /\ DOMAIN normal.cols = DOMAIN table.cols /\ normal.idx = NormalIndices(model.idx, table.idx)
        /\ \A c \in DOMAIN table.cols \cap DOMAIN model.cols : normal.cols[c] = ReadsAs(table.cols[c], model.cols[c])
    BY <1>1, NormalIs
  <1>3. /\ \A c \in DOMAIN model.cols : model.cols[c] \in StorageTypes(Backend)
        /\ \A i \in model.idx : ~i.partial
    BY ModelIs DEF IsModelIndex
  <1> HIDE DEF normal
  <1>4. DOMAIN table.cols = DOMAIN model.cols /\ normal.idx = model.idx
        /\ \A c \in DOMAIN table.cols : ReadsAs(table.cols[c], model.cols[c]) = model.cols[c]
    BY <1>2 DEF SameTable, normal
  <1>5. ASSUME NEW c \in DOMAIN table.cols
        PROVE  Stores(Backend, table.cols[c]) = Stores(Backend, Declared(Backend, model.cols[c]))
    BY <1>3, <1>4, TypesRead
  <1>6. \A i, j : ShapeMatches(i, j) <=> Alike(i, j)
    BY DEF ShapeMatches, Alike
  <1>7. ASSUME NEW i \in model.idx PROVE \E j \in full : Alike(i, j)
    <2>1. i \in NormalIndices(model.idx, table.idx) /\ Alike(i, i)
      BY <1>2, <1>4 DEF Alike
    <2> QED BY <1>6, <2>1, NormalIndicesAre
  <1>8. ASSUME NEW j \in full PROVE \E i \in model.idx : Alike(i, j) \/ i.name = j.name
    <2> SUFFICES ASSUME \A i \in model.idx : ~Alike(i, j) /\ i.name # j.name PROVE FALSE
      OBVIOUS
    <2>1. ~Shadow(j, model.idx, table.idx)
      BY DEF Shadow
    <2>2. j \in table.idx /\ ~j.partial /\ \A c \in model.idx : ~ShapeMatches(c, j)
      BY <1>6
    <2>3. j \in NormalIndices(model.idx, table.idx)
      BY <2>1, <2>2, NormalIndicesAre
    <2>4. j \in model.idx /\ Alike(j, j)
      BY <1>2, <1>4, <2>3 DEF Alike
    <2> QED BY <2>4
  <1> QED BY <1>4, <1>5, <1>7, <1>8 DEF TableIs

\* What is decided on is the live schema, as normalising leaves it.
LEMMA DecidesOn ==
  ASSUME IInv, NEW p \in Processes, pc[p] = "decide", MirrorsAt("decide", seen[p], Visible(Source(p)))
  PROVE  LET schema == Normalised(seen[p], Target(p)) IN
         /\ IsFinite(schema) /\ IsFinite(Target(p)) /\ DOMAIN schema = Visible(Source(p))
         /\ \A t \in Visible(Source(p)) :
               schema[t] = NormalTable(live[t].cols, AsRead(live[t].idx), TargetOf(Target(p), t))
  <1> DEFINE schema == Normalised(seen[p], Target(p))
  <1>1. IsReading(Source(p), "decide", seen[p]) /\ IsModels(Backend, Target(p))
    BY SourceIs DEF IInv, CallOK, Reading
  <1>2. IsFinite(Target(p))
    BY <1>1 DEF IsModels, IsTable, IsFinite
  <1>3. IsFinite(schema) /\ DOMAIN schema = DOMAIN seen[p].cols
    BY <1>1, <1>2, NormalisedIsFinite DEF IsReading
  <1>4. DOMAIN schema = Visible(Source(p))
    BY <1>3 DEF MirrorsAt
  <1>5. ASSUME NEW t \in Visible(Source(p))
        PROVE  schema[t] = NormalTable(live[t].cols, AsRead(live[t].idx), TargetOf(Target(p), t))
    <2>1. t \in DOMAIN live /\ t \in DOMAIN seen[p].cols
      BY <1>3, <1>4 DEF Visible
    <2>2. seen[p].cols[t] = live[t].cols /\ seen[p].idx[t] = AsRead(live[t].idx)
      BY <2>1 DEF MirrorsAt, IndicesOf
    <2>3. schema[t] = NormalTable(seen[p].cols[t], seen[p].idx[t], TargetOf(Target(p), t))
      BY <2>1 DEF Normalised
    <2> QED BY <2>2, <2>3
  <1> HIDE DEF schema
  <1> QED BY <1>2, <1>3, <1>4, <1>5 DEF schema

LEMMA DecidedIsTarget ==
  ASSUME IInv, NEW p \in Processes, pc[p] = "decide", since[p] # "others",
         MirrorsAt("decide", seen[p], Visible(Source(p))), ~Indistinct,
         ~Unsupported(seen[p], Normalised(seen[p], Target(p))),
         Diff(Normalised(seen[p], Target(p)), Target(p), {}) = <<>> \/ Differences(p) = <<>>
  PROVE  IsTarget(Source(p))
  <1> DEFINE schema == Normalised(seen[p], Target(p))
             tables == Visible(Source(p))
  <1>1. /\ WorldOK /\ IsModels(Backend, Target(p)) /\ ~seen[p].odd
        /\ Target(p) = world.targets[Source(p)]
    BY SourceIs DEF IInv, Unsupported, Target
  <1>2. /\ IsFinite(schema) /\ IsFinite(Target(p)) /\ DOMAIN schema = tables
        /\ \A t \in tables : schema[t] = NormalTable(live[t].cols, AsRead(live[t].idx), TargetOf(Target(p), t))
    BY DecidesOn
  <1>3. DOMAIN schema = DOMAIN Target(p) /\ \A t \in DOMAIN Target(p) : SameTable(schema[t], Target(p)[t])
    <2> DEFINE target == Target(p)
               repeated == AllRepeated(seen[p], target)
               none == {}
    <2>1. repeated \in SUBSET ((DOMAIN schema) \X Names(schema)) /\ none \in SUBSET ((DOMAIN target) \X Names(target))
      BY RepeatedNames
    <2>2. Diff(schema, target, none) = <<>> \/ Diff(target, schema, repeated) = <<>>
      BY DEF Differences
    <2> HIDE DEF schema, target, repeated, none
    <2>3. IsFinite(schema) /\ IsFinite(target)
      BY <1>2 DEF schema, target
    <2>4. CASE Diff(schema, target, none) = <<>>
      BY <2>1, <2>3, <2>4, NothingCalled DEF target
    <2>5. CASE Diff(target, schema, repeated) = <<>>
      <3>1. DOMAIN target = DOMAIN schema /\ \A t \in DOMAIN schema : SameTable(target[t], schema[t])
        BY <2>1, <2>3, <2>5, NothingCalled
      <3> QED BY <3>1 DEF SameTable, target
    <2> QED BY <2>2, <2>4, <2>5
  <1> HIDE DEF schema
  <1>4. ASSUME NEW t \in tables PROVE TableIs(live[t], Target(p)[t])
    <2>1. t \in DOMAIN live /\ InScope(p, t) /\ t \in DOMAIN Target(p)
      BY <1>2, <1>3 DEF Visible, InScope
    <2>2. IsTable(live[t]) /\ \A c \in DOMAIN live[t].cols : live[t].cols[c] \in NativeTypes(Backend)
      BY <1>1, <2>1 DEF WorldOK, IsSchema
    <2>3. \A i \in live[t].idx : Expression \notin Range(i.cols)
      <3>1. CASE Backend = "postgresql"
        BY <2>1, <3>1 DEF Indistinct, HasExpression
      <3>2. CASE Backend # "postgresql"
        <4>1. KnownAt("decide", seen[p], t, live[t])
          BY <2>1, <3>2 DEF IInv, Knows, Reading
        <4> QED BY <1>1, <4>1 DEF KnownAt, Clean
      <3> QED BY <3>1, <3>2
    <2>4. \A c \in DOMAIN live[t].cols : ~Blurred(Backend, live[t].cols[c])
      BY <2>1 DEF Indistinct
    <2>5. SameTable(NormalOf(live[t], Target(p)[t]), Target(p)[t])
      BY <1>2, <1>3, <2>1 DEF TargetOf, NormalOf
    <2> QED BY <1>1, <2>1, <2>2, <2>3, <2>4, <2>5, SameTableIsTarget DEF WorldOK
  <1> QED BY <1>1, <1>2, <1>3, <1>4 DEF IsTarget

LEMMA StepEndsWell == ASSUME SyncedInv, NEW p \in Processes, Step(p) PROVE EndsWell(p)'
  <1>1. CASE result'[p].is = "none"
    BY <1>1 DEF EndsWell
  <1>2. ASSUME NEW outcome, EndSource(p, outcome), UNCHANGED <<live, since, world>>,
               Ends(p, outcome)
        PROVE  EndsWell(p)'
    <2>1. result'[p] = [is |-> outcome, source |-> Source(p)] /\ IInv
      BY <1>2 DEF EndSource, SyncedInv
    <2>2. ASSUME outcome \in {"unchanged", "synced"}, since[p] # "others", ~Indistinct
          PROVE  IsTarget(Source(p))
      <3>1. MirrorsAt("decide", seen[p], Visible(Source(p)))
        BY <1>2, <2>2 DEF SyncedInv, Mirrors, Reading, Ends
      <3> QED BY <1>2, <2>1, <2>2, <3>1, DecidedIsTarget DEF Ends
    <2>3. \A source : (IsTarget(source)' <=> IsTarget(source)) /\ Indistinct' = Indistinct
      BY <1>2, <2>1, ViewStays
    <2> QED BY <1>2, <2>1, <2>2, <2>3 DEF EndsWell
  <1> QED BY <1>1, <1>2, StepEnds

LEMMA SyncedInvStep == SyncedInv /\ [Next]_vars => SyncedInv'
  <1> SUFFICES ASSUME SyncedInv, [Next]_vars PROVE SyncedInv'
    OBVIOUS
  <1>1. IInv'
    BY NextIInv DEF SyncedInv
  <1>2. ASSUME NEW p \in Processes, Step(p) PROVE SyncedInv'
    <2>1. IInv /\ DOMAIN result = Processes
      BY DEF SyncedInv
    <2>2. Mirrors(p)' /\ Open(p)' /\ EndsWell(p)'
      BY <1>2, StepMirrors, StepEnds, StepEndsWell
    <2>3. ASSUME NEW q \in Processes \ {p} PROVE Mirrors(q)' /\ Open(q)' /\ EndsWell(q)'
      BY <1>2, <2>1, StepLeaves, OthersView
    <2>4. DOMAIN result' = Processes
      BY <1>2, <2>1, StepLeaves
    <2> QED BY <1>1, <2>2, <2>3, <2>4 DEF SyncedInv
  <1>3. CASE Foreign
    <2>1. /\ UNCHANGED <<world, pc, job, seen, plan, result>>
          /\ \A q \in Processes : since'[q] = "others"
      BY <1>3 DEF Foreign
    <2> QED BY <1>1, <2>1, OthersView DEF SyncedInv
  <1>4. CASE UNCHANGED vars
    BY <1>1, <1>4, OthersView DEF SyncedInv, vars
  <1> QED BY <1>2, <1>3, <1>4 DEF Next

LEMMA SyncedInvInit == Init => SyncedInv
  <1> SUFFICES ASSUME Init PROVE SyncedInv
    OBVIOUS
  <1>1. \A p \in Processes : pc[p] = "idle" /\ result[p] = NoResult
    BY DEF Init
  <1> QED BY <1>1, InitIInv DEF Init, SyncedInv, Mirrors, Open, EndsWell, Reading, NoResult

\* For any number of processes and sources, on every backend: a sync that reports success leaves
\* the tables of its models, with what the models ask to be stored and indexed and with nothing
\* else in scope, unless somebody else wrote after its last inspection began or a type or an
\* expression looks like another one in the catalog (the second inspection, not the execution,
\* decides).
THEOREM SuccessIsTarget == Spec => []SyncedIsTarget
  <1>1. Init => SyncedInv
    BY SyncedInvInit
  <1>2. SyncedInv /\ [Next]_vars => SyncedInv'
    BY SyncedInvStep
  <1>3. SyncedInv => SyncedIsTarget
    BY DEF SyncedInv, EndsWell, SyncedIsTarget
  <1> QED BY <1>1, <1>2, <1>3, PTL DEF Spec

-----------------------------------------------------------------------------
(* What is left to do                                                        *)

Matched(i, model) == \E j \in model.idx : Alike(i, j)
Full(table) == {i \in AsRead(table.idx) : ~i.partial}
Lacks(table, j) == \A i \in Full(table) : ~Alike(i, j)

\* A statement that a table still needs to become its model.
Owed(table, model, s) ==
    \/ s.do = "drop_index" /\ \E i \in Full(table) : i.name = s.name /\ ~Matched(i, model)
    \/ s.do = "drop_column" /\ s.name \in DOMAIN table.cols \ DOMAIN model.cols
    \/ s.do = "add_column" /\ s.name \in DOMAIN model.cols \ DOMAIN table.cols
    \/ s.do = "alter_column" /\ s.name \in DOMAIN model.cols \cap DOMAIN table.cols
    \/ s.do = "create_index" /\ \E j \in model.idx : j.name = s.name /\ ~j.pk /\ Lacks(table, j)

ColumnsDue(t, table, model, left) ==
    /\ \A c \in DOMAIN table.cols \ DOMAIN model.cols : Statement("drop_column", t, c) \in left
    /\ \A c \in DOMAIN model.cols \ DOMAIN table.cols : Statement("add_column", t, c) \in left
    /\ \A c \in DOMAIN model.cols \cap DOMAIN table.cols :
          \/ ReadsAs(table.cols[c], model.cols[c]) = model.cols[c]
          \/ Statement("alter_column", t, c) \in left

IndicesDue(t, table, model, left) ==
    /\ \A i \in Full(table) :
          \/ Matched(i, model) \/ Shadow(i, model.idx, AsRead(table.idx))
          \/ Statement("drop_index", t, i.name) \in left
    /\ \A j \in model.idx : j.pk \/ ~Lacks(table, j) \/ Statement("create_index", t, j.name) \in left

\* What is left of a plan is all that a table needs, and nothing else.
TableDue(t, table, model, left) ==
    /\ \A s \in left : s.table = t => Owed(table, model, s)
    /\ ColumnsDue(t, table, model, left) /\ IndicesDue(t, table, model, left)

MissingDue(t, model, left) ==
    /\ Statement("create_table", t, "") \in left
    /\ \A j \in model.idx : j.pk \/ Statement("create_index", t, j.name) \in left
    /\ \A s \in left : s.table = t =>
          \/ s.do = "create_table" /\ s.name = ""
          \/ s.do = "create_index" /\ \E j \in model.idx : j.name = s.name /\ ~j.pk

SurplusDue(t, left) ==
    /\ Statement("drop_table", t, "") \in left
    /\ \A s \in left : s.table = t => s.do = "drop_table" /\ s.name = ""

Surplus(schema, source) ==
    {t \in DOMAIN schema \ DOMAIN world.targets[source] : t \notin Internal /\ IsManaged(source, t)}

Due(schema, source, left) ==
    LET target == world.targets[source] IN
    /\ \A s \in left : /\ s = Statement(s.do, s.table, s.name)
                       /\ s.table \in DOMAIN target \cup Surplus(schema, source)
    /\ \A t \in DOMAIN target :
          IF t \in DOMAIN schema THEN TableDue(t, schema[t], target[t], left) ELSE MissingDue(t, target[t], left)
    /\ \A t \in Surplus(schema, source) : SurplusDue(t, left)

\* A primary key cannot be changed: the ones that are there are the models'.
KeysFit(schema, source) ==
    \A t \in DOMAIN world.targets[source] \cap DOMAIN schema : \A i \in schema[t].idx :
        i.pk => Matched(i, world.targets[source][t])

\* An index that has been made of another.
IsCopy(made, j) ==
    /\ DOMAIN made = {"name", "cols", "unique", "pk", "partial", "constraint"} /\ made.name = j.name
    /\ made.cols = j.cols /\ made.unique = j.unique /\ made.pk = j.pk /\ made.partial = j.partial
    /\ made.constraint = j.constraint

-----------------------------------------------------------------------------
(* What a statement leaves to do on its table                                *)

AreStatements(left) == \A s \in left : s = Statement(s.do, s.table, s.name)

\* A table of models that can be brought about.
ModelFits(t, model) ==
    /\ \A c \in DOMAIN model.cols : model.cols[c] \in StorageTypes(Backend) /\ model.cols[c] \in Settling(Backend)
    /\ \A i \in model.idx : IsModelIndex(i, model) /\ (i.pk \/ i.name # PrimaryName(t))
    /\ \A i, j \in model.idx : Alike(i, j) => i = j
    /\ \E i \in model.idx : i.pk

LEMMA AttainableIs ==
  ASSUME NEW source, IsModels(Backend, world.targets[source]), Attainable(source), NEW t \in DOMAIN world.targets[source]
  PROVE  /\ ModelFits(t, world.targets[source][t])
         /\ IsManaged(source, t) /\ t \notin Internal /\ t \notin world.refused
  <1> DEFINE model == world.targets[source][t]
  <1>1. /\ \A c \in DOMAIN model.cols : model.cols[c] \in StorageTypes(Backend)
        /\ \A i \in model.idx : IsModelIndex(i, model)
        /\ \E i \in model.idx : i.pk
    BY ModelIs
  <1>2. /\ IsManaged(source, t) /\ t \notin Internal \cup world.refused
        /\ \A c \in DOMAIN model.cols : model.cols[c] \in Settling(Backend)
        /\ \A i, j \in model.idx : Alike(i, j) => i = j
        /\ \A i \in model.idx : i.pk \/ i.name # PrimaryName(t)
    BY DEF Attainable
  <1> HIDE DEF model
  <1>3. ModelFits(t, model)
    BY <1>1, <1>2 DEF ModelFits
  <1> QED BY <1>2, <1>3 DEF model

LEMMA StatementIs == \A do, t, name : LET s == Statement(do, t, name) IN s.do = do /\ s.table = t /\ s.name = name
  BY DEF Statement

LEMMA OthersOwed ==
  ASSUME NEW left, AreStatements(left), NEW s \in left, NEW r \in left \ {s}, r.table = s.table
  PROVE  r.do # s.do \/ r.name # s.name
  BY DEF AreStatements, Statement

LEMMA DropIndexDue ==
  ASSUME NEW t, NEW table, IsTable(table), NEW model, NEW left, AreStatements(left),
         TableDue(t, table, model, left), NEW s \in left, s.table = t, s.do = "drop_index",
         NEW new, new.cols = table.cols, new.idx = {i \in table.idx : i.name # s.name}
  PROVE  TableDue(t, new, model, left \ {s})
  <1>1. PICK dropped \in Full(table) : dropped.name = s.name /\ ~Matched(dropped, model)
    BY DEF TableDue, Owed
  <1>2. AsRead(new.idx) = {x \in AsRead(table.idx) : x.name # s.name}
    BY AsReadDrops
  <1>3. \A x : x \in Full(new) <=> x \in Full(table) /\ x.name # s.name
    BY <1>2 DEF Full
  <1>4. \A x \in AsRead(table.idx) : x.name = s.name => x = dropped
    BY <1>1, AsReadIs DEF Full
  <1>5. ASSUME NEW j \in model.idx, NEW x \in AsRead(table.idx), Alike(j, x) PROVE x \in AsRead(new.idx)
    <2>1. Alike(x, j)
      BY <1>5 DEF Alike
    <2> QED BY <1>1, <1>2, <1>4, <2>1 DEF Matched
  <1>6. \A j \in model.idx : ~Lacks(table, j) => ~Lacks(new, j)
    <2> SUFFICES ASSUME NEW j \in model.idx, NEW x \in Full(table), Alike(x, j) PROVE ~Lacks(new, j)
      BY DEF Lacks
    <2>1. x # dropped
      BY <1>1 DEF Matched
    <2>2. x \in Full(new)
      BY <1>3, <1>4, <2>1 DEF Full
    <2> QED BY <2>2 DEF Lacks
  <1>7. \A j : Lacks(table, j) => Lacks(new, j)
    BY <1>3 DEF Lacks
  <1>8. ASSUME NEW r \in left \ {s}, r.table = t PROVE Owed(new, model, r)
    <2>1. Owed(table, model, r) /\ (r.do # s.do \/ r.name # s.name)
      BY <1>8, OthersOwed DEF TableDue
    <2> QED BY <1>3, <1>7, <2>1 DEF Owed
  <1>9. ColumnsDue(t, new, model, left \ {s})
    BY StatementIs DEF TableDue, ColumnsDue
  <1>10. IndicesDue(t, new, model, left \ {s})
    <2>1. ASSUME NEW x \in Full(new)
          PROVE  \/ Matched(x, model) \/ Shadow(x, model.idx, AsRead(new.idx))
                 \/ Statement("drop_index", t, x.name) \in left \ {s}
      <3>1. x \in Full(table) /\ x.name # s.name
        BY <1>3
      <3>2. Statement("drop_index", t, x.name) # s
        BY <3>1, StatementIs
      <3>3. ASSUME Shadow(x, model.idx, AsRead(table.idx)) PROVE Shadow(x, model.idx, AsRead(new.idx))
        BY <1>5, <3>3 DEF Shadow, ShapeMatches, Alike
      <3> QED BY <3>1, <3>2, <3>3 DEF TableDue, IndicesDue
    <2>2. ASSUME NEW j \in model.idx
          PROVE  j.pk \/ ~Lacks(new, j) \/ Statement("create_index", t, j.name) \in left \ {s}
      BY <1>6, StatementIs DEF TableDue, IndicesDue
    <2> QED BY <2>1, <2>2 DEF IndicesDue
  <1> QED BY <1>8, <1>9, <1>10 DEF TableDue

\* A column is dropped, added or altered.
LEMMA ColumnDue ==
  ASSUME WorldKnown, NEW t, NEW table, NEW model, ModelFits(t, model), NEW left, AreStatements(left),
         TableDue(t, table, model, left), NEW s \in left, s.table = t,
         NEW new, new.idx = table.idx,
         \/ s.do = "drop_column" /\ DOMAIN new.cols = DOMAIN table.cols \ {s.name}
         \/ s.do = "add_column" /\ DOMAIN new.cols = DOMAIN table.cols \cup {s.name}
         \/ s.do = "alter_column" /\ DOMAIN new.cols = DOMAIN table.cols,
         \A c \in DOMAIN new.cols :
            IF c = s.name THEN new.cols[c] = Declared(Backend, model.cols[c]) ELSE new.cols[c] = table.cols[c]
  PROVE  TableDue(t, new, model, left \ {s})
  <1>1. Owed(table, model, s)
    BY DEF TableDue
  <1>2. /\ s.do = "drop_column" => s.name \in DOMAIN table.cols \ DOMAIN model.cols
        /\ s.do = "add_column" => s.name \in DOMAIN model.cols \ DOMAIN table.cols
        /\ s.do = "alter_column" => s.name \in DOMAIN model.cols \cap DOMAIN table.cols
    BY <1>1 DEF Owed
  <1>3. Full(new) = Full(table) /\ AsRead(new.idx) = AsRead(table.idx)
    BY DEF Full
  <1>4. \A j : Lacks(new, j) <=> Lacks(table, j)
    BY <1>3 DEF Lacks
  <1>5. ASSUME NEW r \in left \ {s}, r.table = t PROVE Owed(new, model, r)
    <2>1. Owed(table, model, r) /\ (r.do # s.do \/ r.name # s.name)
      BY <1>5, OthersOwed DEF TableDue
    <2>2. CASE r.do = "drop_index" \/ r.do = "create_index"
      BY <1>3, <1>4, <2>1, <2>2 DEF Owed
    <2>3. CASE r.do \in {"drop_column", "add_column", "alter_column"}
      <3>1. /\ r.do = "drop_column" => r.name \in DOMAIN table.cols \ DOMAIN model.cols
            /\ r.do = "add_column" => r.name \in DOMAIN model.cols \ DOMAIN table.cols
            /\ r.do = "alter_column" => r.name \in DOMAIN model.cols \cap DOMAIN table.cols
        BY <2>1 DEF Owed
      <3>2. /\ r.do = "drop_column" => r.name \in DOMAIN new.cols \ DOMAIN model.cols
            /\ r.do = "add_column" => r.name \in DOMAIN model.cols \ DOMAIN new.cols
            /\ r.do = "alter_column" => r.name \in DOMAIN model.cols \cap DOMAIN new.cols
        BY <1>2, <2>1, <3>1
      <3> QED BY <2>3, <3>2 DEF Owed
    <2> QED BY <2>1, <2>2, <2>3 DEF Owed
  <1>6. ColumnsDue(t, new, model, left \ {s})
    <2>1. ColumnsDue(t, table, model, left)
      BY DEF TableDue
    <2>2. ASSUME NEW c \in DOMAIN new.cols \ DOMAIN model.cols PROVE Statement("drop_column", t, c) \in left \ {s}
      <3>1. c \in DOMAIN table.cols \ DOMAIN model.cols /\ Statement("drop_column", t, c) # s
        BY <1>2, StatementIs
      <3> QED BY <2>1, <3>1 DEF ColumnsDue
    <2>3. ASSUME NEW c \in DOMAIN model.cols \ DOMAIN new.cols PROVE Statement("add_column", t, c) \in left \ {s}
      <3>1. c \in DOMAIN model.cols \ DOMAIN table.cols /\ Statement("add_column", t, c) # s
        BY <1>2, StatementIs
      <3> QED BY <2>1, <3>1 DEF ColumnsDue
    <2>4. ASSUME NEW c \in DOMAIN model.cols \cap DOMAIN new.cols
          PROVE  \/ ReadsAs(new.cols[c], model.cols[c]) = model.cols[c]
                 \/ Statement("alter_column", t, c) \in left \ {s}
      <3>1. CASE c = s.name
        <4>1. new.cols[c] = Declared(Backend, model.cols[c])
          BY <3>1
        <4> QED BY <4>1, TypesRead DEF ModelFits
      <3>2. CASE c # s.name
        <4>1. c \in DOMAIN model.cols \cap DOMAIN table.cols /\ new.cols[c] = table.cols[c]
          BY <3>2
        <4>2. Statement("alter_column", t, c) # s
          BY <3>2, StatementIs
        <4> QED BY <2>1, <4>1, <4>2 DEF ColumnsDue
      <3> QED BY <3>1, <3>2
    <2> QED BY <2>2, <2>3, <2>4 DEF ColumnsDue
  <1>7. IndicesDue(t, new, model, left \ {s})
    <2>1. IndicesDue(t, table, model, left)
      BY DEF TableDue
    <2>2. \A name : Statement("drop_index", t, name) # s /\ Statement("create_index", t, name) # s
      BY StatementIs
    <2> QED BY <1>3, <1>4, <2>1, <2>2 DEF IndicesDue
  <1> QED BY <1>5, <1>6, <1>7 DEF TableDue

LEMMA CreateIndexDue ==
  ASSUME NEW t, NEW table, NEW model, ModelFits(t, model), NEW left, AreStatements(left),
         TableDue(t, table, model, left), NEW s \in left, s.table = t, s.do = "create_index",
         NEW j \in model.idx, j.name = s.name, ~j.pk, NEW made, IsCopy(made, j),
         NEW new, new.cols = table.cols, new.idx = table.idx \cup {made}
  PROVE  TableDue(t, new, model, left \ {s})
  <1>1. /\ DOMAIN made = {"name", "cols", "unique", "pk", "partial", "constraint"} /\ made.cols # <<>> /\ ~made.partial
        /\ Expression \notin Range(made.cols) /\ \A i \in model.idx : i.name = j.name => i = j
    BY DEF ModelFits, IsModelIndex, IsCopy
  <1>2. AsRead(new.idx) = AsRead(table.idx) \cup {made}
    BY <1>1, AsReadAdds
  <1>3. Full(new) = Full(table) \cup {made}
    BY <1>1, <1>2 DEF Full
  <1>4. Matched(made, model) /\ ~Lacks(new, j)
    BY <1>3 DEF Matched, Lacks, Alike, IsCopy
  <1>5. \A i \in model.idx : Lacks(table, i) /\ i # j => Lacks(new, i)
    BY <1>3 DEF Lacks, ModelFits, Alike, IsCopy
  <1>6. \A i : ~Lacks(table, i) => ~Lacks(new, i)
    BY <1>3 DEF Lacks
  <1>7. ASSUME NEW r \in left \ {s}, r.table = t PROVE Owed(new, model, r)
    <2>1. Owed(table, model, r) /\ (r.do # s.do \/ r.name # s.name)
      BY <1>7, OthersOwed DEF TableDue
    <2> QED BY <1>3, <1>5, <2>1 DEF Owed
  <1>8. ColumnsDue(t, new, model, left \ {s})
    BY StatementIs DEF TableDue, ColumnsDue
  <1>9. IndicesDue(t, new, model, left \ {s})
    <2>1. ASSUME NEW x \in Full(new)
          PROVE  \/ Matched(x, model) \/ Shadow(x, model.idx, AsRead(new.idx))
                 \/ Statement("drop_index", t, x.name) \in left \ {s}
      <3>1. Shadow(x, model.idx, AsRead(table.idx)) => Shadow(x, model.idx, AsRead(new.idx))
        BY <1>2 DEF Shadow
      <3> QED BY <1>3, <1>4, <3>1, StatementIs DEF TableDue, IndicesDue
    <2>2. ASSUME NEW i \in model.idx
          PROVE  i.pk \/ ~Lacks(new, i) \/ Statement("create_index", t, i.name) \in left \ {s}
      <3>1. CASE i = j
        BY <1>4, <3>1
      <3>2. CASE i # j
        <4>1. Statement("create_index", t, i.name) # s
          BY <1>1, <3>2, StatementIs
        <4> QED BY <1>6, <4>1 DEF TableDue, IndicesDue
      <3> QED BY <3>1, <3>2
    <2> QED BY <2>1, <2>2 DEF IndicesDue
  <1> QED BY <1>7, <1>8, <1>9 DEF TableDue

\* A table is made, with its primary key under the database's name.
LEMMA CreateTableDue ==
  ASSUME WorldKnown, NEW t, NEW model, ModelFits(t, model), NEW left, AreStatements(left),
         MissingDue(t, model, left), NEW s \in left, s.table = t, s.do = "create_table",
         NEW new, DOMAIN new.cols = DOMAIN model.cols,
         \A c \in DOMAIN new.cols : new.cols[c] = Declared(Backend, model.cols[c]),
         NEW key \in model.idx, key.pk, new.idx = {[key EXCEPT !.name = PrimaryName(t)]}
  PROVE  TableDue(t, new, model, left \ {s})
  <1> DEFINE made == [key EXCEPT !.name = PrimaryName(t)]
  <1>1. /\ DOMAIN key = {"name", "cols", "unique", "pk", "partial", "constraint"} /\ key.cols # <<>> /\ ~key.partial
        /\ Expression \notin Range(key.cols) /\ \A i \in model.idx : i.pk => i = key
    BY DEF ModelFits, IsModelIndex
  <1>2. /\ DOMAIN made = {"name", "cols", "unique", "pk", "partial", "constraint"} /\ made.cols = key.cols
        /\ made.unique = key.unique /\ made.pk = key.pk /\ made.partial = key.partial /\ made.name = PrimaryName(t)
    BY <1>1
  <1> HIDE DEF made
  <1>3. AsRead(new.idx) = {made}
    <2>1. WithoutExpressions(made) = made
      BY <1>1, <1>2, WithoutExpressionsIs
    <2>2. \A i : i \in new.idx <=> i = made
      BY DEF made
    <2>3. \A idx, x : x \in AsRead(idx) <=> x.cols # <<>> /\ \E i \in idx : x = WithoutExpressions(i)
      BY AsReadOf
    <2>4. \A x : x \in AsRead(new.idx) <=> x.cols # <<>> /\ x = made
      <3> TAKE x
      <3>1. x \in AsRead(new.idx) <=> x.cols # <<>> /\ \E i \in new.idx : x = WithoutExpressions(i)
        BY <2>3
      <3> QED BY <2>1, <2>2, <3>1
    <2> QED BY <1>1, <1>2, <2>4
  <1>4. Full(new) = {made}
    BY <1>1, <1>2, <1>3 DEF Full
  <1>5. Alike(made, key) /\ Matched(made, model)
    BY <1>2 DEF Alike, Matched
  <1>6. \A j \in model.idx : ~j.pk => Lacks(new, j)
    BY <1>2, <1>4 DEF Lacks, Alike
  <1>7. \A j \in model.idx : j.pk => ~Lacks(new, j)
    BY <1>1, <1>4, <1>5 DEF Lacks
  <1>8. ASSUME NEW r \in left \ {s}, r.table = t PROVE Owed(new, model, r)
    <2>1. r.do # s.do \/ r.name # s.name
      BY <1>8, OthersOwed
    <2>2. s.name = ""
      BY DEF MissingDue
    <2> QED BY <1>6, <1>8, <2>1, <2>2 DEF Owed, MissingDue
  <1>9. ColumnsDue(t, new, model, left \ {s})
    BY TypesRead DEF ColumnsDue, ModelFits
  <1>10. IndicesDue(t, new, model, left \ {s})
    <2>1. \A name : Statement("create_index", t, name) # s
      BY StatementIs
    <2> QED BY <1>4, <1>5, <2>1 DEF IndicesDue, MissingDue
  <1> QED BY <1>8, <1>9, <1>10 DEF TableDue

-----------------------------------------------------------------------------
(* What a statement that succeeds does                                       *)

\* The table that a statement leaves, of the one that it finds.
Turns(s, table, new, model) ==
    /\ s.do \in {"drop_index", "drop_column", "add_column", "alter_column", "create_index"}
    /\ s.do \in {"drop_index", "create_index"} => new.cols = table.cols
    /\ s.do \notin {"drop_index", "create_index"} =>
          /\ new.idx = table.idx
          /\ \A c \in DOMAIN new.cols :
                IF c = s.name THEN new.cols[c] = Declared(Backend, model.cols[c]) ELSE new.cols[c] = table.cols[c]
    /\ s.do = "drop_index" => new.idx = {i \in table.idx : i.name # s.name}
    /\ s.do = "drop_column" => DOMAIN new.cols = DOMAIN table.cols \ {s.name}
    /\ s.do = "add_column" => DOMAIN new.cols = DOMAIN table.cols \cup {s.name}
    /\ s.do = "alter_column" => DOMAIN new.cols = DOMAIN table.cols
    /\ s.do = "create_index" =>
          \A j \in model.idx : j.name = s.name /\ ~j.pk /\ IsModelIndex(j, model) =>
             \E made : IsCopy(made, j) /\ new.idx = table.idx \cup {made}

\* The table that is made of a model.
Arises(t, new, model) ==
    /\ DOMAIN new.cols = DOMAIN model.cols
    /\ \A c \in DOMAIN new.cols : new.cols[c] = Declared(Backend, model.cols[c])
    /\ \A key \in model.idx : key.pk /\ IsModelIndex(key, model) => new.idx = {[key EXCEPT !.name = PrimaryName(t)]}

Allowed(a, target, s) ==
    LET t == s.table
        exists == t \in DOMAIN a
    IN  \/ s.do = "create_table" /\ ~exists /\ (Backend # "mysql" => t \notin IndexNames(a))
        \/ s.do = "drop_table" /\ exists
        \/ /\ s.do = "alter_column" /\ exists /\ s.name \in DOMAIN a[t].cols
           /\ Casts(Backend, a[t].cols[s.name], Declared(Backend, target[t].cols[s.name]))
        \/ s.do = "add_column" /\ exists /\ s.name \notin DOMAIN a[t].cols
        \/ s.do = "drop_column" /\ exists /\ s.name \in DOMAIN a[t].cols /\ \A i \in a[t].idx : s.name \notin Range(i.cols)
        \/ s.do = "drop_index" /\ exists /\ \E i \in a[t].idx : i.name = s.name /\ ~i.pk /\ ~i.constraint
        \/ /\ s.do = "create_index" /\ exists /\ s.name \notin Taken(a, t)
           /\ \A i \in target[t].idx : i.name = s.name => Range(i.cols) \subseteq DOMAIN a[t].cols

LEMMA AllowedSucceeds ==
  ASSUME NEW a, NEW target, NEW s
  PROVE  Execute(a, target, s)[2] <=> Allowed(a, target, s)
  <1> DEFINE done == Execute(a, target, s)
             t == s.table
  <1>1. CASE s.do = "create_table" /\ t \notin DOMAIN a /\ (Backend # "mysql" => t \notin IndexNames(a))
    BY <1>1 DEF Execute, Allowed
  <1>2. CASE s.do = "drop_table" /\ t \in DOMAIN a
    BY <1>2 DEF Execute, Allowed
  <1>3. CASE /\ s.do = "alter_column" /\ t \in DOMAIN a /\ s.name \in DOMAIN a[t].cols
             /\ Casts(Backend, a[t].cols[s.name], Declared(Backend, target[t].cols[s.name]))
    BY <1>3 DEF Execute, Allowed
  <1>4. CASE s.do = "add_column" /\ t \in DOMAIN a /\ s.name \notin DOMAIN a[t].cols
    BY <1>4 DEF Execute, Allowed
  <1>5. CASE /\ s.do = "drop_column" /\ t \in DOMAIN a /\ s.name \in DOMAIN a[t].cols
             /\ \A i \in a[t].idx : s.name \notin Range(i.cols)
    BY <1>5 DEF Execute, Allowed
  <1>6. CASE s.do = "drop_index" /\ t \in DOMAIN a /\ \E i \in a[t].idx : i.name = s.name /\ ~i.pk /\ ~i.constraint
    BY <1>6 DEF Execute, Allowed
  <1>7. CASE /\ s.do = "create_index" /\ t \in DOMAIN a /\ s.name \notin Taken(a, t)
             /\ \A i \in target[t].idx : i.name = s.name => Range(i.cols) \subseteq DOMAIN a[t].cols
    BY <1>7 DEF Execute, Allowed
  <1>8. CASE ~Allowed(a, target, s)
    <2>1. done = <<a, FALSE>>
      BY <1>8 DEF Execute, Allowed
    <2> QED BY <1>8, <2>1
  <1> QED BY <1>1, <1>2, <1>3, <1>4, <1>5, <1>6, <1>7, <1>8 DEF Allowed

LEMMA Effects ==
  ASSUME NEW a, NEW target, NEW s, Allowed(a, target, s),
         s.table \in DOMAIN a => DOMAIN a[s.table] = {"cols", "idx", "odd"},
         s.do = "create_table" => \A i, j \in target[s.table].idx : i.pk /\ j.pk => i = j
  PROVE  LET b == Execute(a, target, s)[1]
             t == s.table
         IN  \/ s.do = "drop_table" /\ t \in DOMAIN a /\ b = [u \in DOMAIN a \ {t} |-> a[u]]
             \/ s.do = "create_table" /\ t \notin DOMAIN a /\ \E new : b = Put(a, t, new) /\ Arises(t, new, target[t])
             \/ t \in DOMAIN a /\ \E new : b = Put(a, t, new) /\ Turns(s, a[t], new, target[t])
  <1> DEFINE t == s.table
             table == a[t]
             column(c) == Declared(Backend, target[t].cols[c])
             done == Execute(a, target, s)
             Good == LET b == done[1] IN
                     \/ s.do = "drop_table" /\ t \in DOMAIN a /\ b = [u \in DOMAIN a \ {t} |-> a[u]]
                     \/ s.do = "create_table" /\ t \notin DOMAIN a /\ \E new : b = Put(a, t, new) /\ Arises(t, new, target[t])
                     \/ t \in DOMAIN a /\ \E new : b = Put(a, t, new) /\ Turns(s, a[t], new, target[t])
  <1> SUFFICES Good
    OBVIOUS
  <1>1. ASSUME NEW new, done = <<Put(a, t, new), TRUE>>, t \in DOMAIN a, Turns(s, table, new, target[t]) PROVE Good
    BY <1>1
  <1>2. CASE s.do = "create_table" /\ t \notin DOMAIN a /\ (Backend # "mysql" => t \notin IndexNames(a))
    <2> DEFINE named(i) == [i EXCEPT !.name = PrimaryName(t)]
               keys == {i \in target[t].idx : i.pk}
               new == [cols |-> [c \in DOMAIN target[t].cols |-> column(c)],
                       idx |-> {named(i) : i \in keys}, odd |-> {}]
    <2>1. done = <<Put(a, t, new), TRUE>>
      BY <1>2 DEF Execute
    <2>2. ASSUME NEW key \in target[t].idx, key.pk PROVE new.idx = {named(key)}
      <3>1. keys = {key}
        BY <1>2, <2>2
      <3> QED BY <3>1
    <2>3. DOMAIN new.cols = DOMAIN target[t].cols /\ \A c \in DOMAIN new.cols : new.cols[c] = column(c)
      OBVIOUS
    <2> HIDE DEF new
    <2>4. Arises(t, new, target[t])
      BY <2>2, <2>3 DEF Arises
    <2> QED BY <1>2, <2>1, <2>4
  <1>3. CASE s.do = "drop_table" /\ t \in DOMAIN a
    BY <1>3 DEF Execute
  <1>4. CASE /\ s.do = "alter_column" /\ t \in DOMAIN a /\ s.name \in DOMAIN table.cols
             /\ Casts(Backend, table.cols[s.name], column(s.name))
    <2> DEFINE new == [table EXCEPT !.cols[s.name] = column(s.name)]
    <2>1. done = <<Put(a, t, new), TRUE>>
      BY <1>4 DEF Execute
    <2>2. DOMAIN new.cols = DOMAIN table.cols /\ new.idx = table.idx
          /\ \A c \in DOMAIN new.cols : IF c = s.name THEN new.cols[c] = column(c) ELSE new.cols[c] = table.cols[c]
      BY <1>4
    <2> HIDE DEF new, Good
    <2>3. Turns(s, table, new, target[t])
      BY <1>4, <2>2 DEF Turns
    <2> QED BY <1>1, <1>4, <2>1, <2>3
  <1>5. CASE s.do = "add_column" /\ t \in DOMAIN a /\ s.name \notin DOMAIN table.cols
    <2> DEFINE new == [table EXCEPT !.cols = Put(@, s.name, column(s.name))]
    <2>1. done = <<Put(a, t, new), TRUE>>
      BY <1>5 DEF Execute
    <2>2. DOMAIN new.cols = DOMAIN table.cols \cup {s.name} /\ new.idx = table.idx
          /\ \A c \in DOMAIN new.cols : IF c = s.name THEN new.cols[c] = column(c) ELSE new.cols[c] = table.cols[c]
      BY <1>5 DEF Put
    <2> HIDE DEF new, Good
    <2>3. Turns(s, table, new, target[t])
      BY <1>5, <2>2 DEF Turns
    <2> QED BY <1>1, <1>5, <2>1, <2>3
  <1>6. CASE /\ s.do = "drop_column" /\ t \in DOMAIN a /\ s.name \in DOMAIN table.cols
             /\ \A i \in table.idx : s.name \notin Range(i.cols)
    <2> DEFINE new == [table EXCEPT !.cols = [c \in DOMAIN @ \ {s.name} |-> @[c]]]
    <2>1. done = <<Put(a, t, new), TRUE>>
      BY <1>6 DEF Execute
    <2>2. DOMAIN new.cols = DOMAIN table.cols \ {s.name} /\ new.idx = table.idx
          /\ \A c \in DOMAIN new.cols : IF c = s.name THEN new.cols[c] = column(c) ELSE new.cols[c] = table.cols[c]
      BY <1>6
    <2> HIDE DEF new, Good
    <2>3. Turns(s, table, new, target[t])
      BY <1>6, <2>2 DEF Turns
    <2> QED BY <1>1, <1>6, <2>1, <2>3
  <1>7. CASE s.do = "drop_index" /\ t \in DOMAIN a /\ \E i \in table.idx : i.name = s.name /\ ~i.pk /\ ~i.constraint
    <2> DEFINE new == [table EXCEPT !.idx = {i \in @ : i.name # s.name}]
    <2>1. done = <<Put(a, t, new), TRUE>>
      BY <1>7 DEF Execute
    <2>2. new.cols = table.cols /\ new.idx = {i \in table.idx : i.name # s.name}
      BY <1>7
    <2> HIDE DEF new, Good
    <2>3. Turns(s, table, new, target[t])
      BY <1>7, <2>2 DEF Turns
    <2> QED BY <1>1, <1>7, <2>1, <2>3
  <1>8. CASE /\ s.do = "create_index" /\ t \in DOMAIN a /\ s.name \notin Taken(a, t)
             /\ \A i \in target[t].idx : i.name = s.name => Range(i.cols) \subseteq DOMAIN table.cols
    <2> DEFINE asked == {i \in target[t].idx : i.name = s.name}
               plain(i) == [i EXCEPT !.pk = FALSE]
               new == [table EXCEPT !.idx = @ \cup {plain(i) : i \in asked}]
    <2>1. done = <<Put(a, t, new), TRUE>>
      BY <1>8 DEF Execute
    <2>2. new.cols = table.cols /\ new.idx = table.idx \cup {plain(i) : i \in asked}
      BY <1>8
    <2>3. ASSUME NEW j \in target[t].idx, j.name = s.name, ~j.pk, IsModelIndex(j, target[t])
          PROVE  \E made : IsCopy(made, j) /\ new.idx = table.idx \cup {made}
      <3>1. asked = {j}
        BY <2>3 DEF IsModelIndex
      <3>2. IsCopy(plain(j), j)
        BY <2>3 DEF IsModelIndex, IsCopy
      <3> HIDE DEF asked, plain, new
      <3> QED BY <2>2, <3>1, <3>2
    <2> HIDE DEF new, Good, asked
    <2>4. Turns(s, table, new, target[t])
      BY <1>8, <2>2, <2>3 DEF Turns
    <2> QED BY <1>1, <1>8, <2>1, <2>4
  <1> QED BY <1>2, <1>3, <1>4, <1>5, <1>6, <1>7, <1>8 DEF Allowed

-----------------------------------------------------------------------------
(* What a statement leaves to do                                             *)

LEMMA TurnsDue ==
  ASSUME WorldKnown, NEW t, NEW table, IsTable(table), NEW model, ModelFits(t, model), NEW left, AreStatements(left),
         TableDue(t, table, model, left), NEW s \in left, s.table = t, NEW new, Turns(s, table, new, model)
  PROVE  TableDue(t, new, model, left \ {s})
  <1>1. CASE s.do = "drop_index"
    BY <1>1, DropIndexDue DEF Turns
  <1>2. CASE s.do \in {"drop_column", "add_column", "alter_column"}
    BY <1>2, ColumnDue DEF Turns
  <1>3. CASE s.do = "create_index"
    <2>1. PICK j \in model.idx : j.name = s.name /\ ~j.pk
      BY <1>3 DEF TableDue, Owed
    <2>2. IsModelIndex(j, model)
      BY DEF ModelFits
    <2>3. PICK made : IsCopy(made, j) /\ new.idx = table.idx \cup {made}
      BY <1>3, <2>1, <2>2 DEF Turns
    <2>4. new.cols = table.cols
      BY <1>3 DEF Turns
    <2> QED BY <1>3, <2>1, <2>3, <2>4, CreateIndexDue
  <1> QED BY <1>1, <1>2, <1>3 DEF Turns

LEMMA ArisesDue ==
  ASSUME WorldKnown, NEW t, NEW model, ModelFits(t, model), NEW left, AreStatements(left),
         MissingDue(t, model, left), NEW s \in left, s.table = t, s.do = "create_table",
         NEW new, Arises(t, new, model)
  PROVE  TableDue(t, new, model, left \ {s})
  <1>1. PICK key \in model.idx : key.pk /\ IsModelIndex(key, model)
    BY DEF ModelFits
  <1> QED BY <1>1, CreateTableDue DEF Arises

\* The other tables do not care.
LEMMA ElsewhereDue ==
  ASSUME NEW u, NEW left, NEW s, s.table # u
  PROVE  /\ \A table, model : TableDue(u, table, model, left) => TableDue(u, table, model, left \ {s})
         /\ \A model : MissingDue(u, model, left) => MissingDue(u, model, left \ {s})
         /\ SurplusDue(u, left) => SurplusDue(u, left \ {s})
  <1>1. \A do, name : Statement(do, u, name) # s
    BY StatementIs
  <1> QED BY <1>1 DEF TableDue, ColumnsDue, IndicesDue, MissingDue, SurplusDue

\* A statement of a plan, of what is left of it.
LEMMA DueIs ==
  ASSUME NEW schema, NEW source, NEW left, Due(schema, source, left), NEW s \in left
  PROVE  LET target == world.targets[source]
             t == s.table
         IN  /\ AreStatements(left) /\ s = Statement(s.do, t, s.name)
             /\ \/ t \in DOMAIN target /\ t \in DOMAIN schema /\ TableDue(t, schema[t], target[t], left)
                \/ t \in DOMAIN target /\ t \notin DOMAIN schema /\ MissingDue(t, target[t], left)
                \/ t \in Surplus(schema, source) /\ t \notin DOMAIN target /\ SurplusDue(t, left)
                   /\ t \in DOMAIN schema /\ s.do = "drop_table"
  BY DEF Due, AreStatements, Surplus, SurplusDue

LEMMA PutDue ==
  ASSUME NEW schema, NEW source, NEW left, Due(schema, source, left), NEW s \in left,
         s.table \in DOMAIN world.targets[source], NEW new,
         TableDue(s.table, new, world.targets[source][s.table], left \ {s})
  PROVE  Due(Put(schema, s.table, new), source, left \ {s})
  <1> DEFINE target == world.targets[source]
             t == s.table
             b == Put(schema, t, new)
  <1>1. DOMAIN b = DOMAIN schema \cup {t} /\ b[t] = new /\ \A u \in DOMAIN schema \ {t} : b[u] = schema[u]
    BY DEF Put
  <1> HIDE DEF b
  <1>2. Surplus(b, source) = Surplus(schema, source)
    BY <1>1 DEF Surplus
  <1>3. \A r \in left \ {s} : r = Statement(r.do, r.table, r.name) /\ r.table \in DOMAIN target \cup Surplus(b, source)
    BY <1>2 DEF Due
  <1>4. ASSUME NEW u \in DOMAIN target
        PROVE  IF u \in DOMAIN b THEN TableDue(u, b[u], target[u], left \ {s}) ELSE MissingDue(u, target[u], left \ {s})
    <2>1. CASE u = t
      BY <1>1, <2>1
    <2>2. CASE u # t
      <3>1. IF u \in DOMAIN schema THEN TableDue(u, schema[u], target[u], left) ELSE MissingDue(u, target[u], left)
        BY DEF Due
      <3> QED BY <1>1, <2>2, <3>1, ElsewhereDue
    <2> QED BY <2>1, <2>2
  <1>5. ASSUME NEW u \in Surplus(b, source) PROVE SurplusDue(u, left \ {s})
    <2>1. SurplusDue(u, left) /\ u # t
      BY <1>2 DEF Due, Surplus
    <2> QED BY <2>1, ElsewhereDue
  <1> QED BY <1>3, <1>4, <1>5 DEF Due, b

LEMMA DropTableDue ==
  ASSUME NEW schema, NEW source, NEW left, Due(schema, source, left), NEW s \in left,
         s.table \in Surplus(schema, source), SurplusDue(s.table, left),
         NEW b, b = [u \in DOMAIN schema \ {s.table} |-> schema[u]]
  PROVE  Due(b, source, left \ {s})
  <1> DEFINE target == world.targets[source]
             t == s.table
  <1>1. DOMAIN b = DOMAIN schema \ {t} /\ \A u \in DOMAIN b : b[u] = schema[u]
    OBVIOUS
  <1>2. Surplus(b, source) = Surplus(schema, source) \ {t} /\ t \notin DOMAIN target
    BY <1>1 DEF Surplus
  <1>3. ASSUME NEW r \in left \ {s}
        PROVE r = Statement(r.do, r.table, r.name) /\ r.table \in DOMAIN target \cup Surplus(b, source)
    <2>1. r.table # t
      BY <1>3 DEF SurplusDue, Due
    <2> QED BY <1>2, <2>1 DEF Due
  <1>4. ASSUME NEW u \in DOMAIN target
        PROVE  IF u \in DOMAIN b THEN TableDue(u, b[u], target[u], left \ {s}) ELSE MissingDue(u, target[u], left \ {s})
    <2>1. IF u \in DOMAIN schema THEN TableDue(u, schema[u], target[u], left) ELSE MissingDue(u, target[u], left)
      BY DEF Due
    <2> QED BY <1>1, <1>2, <2>1, ElsewhereDue
  <1>5. ASSUME NEW u \in Surplus(b, source) PROVE SurplusDue(u, left \ {s})
    <2>1. SurplusDue(u, left) /\ u # t
      BY <1>2 DEF Due
    <2> QED BY <2>1, ElsewhereDue
  <1> QED BY <1>3, <1>4, <1>5 DEF Due

\* A statement that is executed leaves the others to do.
LEMMA StepDue ==
  ASSUME WorldKnown, NEW source, IsModels(Backend, world.targets[source]), Attainable(source),
         NEW a, IsSchema(Backend, a), NEW left, Due(a, source, left), NEW s \in left,
         Execute(a, world.targets[source], s)[2]
  PROVE  Due(Execute(a, world.targets[source], s)[1], source, left \ {s})
  <1> DEFINE target == world.targets[source]
             t == s.table
             b == Execute(a, target, s)[1]
  <1>1. Allowed(a, target, s)
    BY AllowedSucceeds
  <1>2. t \in DOMAIN a => DOMAIN a[t] = {"cols", "idx", "odd"} /\ IsTable(a[t])
    BY DEF IsSchema
  <1>3. t \in DOMAIN target => ModelFits(t, target[t]) /\ \A i, j \in target[t].idx : i.pk /\ j.pk => i = j
    BY AttainableIs DEF ModelFits, IsModelIndex
  <1>4. s.do = "create_table" => t \in DOMAIN target
    BY DueIs
  <1>5. \/ s.do = "drop_table" /\ t \in DOMAIN a /\ b = [u \in DOMAIN a \ {t} |-> a[u]]
        \/ s.do = "create_table" /\ t \notin DOMAIN a /\ \E new : b = Put(a, t, new) /\ Arises(t, new, target[t])
        \/ t \in DOMAIN a /\ \E new : b = Put(a, t, new) /\ Turns(s, a[t], new, target[t])
    BY <1>1, <1>2, <1>3, <1>4, Effects
  <1> HIDE DEF b
  <1>6. CASE t \in DOMAIN target /\ t \in DOMAIN a
    <2>1. TableDue(t, a[t], target[t], left) /\ AreStatements(left)
      BY <1>6, DueIs DEF Surplus
    <2>2. s.do # "drop_table" /\ s.do # "create_table"
      BY <2>1 DEF TableDue, Owed
    <2>3. PICK new : b = Put(a, t, new) /\ Turns(s, a[t], new, target[t])
      BY <1>5, <2>2
    <2>4. TableDue(t, new, target[t], left \ {s})
      BY <1>2, <1>3, <1>6, <2>1, <2>3, TurnsDue
    <2>5. Due(Put(a, t, new), source, left \ {s})
      BY <1>6, <2>4, PutDue
    <2> QED BY <2>3, <2>5 DEF b
  <1>7. CASE t \in DOMAIN target /\ t \notin DOMAIN a
    <2>1. MissingDue(t, target[t], left) /\ AreStatements(left)
      BY <1>7, DueIs DEF Surplus
    <2>2. PICK new : s.do = "create_table" /\ b = Put(a, t, new) /\ Arises(t, new, target[t])
      BY <1>5, <1>7
    <2>3. TableDue(t, new, target[t], left \ {s})
      BY <1>3, <1>7, <2>1, <2>2, ArisesDue
    <2>4. Due(Put(a, t, new), source, left \ {s})
      BY <1>7, <2>3, PutDue
    <2> QED BY <2>2, <2>4 DEF b
  <1>8. CASE t \notin DOMAIN target
    <2>1. t \in Surplus(a, source) /\ SurplusDue(t, left) /\ s.do = "drop_table"
      BY <1>8, DueIs
    <2>2. b = [u \in DOMAIN a \ {t} |-> a[u]]
      BY <1>5, <2>1 DEF Turns
    <2>3. Due(b, source, left \ {s})
      BY <2>1, <2>2, DropTableDue
    <2> QED BY <2>3 DEF b
  <1> QED BY <1>6, <1>7, <1>8

-----------------------------------------------------------------------------
(* A schema from which a plan succeeds                                       *)

Ready(schema, source) ==
    /\ Backend # "mysql" => OwnNames(schema, world.targets[source])
    /\ \A t \in DOMAIN world.targets[source] \cap DOMAIN schema :
          Clean(schema[t]) /\ Fits(schema[t], world.targets[source][t])

\* No statement of what is left goes before.
Foremost(s, left) == \A r \in left : Phase(s.do) <= Phase(r.do)

LEMMA PhasesAre ==
  /\ Phase("drop_table") = 1 /\ Phase("drop_index") = 2 /\ Phase("create_table") = 3 /\ Phase("drop_column") = 4
  /\ Phase("add_column") = 5 /\ Phase("alter_column") = 6 /\ Phase("create_index") = 7
  BY DEF Phase

\* The database does it.
Works(s, table, model) ==
    /\ s.do = "drop_index" => \E i \in table.idx : i.name = s.name /\ ~i.pk /\ ~i.constraint
    /\ s.do = "drop_column" => s.name \in DOMAIN table.cols /\ \A i \in table.idx : s.name \notin Range(i.cols)
    /\ s.do = "add_column" => s.name \notin DOMAIN table.cols
    /\ s.do = "alter_column" =>
          s.name \in DOMAIN table.cols /\ Casts(Backend, table.cols[s.name], Declared(Backend, model.cols[s.name]))
    /\ s.do = "create_index" =>
          /\ \E j \in model.idx : j.name = s.name /\ ~j.pk
          /\ \A i \in table.idx : i.name # s.name
          /\ \A i \in model.idx : i.name = s.name => Range(i.cols) \subseteq DOMAIN table.cols

\* The names that a table of the models asks for.
Own(target, t) == {j.name : j \in {k \in target[t].idx : ~k.pk}}

LEMMA OwnNamesAre ==
  ASSUME NEW schema, NEW target
  PROVE  OwnNames(schema, target) <=>
            \A t \in DOMAIN target :
               /\ Own(target, t) \cap DOMAIN schema = {}
               /\ \A u \in DOMAIN schema : \A i \in schema[u].idx :
                     i.name # t /\ (u # t => i.name \notin Own(target, t))
  BY DEF OwnNames, Own

\* They are free.
LEMMA NamesAreFree ==
  ASSUME NEW schema, NEW target, Backend # "mysql" => OwnNames(schema, target), NEW t \in DOMAIN target
  PROVE  /\ Backend # "mysql" => t \notin IndexNames(schema)
         /\ \A j \in target[t].idx :
               (~j.pk /\ t \in DOMAIN schema /\ \A i \in schema[t].idx : i.name # j.name)
                  => j.name \notin Taken(schema, t)
  <1>1. CASE Backend = "mysql"
    BY <1>1 DEF Taken
  <1>2. CASE Backend # "mysql"
    <2>1. /\ Own(target, t) \cap DOMAIN schema = {}
          /\ \A u \in DOMAIN schema : \A i \in schema[u].idx :
                i.name # t /\ (u # t => i.name \notin Own(target, t))
      BY <1>2, OwnNamesAre
    <2>2. \A name : name \in IndexNames(schema) <=> \E u \in DOMAIN schema : \E i \in schema[u].idx : i.name = name
      BY DEF IndexNames
    <2>3. ASSUME NEW j \in target[t].idx, ~j.pk, t \in DOMAIN schema, \A i \in schema[t].idx : i.name # j.name
          PROVE  j.name \notin Taken(schema, t)
      <3>1. j.name \in Own(target, t)
        BY <2>3 DEF Own
      <3>2. j.name \notin DOMAIN schema
        BY <2>1, <3>1
      <3>3. j.name \notin IndexNames(schema)
        BY <2>1, <2>2, <2>3, <3>1
      <3> QED BY <1>2, <3>2, <3>3 DEF Taken
    <2> QED BY <2>1, <2>2, <2>3
  <1> QED BY <1>1, <1>2

\* And they stay, if what is made has names of its own.
LEMMA PutOwnNames ==
  ASSUME NEW a, NEW target, OwnNames(a, target), NEW t, NEW new,
         t \in DOMAIN a \/ \A u \in DOMAIN target : t \notin Own(target, u),
         \A i \in new.idx :
            \/ t \in DOMAIN a /\ i \in a[t].idx
            \/ \A u \in DOMAIN target : i.name # u /\ (u # t => i.name \notin Own(target, u))
  PROVE  OwnNames(Put(a, t, new), target)
  <1> DEFINE b == Put(a, t, new)
  <1>1. DOMAIN b = DOMAIN a \cup {t} /\ b[t] = new /\ \A u \in DOMAIN a \ {t} : b[u] = a[u]
    BY DEF Put
  <1> HIDE DEF b
  <1>2. \A u \in DOMAIN target :
           /\ Own(target, u) \cap DOMAIN a = {}
           /\ \A v \in DOMAIN a : \A i \in a[v].idx : i.name # u /\ (v # u => i.name \notin Own(target, u))
    BY OwnNamesAre
  <1>3. ASSUME NEW u \in DOMAIN target PROVE Own(target, u) \cap DOMAIN b = {}
    BY <1>1, <1>2
  <1>4. ASSUME NEW u \in DOMAIN target, NEW v \in DOMAIN b, NEW i \in b[v].idx
        PROVE  i.name # u /\ (v # u => i.name \notin Own(target, u))
    BY <1>1, <1>2
  <1>5. OwnNames(b, target)
    BY <1>3, <1>4, OwnNamesAre
  <1> QED BY <1>5 DEF b

\* Models that can be brought about have them: the database names their primary keys.
LEMMA AttainableNames ==
  ASSUME NEW source, IsModels(Backend, world.targets[source]), Attainable(source), Backend # "mysql",
         NEW t \in DOMAIN world.targets[source], NEW u \in DOMAIN world.targets[source]
  PROVE  LET target == world.targets[source]
             name(i) == IF i.pk THEN PrimaryName(t) ELSE i.name
         IN  /\ t \notin Own(target, u)
             /\ \A i \in target[t].idx : name(i) # u /\ (u # t => name(i) \notin Own(target, u))
  <1> DEFINE target == world.targets[source]
             named(v, i) == IF i.pk THEN [i EXCEPT !.name = PrimaryName(v)] ELSE i
             all(v) == {named(v, i) : i \in target[v].idx}
             schema == [v \in DOMAIN target |-> [idx |-> all(v)]]
  <1>1. OwnNames(schema, target)
    BY DEF Attainable
  <1>2. DOMAIN schema = DOMAIN target /\ schema[t].idx = all(t)
    OBVIOUS
  <1>3. ASSUME NEW i \in target[t].idx
        PROVE  named(t, i) \in all(t) /\ named(t, i).name = IF i.pk THEN PrimaryName(t) ELSE i.name
    <2>1. IsModelIndex(i, target[t])
      BY ModelIs
    <2> QED BY <2>1 DEF IsModelIndex
  <1> HIDE DEF schema, named, all
  <1>4. /\ Own(target, u) \cap DOMAIN schema = {}
        /\ \A i \in schema[t].idx : i.name # u /\ (t # u => i.name \notin Own(target, u))
    BY <1>1, <1>2, OwnNamesAre
  <1> QED BY <1>2, <1>3, <1>4

\* A column can be given the type that is declared for it, if it has it.
LEMMA CastsAre ==
  ASSUME WorldKnown, NEW n \in NativeTypes(Backend)
  PROVE  Casts(Backend, n, n)
  <1>1. PICK s \in Scenarios : world = s.world
    BY DEF WorldKnown
  <1>2. Backend = s.world.backend
    BY <1>1 DEF Backend
  <1> QED BY <1>2, CastsAssumption

\* Tables whose columns and whose indices are in nothing's way.
LEMMA OwedAllowed ==
  ASSUME NEW t, NEW table, IsTable(table), Clean(table), NEW model, ModelFits(t, model), Fits(table, model),
         NEW left, TableDue(t, table, model, left), NEW s \in left, s.table = t, Foremost(s, left)
  PROVE  Works(s, table, model)
  <1>1. Owed(table, model, s)
    BY DEF TableDue
  <1>2. AsRead(table.idx) = table.idx
    BY PlainAsRead DEF Clean, IsTable
  <1>3. \A i : i \in Full(table) <=> i \in table.idx /\ ~i.partial
    BY <1>2 DEF Full
  <1>4. \A i \in model.idx : /\ Range(i.cols) \subseteq DOMAIN model.cols
                             /\ \A j \in model.idx : i.name = j.name => i = j
    BY DEF ModelFits, IsModelIndex
  <1>5. \A r \in left : /\ r.do = "drop_index" => s.do \notin {"drop_column", "create_index"}
                        /\ r.do = "add_column" => s.do # "create_index"
    BY PhasesAre DEF Foremost
  <1>6. ASSUME NEW i \in table.idx, ~i.partial, s.do \in {"drop_column", "create_index"}
        PROVE  Matched(i, model) \/ Shadow(i, model.idx, table.idx)
    <2>1. Statement("drop_index", t, i.name) \notin left
      BY <1>5, <1>6, StatementIs
    <2> QED BY <1>2, <1>3, <1>6, <2>1 DEF TableDue, IndicesDue
  <1>7. ASSUME s.do = "drop_index" PROVE \E i \in table.idx : i.name = s.name /\ ~i.pk /\ ~i.constraint
    BY <1>1, <1>3, <1>7 DEF Owed, Fits, Matched
  <1>8. ASSUME s.do = "drop_column", NEW i \in table.idx PROVE s.name \notin Range(i.cols)
    <2>1. s.name \notin DOMAIN model.cols
      BY <1>1, <1>8 DEF Owed
    <2>2. Range(i.cols) \subseteq DOMAIN model.cols
      <3>1. CASE i.partial \/ \E j \in model.idx : i.name = j.name
        BY <3>1 DEF Fits
      <3>2. CASE ~i.partial /\ \A j \in model.idx : i.name # j.name
        <4>1. Matched(i, model)
          BY <1>6, <1>8, <3>2 DEF Shadow
        <4> QED BY <1>4, <4>1 DEF Matched, Alike
      <3> QED BY <3>1, <3>2
    <2> QED BY <2>1, <2>2
  <1>9. ASSUME s.do = "create_index"
        PROVE  /\ \E j \in model.idx : j.name = s.name /\ ~j.pk
               /\ \A i \in table.idx : i.name # s.name
               /\ \A i \in model.idx : i.name = s.name => Range(i.cols) \subseteq DOMAIN table.cols
    <2>1. PICK j \in model.idx : j.name = s.name /\ ~j.pk /\ Lacks(table, j)
      BY <1>1, <1>9 DEF Owed
    <2>2. DOMAIN model.cols \subseteq DOMAIN table.cols
      <3> SUFFICES ASSUME NEW c \in DOMAIN model.cols \ DOMAIN table.cols PROVE FALSE
        OBVIOUS
      <3>1. Statement("add_column", t, c) \in left
        BY DEF TableDue, ColumnsDue
      <3> QED BY <1>5, <1>9, <3>1, StatementIs
    <2>3. ASSUME NEW i \in table.idx, i.name = s.name PROVE FALSE
      <3>1. /\ ~i.partial
            /\ \/ Alike(i, j)
               \/ /\ \A k \in model.idx : ~Alike(i, k)
                  /\ \A twin \in table.idx : twin.partial => ~Alike(twin, j)
        BY <2>1, <2>3 DEF Fits
      <3>2. ~Alike(i, j)
        BY <1>3, <2>1, <3>1 DEF Lacks
      <3>3. Shadow(i, model.idx, table.idx)
        BY <1>6, <1>9, <3>1, <3>2 DEF Matched
      <3>4. PICK other \in table.idx : ShapeMatches(j, other)
        BY <1>4, <2>1, <2>3, <3>3 DEF Shadow
      <3>5. Alike(other, j)
        BY <3>4 DEF ShapeMatches, Alike
      <3> QED BY <1>3, <2>1, <3>1, <3>2, <3>5 DEF Lacks
    <2> QED BY <1>4, <2>1, <2>2, <2>3
  <1>10. /\ s.do = "drop_column" => s.name \in DOMAIN table.cols
         /\ s.do = "add_column" => s.name \notin DOMAIN table.cols
         /\ s.do = "alter_column" => s.name \in DOMAIN table.cols
    BY <1>1 DEF Owed
  <1>11. ASSUME s.do = "alter_column" PROVE Casts(Backend, table.cols[s.name], Declared(Backend, model.cols[s.name]))
    <2>1. s.name \in DOMAIN table.cols \cap DOMAIN model.cols
      BY <1>1, <1>11 DEF Owed
    <2> QED BY <2>1 DEF Fits
  <1> QED BY <1>7, <1>8, <1>9, <1>10, <1>11 DEF Works

LEMMA DueSucceeds ==
  ASSUME NEW source, IsModels(Backend, world.targets[source]), Attainable(source),
         NEW a, IsSchema(Backend, a), Ready(a, source),
         NEW left, Due(a, source, left), NEW s \in left, Foremost(s, left)
  PROVE  Execute(a, world.targets[source], s)[2]
  <1> DEFINE target == world.targets[source]
             t == s.table
  <1>1. CASE t \in DOMAIN target /\ t \in DOMAIN a
    <2>1. TableDue(t, a[t], target[t], left)
      BY <1>1, DueIs DEF Surplus
    <2>2. IsTable(a[t]) /\ Clean(a[t]) /\ Fits(a[t], target[t]) /\ ModelFits(t, target[t])
      BY <1>1, AttainableIs DEF Ready, IsSchema
    <2>3. s.do \in {"drop_index", "drop_column", "add_column", "alter_column", "create_index"}
      BY <2>1 DEF TableDue, Owed
    <2>4. Works(s, a[t], target[t])
      BY <2>1, <2>2, OwedAllowed
    <2>6. s.do = "create_index" => s.name \notin Taken(a, t)
      <3> SUFFICES ASSUME s.do = "create_index" PROVE s.name \notin Taken(a, t)
        OBVIOUS
      <3>1. PICK j \in target[t].idx : j.name = s.name /\ ~j.pk
        BY <2>4 DEF Works
      <3>2. \A i \in a[t].idx : i.name # s.name
        BY <2>4 DEF Works
      <3> QED BY <1>1, <3>1, <3>2, NamesAreFree DEF Ready
    <2>5. Allowed(a, target, s)
      BY <1>1, <2>3, <2>4, <2>6 DEF Allowed, Works
    <2> QED BY <2>5, AllowedSucceeds
  <1>2. CASE t \in DOMAIN target /\ t \notin DOMAIN a
    <2>1. MissingDue(t, target[t], left)
      BY <1>2, DueIs DEF Surplus
    <2>2. s.do # "create_index"
      <3>1. Statement("create_table", t, "") \in left
        BY <2>1 DEF MissingDue
      <3>2. Phase(s.do) <= Phase("create_table")
        BY <3>1, StatementIs DEF Foremost
      <3> QED BY <3>2, PhasesAre
    <2>3. s.do = "create_table"
      BY <2>1, <2>2 DEF MissingDue
    <2>5. Backend # "mysql" => t \notin IndexNames(a)
      BY <1>2, NamesAreFree DEF Ready
    <2>4. Allowed(a, target, s)
      BY <1>2, <2>3, <2>5 DEF Allowed
    <2> QED BY <2>4, AllowedSucceeds
  <1>3. CASE t \notin DOMAIN target
    <2>1. t \in DOMAIN a /\ s.do = "drop_table"
      BY <1>3, DueIs
    <2>2. Allowed(a, target, s)
      BY <2>1 DEF Allowed
    <2> QED BY <2>2, AllowedSucceeds
  <1> QED BY <1>1, <1>2, <1>3

LEMMA TurnsFits ==
  ASSUME WorldKnown, NEW t, NEW table, IsTable(table), Clean(table), NEW model, ModelFits(t, model), Fits(table, model),
         NEW s, Owed(table, model, s), NEW new, Turns(s, table, new, model)
  PROVE  Fits(new, model)
  <1>1. ASSUME NEW c \in DOMAIN new.cols \cap DOMAIN model.cols
        PROVE  Casts(Backend, new.cols[c], Declared(Backend, model.cols[c]))
    <2>1. Casts(Backend, Declared(Backend, model.cols[c]), Declared(Backend, model.cols[c]))
      BY TypesAre, CastsAre DEF ModelFits
    <2>2. CASE c \in DOMAIN table.cols /\ new.cols[c] = table.cols[c]
      BY <2>2 DEF Fits
    <2>3. CASE ~(c \in DOMAIN table.cols /\ new.cols[c] = table.cols[c])
      <3>1. new.cols[c] = Declared(Backend, model.cols[c])
        BY <2>3 DEF Turns
      <3> QED BY <2>1, <3>1
    <2> QED BY <2>2, <2>3
  <1>2. CASE s.do # "create_index"
    <2>1. new.idx \subseteq table.idx
      BY <1>2 DEF Turns
    <2> QED BY <1>1, <2>1 DEF Fits
  <1>3. CASE s.do = "create_index"
    <2>1. PICK j \in model.idx : j.name = s.name /\ ~j.pk /\ Lacks(table, j)
      BY <1>3 DEF Owed
    <2>2. IsModelIndex(j, model) /\ \A k \in model.idx : Alike(j, k) => j = k
      BY DEF ModelFits
    <2>3. PICK made : IsCopy(made, j) /\ new.idx = table.idx \cup {made}
      BY <1>3, <2>1, <2>2 DEF Turns
    <2>4. ~made.pk /\ ~made.partial /\ ~made.constraint /\ Alike(made, j) /\ Range(made.cols) \subseteq DOMAIN model.cols
          /\ \A k \in model.idx : made.name = k.name => k = j
      BY <2>1, <2>2, <2>3 DEF IsCopy, IsModelIndex, Alike
    <2>5. \A i \in table.idx : ~i.partial => ~Alike(i, j)
      BY <2>1, PlainAsRead DEF Lacks, Full, Clean, IsTable
    <2>6. \A k \in model.idx : Alike(made, k) => k = j
      BY <2>2, <2>4 DEF Alike
    <2>7. ASSUME NEW i \in new.idx, NEW k \in new.idx, NEW m \in model.idx,
                 ~i.partial, ~k.partial, Alike(i, m), Alike(k, m)
          PROVE  i = k
      <3>1. CASE i \in table.idx /\ k \in table.idx
        BY <2>7, <3>1 DEF Fits
      <3>2. CASE i = made \/ k = made
        BY <2>3, <2>5, <2>6, <2>7, <3>2
      <3> QED BY <2>3, <3>1, <3>2
    <2>8. \A i \in new.idx : i.constraint => \E k \in model.idx : Alike(i, k)
      BY <2>3, <2>4 DEF Fits
    <2>9. \A i \in new.idx : i.pk => \E k \in model.idx : Alike(i, k)
      BY <2>3, <2>4 DEF Fits
    <2>10. ASSUME NEW i \in new.idx, NEW k \in model.idx, i.name = k.name
           PROVE  /\ ~i.partial
                  /\ \/ Alike(i, k)
                     \/ /\ \A m \in model.idx : ~Alike(i, m)
                        /\ \A twin \in new.idx : twin.partial => ~Alike(twin, k)
      BY <2>3, <2>4, <2>10 DEF Fits
    <2>11. \A i \in new.idx :
              i.partial \/ (\E k \in model.idx : i.name = k.name) => Range(i.cols) \subseteq DOMAIN model.cols
      BY <2>3, <2>4 DEF Fits
    <2> QED BY <1>1, <2>7, <2>8, <2>9, <2>10, <2>11 DEF Fits
  <1> QED BY <1>2, <1>3

LEMMA ArisesFits ==
  ASSUME WorldKnown, NEW t, NEW model, ModelFits(t, model), NEW new, Arises(t, new, model)
  PROVE  Fits(new, model)
  <1>1. PICK key \in model.idx : key.pk /\ IsModelIndex(key, model)
    BY DEF ModelFits
  <1> DEFINE made == [key EXCEPT !.name = PrimaryName(t)]
  <1>2. /\ made.cols = key.cols /\ made.unique = key.unique /\ made.pk = key.pk /\ made.partial = key.partial
        /\ made.constraint = key.constraint /\ made.name = PrimaryName(t)
    BY <1>1 DEF IsModelIndex
  <1>3. \A i : i \in new.idx <=> i = made
    BY <1>1 DEF Arises
  <1> HIDE DEF made
  <1>4. \A j \in model.idx : made.name = j.name => j = key
    BY <1>1, <1>2 DEF ModelFits, IsModelIndex
  <1>5. Alike(made, key) /\ ~made.partial /\ ~made.constraint /\ Range(made.cols) \subseteq DOMAIN model.cols
    BY <1>1, <1>2 DEF Alike, IsModelIndex
  <1>6. ASSUME NEW c \in DOMAIN new.cols \cap DOMAIN model.cols
        PROVE  Casts(Backend, new.cols[c], Declared(Backend, model.cols[c]))
    BY TypesAre, CastsAre DEF ModelFits, Arises
  <1> QED BY <1>3, <1>4, <1>5, <1>6 DEF Fits

LEMMA StepReady ==
  ASSUME WorldKnown, NEW source, IsModels(Backend, world.targets[source]), Attainable(source),
         NEW a, IsSchema(Backend, a), Ready(a, source), NEW left, Due(a, source, left),
         NEW s \in left, Proper(source, s), Execute(a, world.targets[source], s)[2]
  PROVE  Ready(Execute(a, world.targets[source], s)[1], source)
  <1> DEFINE target == world.targets[source]
             t == s.table
             b == Execute(a, target, s)[1]
  <1>1. Evolves(source, a, b)
    BY ExecuteEvolves
  <1>2. Allowed(a, target, s) /\ (t \in DOMAIN a => DOMAIN a[t] = {"cols", "idx", "odd"})
    BY AllowedSucceeds DEF IsSchema
  <1>3. s.do = "create_table" => t \in DOMAIN target
    BY DueIs
  <1>4. t \in DOMAIN target => ModelFits(t, target[t]) /\ \A i, j \in target[t].idx : i.pk /\ j.pk => i = j
    BY AttainableIs DEF ModelFits, IsModelIndex
  <1>5. \/ s.do = "drop_table" /\ t \in DOMAIN a /\ b = [u \in DOMAIN a \ {t} |-> a[u]]
        \/ s.do = "create_table" /\ t \notin DOMAIN a /\ \E new : b = Put(a, t, new) /\ Arises(t, new, target[t])
        \/ t \in DOMAIN a /\ \E new : b = Put(a, t, new) /\ Turns(s, a[t], new, target[t])
    BY <1>2, <1>3, <1>4, Effects
  <1> HIDE DEF b
  <1>6. ASSUME NEW u \in DOMAIN target \cap DOMAIN b PROVE Fits(b[u], target[u])
    <2>1. CASE u \in DOMAIN a /\ b[u] = a[u]
      BY <2>1 DEF Ready
    <2>2. CASE u = t /\ u \in DOMAIN a /\ \E new : b = Put(a, t, new) /\ Turns(s, a[t], new, target[t])
      <3>1. PICK new : b = Put(a, t, new) /\ Turns(s, a[t], new, target[t])
        BY <2>2
      <3>2. b[t] = new
        BY <3>1 DEF Put
      <3>3. Owed(a[t], target[t], s)
        BY <1>6, <2>2, DueIs DEF TableDue, Surplus
      <3>4. Fits(a[t], target[t]) /\ Clean(a[t]) /\ IsTable(a[t])
        BY <1>6, <2>2 DEF Ready, IsSchema
      <3> QED BY <1>4, <1>6, <2>2, <3>1, <3>2, <3>3, <3>4, TurnsFits
    <2>3. CASE u = t /\ \E new : b = Put(a, t, new) /\ Arises(t, new, target[t])
      <3>1. PICK new : b = Put(a, t, new) /\ Arises(t, new, target[t])
        BY <2>3
      <3>2. b[t] = new
        BY <3>1 DEF Put
      <3> QED BY <1>4, <1>6, <2>3, <3>1, <3>2, ArisesFits
    <2>4. CASE u # t
      <3>1. u \in DOMAIN a /\ b[u] = a[u]
        BY <1>5, <1>6, <2>4 DEF Put
      <3> QED BY <2>1, <3>1
    <2>5. CASE s.do = "drop_table" /\ b = [v \in DOMAIN a \ {t} |-> a[v]]
      BY <1>6, <2>4, <2>5
    <2> QED BY <1>5, <2>2, <2>3, <2>4, <2>5
  <1>7. ASSUME NEW u \in DOMAIN target \cap DOMAIN b PROVE Clean(b[u])
    <2>1. u \in DOMAIN a => Clean(a[u])
      BY <1>7 DEF Ready
    <2> QED BY <1>1, <1>7, <2>1 DEF Evolves, b
  <1>8. ASSUME Backend # "mysql" PROVE OwnNames(b, target)
    <2>1. OwnNames(a, target) /\ \A v \in DOMAIN target : ModelFits(v, target[v])
      BY <1>8, AttainableIs DEF Ready
    <2>2. CASE b = [u \in DOMAIN a \ {t} |-> a[u]]
      <3>1. DOMAIN b \subseteq DOMAIN a /\ \A u \in DOMAIN b : b[u] = a[u]
        BY <2>2
      <3> QED BY <2>1, <3>1, OwnNamesAre
    <2>3. ASSUME t \in DOMAIN target, NEW i \in target[t].idx, NEW name, name = IF i.pk THEN PrimaryName(t) ELSE i.name
          PROVE  \A u \in DOMAIN target : t \notin Own(target, u) /\ name # u /\ (u # t => name \notin Own(target, u))
      BY <1>8, <2>3, AttainableNames
    <2>4. ASSUME NEW new, b = Put(a, t, new), s.do = "create_table", Arises(t, new, target[t])
          PROVE  OwnNames(b, target)
      <3>1. PICK key \in target[t].idx : key.pk /\ IsModelIndex(key, target[t])
        BY <1>3, <2>1, <2>4 DEF ModelFits
      <3>2. new.idx = {[key EXCEPT !.name = PrimaryName(t)]}
        BY <2>4, <3>1 DEF Arises
      <3>3. \A i \in new.idx : i.name = PrimaryName(t)
        BY <3>1, <3>2 DEF IsModelIndex
      <3>4. \A u \in DOMAIN target :
               t \notin Own(target, u) /\ PrimaryName(t) # u /\ (u # t => PrimaryName(t) \notin Own(target, u))
        BY <1>3, <2>3, <2>4, <3>1
      <3> QED BY <2>1, <2>4, <3>3, <3>4, PutOwnNames
    <2>5. ASSUME NEW new, b = Put(a, t, new), t \in DOMAIN a, Turns(s, a[t], new, target[t])
          PROVE  OwnNames(b, target)
      <3>1. CASE s.do # "create_index"
        <4>1. new.idx \subseteq a[t].idx
          BY <2>5, <3>1 DEF Turns
        <4> QED BY <2>1, <2>5, <4>1, PutOwnNames
      <3>2. CASE s.do = "create_index"
        <4>1. t \in DOMAIN target
          BY <3>2 DEF Proper, Creating
        <4>2. PICK j \in target[t].idx : j.name = s.name /\ ~j.pk
          BY <2>5, <3>2, <4>1, DueIs DEF TableDue, Owed, Surplus
        <4>3. IsModelIndex(j, target[t])
          BY <2>1, <4>1 DEF ModelFits
        <4>4. PICK made : IsCopy(made, j) /\ new.idx = a[t].idx \cup {made}
          BY <2>5, <3>2, <4>2, <4>3 DEF Turns
        <4>5. made.name = j.name
          BY <4>4 DEF IsCopy
        <4>6. \A u \in DOMAIN target : j.name # u /\ (u # t => j.name \notin Own(target, u))
          BY <2>3, <4>1, <4>2
        <4> QED BY <2>1, <2>5, <4>4, <4>5, <4>6, PutOwnNames
      <3> QED BY <3>1, <3>2
    <2> QED BY <1>5, <2>2, <2>4, <2>5
  <1> QED BY <1>6, <1>7, <1>8 DEF Ready, b

-----------------------------------------------------------------------------
(* A plan that is executed                                                   *)

Left(planned, m) == {planned[i] : i \in (m + 1)..Len(planned)}

LEMMA LeftIs ==
  ASSUME NEW source, NEW planned, IsPlan(source, planned), NEW m \in 1..Len(planned)
  PROVE  /\ Proper(source, planned[m]) /\ planned[m] \in Left(planned, m - 1)
         /\ Left(planned, m) = Left(planned, m - 1) \ {planned[m]}
         /\ Foremost(planned[m], Left(planned, m - 1))
  <1> DEFINE n == Len(planned)
  <1>1. /\ n \in Nat /\ \A i \in 1..n : Proper(source, planned[i])
        /\ \A i, j \in 1..n : i < j => planned[i] # planned[j] /\ Phase(planned[i].do) <= Phase(planned[j].do)
    BY DEF IsPlan, Ordered
  <1> HIDE DEF n
  <1>2. Phase(planned[m].do) \in Nat
    <2>1. planned[m].do \in Creating \cup Changing
      BY <1>1 DEF Proper, n
    <2> QED BY <2>1, PhasesAre DEF Creating, Changing
  <1>3. \A s : s \in Left(planned, m - 1) <=> s = planned[m] \/ s \in Left(planned, m)
    <2>1. (m - 1 + 1)..n = {m} \cup ((m + 1)..n)
      BY <1>1 DEF n
    <2> QED BY <2>1 DEF Left, n
  <1>4. \A s \in Left(planned, m) : s # planned[m] /\ Phase(planned[m].do) <= Phase(s.do)
    BY <1>1 DEF Left, n
  <1>5. Left(planned, m) = Left(planned, m - 1) \ {planned[m]}
    BY <1>3, <1>4
  <1>6. Foremost(planned[m], Left(planned, m - 1))
    BY <1>2, <1>3, <1>4 DEF Foremost
  <1> QED BY <1>1, <1>3, <1>5, <1>6 DEF n

\* A plan that succeeds leaves nothing to do, and it does if nothing is in its way.
LEMMA PlanDoes ==
  ASSUME WorldKnown, NEW source, IsModels(Backend, world.targets[source]), Attainable(source),
         NEW a, IsSchema(Backend, a), NEW planned, IsPlan(source, planned), Due(a, source, Range(planned))
  PROVE  LET done == ExecuteAll(a, world.targets[source], planned) IN
         /\ done[2] => Due(done[1], source, {})
         /\ Ready(a, source) => done[2]
  <1> DEFINE n == Len(planned)
             target == world.targets[source]
  <1>1. n \in Nat
    BY DEF IsPlan
  <1>2. PICK done : IsRun(done, a, target, planned)
    BY <1>1, ExecuteAllRuns
  <1> DEFINE Good(i) ==
                /\ IsSchema(Backend, done[i][1])
                /\ done[i][2] => Due(done[i][1], source, Left(planned, i))
                /\ Ready(a, source) => done[i][2] /\ Ready(done[i][1], source)
             bad == {i \in 0..n : ~Good(i)}
  <1>3. Good(0)
    <2>1. done[0][1] = a /\ done[0][2]
      BY <1>2 DEF IsRun
    <2>2. Left(planned, 0) = Range(planned)
      BY RangeIs DEF Left, IsPlan
    <2> QED BY <2>1, <2>2
  <1>4. ASSUME NEW m \in 1..n, Good(m - 1) PROVE Good(m)
    <2> DEFINE c == done[m - 1][1]
               s == planned[m]
               left == Left(planned, m - 1)
    <2>1. done[m] = IF done[m - 1][2] THEN Execute(c, target, s) ELSE done[m - 1]
      BY <1>2 DEF After, IsRun
    <2>2. CASE done[m - 1][2]
      <3>1. done[m] = Execute(c, target, s)
        BY <2>1, <2>2
      <3>2. /\ IsSchema(Backend, c) /\ Due(c, source, left) /\ (Ready(a, source) => Ready(c, source))
        BY <1>4, <2>2
      <3>3. Proper(source, s) /\ s \in left /\ Left(planned, m) = left \ {s} /\ Foremost(s, left)
        BY LeftIs
      <3> HIDE DEF c, s, left
      <3>4. IsSchema(Backend, done[m][1])
        BY <3>1, <3>2, <3>3, ExecuteEvolves
      <3>5. done[m][2] => Due(done[m][1], source, left \ {s})
        BY <3>1, <3>2, <3>3, StepDue
      <3>6. Ready(a, source) => done[m][2]
        BY <3>1, <3>2, <3>3, DueSucceeds
      <3>7. Ready(a, source) => Ready(done[m][1], source)
        BY <3>1, <3>2, <3>3, <3>6, StepReady
      <3> QED BY <3>3, <3>4, <3>5, <3>6, <3>7 DEF s
    <2>3. CASE ~done[m - 1][2]
      BY <1>4, <2>1, <2>3
    <2> QED BY <2>2, <2>3
  <1> HIDE DEF Good
  <1>5. bad = {}
    <2>1. 0 \notin bad /\ \A m \in 1..n : m \in bad => m - 1 \in bad
      BY <1>1, <1>3, <1>4
    <2> HIDE DEF bad
    <2>2. bad \in SUBSET (0..n)
      BY DEF bad
    <2> QED BY <1>1, <2>1, <2>2, FirstOne
  <1>6. Good(n)
    BY <1>1, <1>5
  <1>7. Left(planned, n) = {}
    BY <1>1 DEF Left
  <1> QED BY <1>2, <1>6, <1>7 DEF IsRun, Good

LEMMA HeadDoes ==
  ASSUME WorldKnown, NEW source, IsModels(Backend, world.targets[source]), Attainable(source),
         NEW a, IsSchema(Backend, a), NEW planned, IsPlan(source, planned), planned # <<>>, Due(a, source, Range(planned))
  PROVE  LET done == Execute(a, world.targets[source], Head(planned)) IN
         /\ done[2] => Due(done[1], source, Range(Tail(planned)))
         /\ Ready(a, source) => done[2]
  <1> DEFINE s == Head(planned)
  <1>1. planned \in Seq(Range(planned)) /\ Ordered(planned)
    BY DEF IsPlan
  <1>2. /\ s \in Range(planned) /\ Range(Tail(planned)) = Range(planned) \ {s}
        /\ \A r \in Range(planned) : r = s \/ Phase(s.do) <= Phase(r.do)
    BY <1>1, TailGoes
  <1>3. Phase(s.do) \in Nat
    <2>1. Len(planned) \in Nat /\ 1 \in 1..Len(planned) /\ s = planned[1]
      BY <1>1
    <2>2. s.do \in Creating \cup Changing
      BY <2>1 DEF IsPlan, Proper
    <2> QED BY <2>2, PhasesAre DEF Creating, Changing
  <1> HIDE DEF s
  <1>4. Foremost(s, Range(planned))
    BY <1>2, <1>3 DEF Foremost
  <1>5. /\ Execute(a, world.targets[source], s)[2] =>
              Due(Execute(a, world.targets[source], s)[1], source, Range(planned) \ {s})
        /\ Ready(a, source) => Execute(a, world.targets[source], s)[2]
    BY <1>2, <1>4, StepDue, DueSucceeds
  <1> QED BY <1>2, <1>5 DEF s

-----------------------------------------------------------------------------
(* What a comparison finds is all that is to do                              *)

CalledOn(t, normal, model, s) ==
    /\ s = Statement(s.do, t, s.name)
    /\ \/ s.do = "drop_index" /\ \E i \in Changed(normal.idx, model.idx) : i.name = s.name
       \/ s.do = "drop_column" /\ s.name \in DOMAIN normal.cols \ DOMAIN model.cols
       \/ s.do = "add_column" /\ s.name \in DOMAIN model.cols \ DOMAIN normal.cols
       \/ /\ s.do = "alter_column" /\ s.name \in DOMAIN normal.cols \cap DOMAIN model.cols
          /\ normal.cols[s.name] # model.cols[s.name]
       \/ s.do = "create_index" /\ \E i \in Changed(model.idx, normal.idx) : i.name = s.name

LEMMA ChangedIs == \A A, B, i : i \in Changed(A, B) <=> i \in A /\ \E j : ~(j \in B /\ j.name = i.name <=> j = i)
  BY DEF Changed

LEMMA ShapesAre == \A i, j : /\ ShapeMatches(i, j) <=> Alike(i, j)
                             /\ ShapeMatches(i, j) <=> Alike(j, i)
  BY DEF ShapeMatches, Alike

\* The indices that a comparison finds to be dropped or made are those that are in the way, and
\* those that lack.
LEMMA IndicesCompared ==
  ASSUME NEW t, NEW table, IsTable(table), NEW model, ModelFits(t, model),
         NEW normal, normal = NormalOf(table, model), \E x \in normal.idx : x.pk,
         \A i \in table.idx : i.pk => Matched(i, model)
  PROVE  /\ \A i \in Changed(normal.idx, model.idx) :
               i \in Full(table) /\ ~Matched(i, model) /\ ~Shadow(i, model.idx, AsRead(table.idx))
         /\ \A j \in Changed(model.idx, normal.idx) : j \in model.idx /\ ~j.pk /\ Lacks(table, j)
         /\ \A i \in Full(table) : ~Matched(i, model) /\ ~Shadow(i, model.idx, AsRead(table.idx)) =>
               i \in Changed(normal.idx, model.idx)
         /\ \A j \in model.idx : Lacks(table, j) => j \in Changed(model.idx, normal.idx)
  <1> DEFINE observed == AsRead(table.idx)
  <1>1. normal.idx = NormalIndices(model.idx, observed)
    BY NormalIs
  <1>2. \A i : i \in Full(table) <=> i \in observed /\ ~i.partial
    BY DEF Full
  <1> HIDE DEF observed
  <1>3. \A i, j \in model.idx : (i.name = j.name => i = j) /\ (i.pk /\ j.pk => i = j) /\ (Alike(i, j) => i = j)
    BY DEF ModelFits, IsModelIndex
  <1>4. \A x \in normal.idx :
           \/ x \in model.idx /\ \E i \in Full(table) : Alike(i, x)
           \/ x \in Full(table) /\ ~Matched(x, model) /\ ~Shadow(x, model.idx, observed)
    <2> SUFFICES ASSUME NEW x \in NormalIndices(model.idx, observed)
                 PROVE  \/ x \in model.idx /\ \E i \in Full(table) : Alike(i, x)
                        \/ x \in Full(table) /\ ~Matched(x, model) /\ ~Shadow(x, model.idx, observed)
      BY <1>1
    <2> QED BY <1>2, NormalIndicesAre, ShapesAre DEF Matched
  <1>5. \A i \in Full(table) : Matched(i, model) => \E c \in model.idx : Alike(i, c) /\ c \in normal.idx
    <2> SUFFICES ASSUME NEW i \in Full(table), Matched(i, model)
                 PROVE  \E c \in model.idx : Alike(i, c) /\ c \in NormalIndices(model.idx, observed)
      BY <1>1
    <2> QED BY <1>2, NormalIndicesAre, ShapesAre DEF Matched
  <1>6. \A i \in Full(table) : ~Matched(i, model) /\ ~Shadow(i, model.idx, observed) => i \in normal.idx
    <2> SUFFICES ASSUME NEW i \in Full(table), ~Matched(i, model), ~Shadow(i, model.idx, observed)
                 PROVE  i \in NormalIndices(model.idx, observed)
      BY <1>1
    <2> QED BY <1>2, NormalIndicesAre, ShapesAre DEF Matched
  <1>7. \A i, j, k : Alike(i, i) /\ (Alike(i, j) => Alike(j, i)) /\ (Alike(i, j) /\ Alike(j, k) => Alike(i, k))
    BY DEF Alike
  <1>8. \A i \in Full(table) : i.pk => Matched(i, model)
    BY <1>2, AsReadIs DEF observed, IsTable
  \* An index that is made is neither there nor a key.
  <1>9. ASSUME NEW j \in Changed(model.idx, normal.idx) PROVE j \in model.idx /\ ~j.pk /\ Lacks(table, j)
    <2>1. j \in model.idx /\ \E x : ~(x \in normal.idx /\ x.name = j.name <=> x = j)
      BY ChangedIs
    <2>2. Lacks(table, j)
      <3> SUFFICES ASSUME NEW i \in Full(table), Alike(i, j) PROVE FALSE
        BY DEF Lacks
      <3>1. j \in normal.idx
        BY <1>3, <1>5, <1>7, <2>1 DEF Matched
      <3>2. PICK x \in normal.idx : x.name = j.name /\ x # j
        BY <2>1, <3>1
      <3>3. ~Shadow(x, model.idx, observed)
        BY <1>3, <1>4, <2>1, <3>2
      <3> QED BY <1>2, <2>1, <3>2, <3>3, ShapesAre DEF Shadow
    <2>3. ~j.pk
      <3> SUFFICES ASSUME j.pk PROVE FALSE
        OBVIOUS
      <3>1. PICK x \in normal.idx : x.pk
        OBVIOUS
      <3> QED BY <1>3, <1>4, <1>8, <2>1, <2>2, <3>1 DEF Lacks
    <2> QED BY <2>1, <2>2, <2>3
  <1>10. ASSUME NEW i \in Changed(normal.idx, model.idx) PROVE i \in Full(table) /\ ~Matched(i, model) /\ ~Shadow(i, model.idx, observed)
    <2>1. i \in normal.idx /\ \E x : ~(x \in model.idx /\ x.name = i.name <=> x = i)
      BY ChangedIs
    <2> QED BY <1>3, <1>4, <2>1
  <1>11. ASSUME NEW i \in Full(table), ~Matched(i, model), ~Shadow(i, model.idx, observed)
         PROVE  i \in Changed(normal.idx, model.idx)
    <2>1. i \in normal.idx /\ i \notin model.idx
      BY <1>6, <1>7, <1>11 DEF Matched
    <2> QED BY <2>1, ChangedIs
  <1>12. ASSUME NEW j \in model.idx, Lacks(table, j) PROVE j \in Changed(model.idx, normal.idx)
    <2>1. j \notin normal.idx
      BY <1>4, <1>7, <1>12 DEF Lacks, Matched
    <2> QED BY <2>1, ChangedIs
  <1> QED BY <1>9, <1>10, <1>11, <1>12 DEF observed

LEMMA TableIsDue ==
  ASSUME NEW t, NEW table, IsTable(table), NEW model, ModelFits(t, model),
         NEW normal, normal = NormalOf(table, model), \E x \in normal.idx : x.pk,
         \A i \in table.idx : i.pk => Matched(i, model),
         NEW left, \A s : s \in left /\ s.table = t <=> CalledOn(t, normal, model, s)
  PROVE  TableDue(t, table, model, left)
  <1>1. /\ DOMAIN normal.cols = DOMAIN table.cols
        /\ \A c \in DOMAIN table.cols \cap DOMAIN model.cols : normal.cols[c] = ReadsAs(table.cols[c], model.cols[c])
    BY NormalIs
  <1>2. ASSUME NEW s \in left, s.table = t PROVE Owed(table, model, s)
    <2>1. CalledOn(t, normal, model, s)
      BY <1>2
    <2> QED BY <1>1, <2>1, IndicesCompared DEF CalledOn, Owed
  <1>3. ASSUME NEW do, NEW name, CalledOn(t, normal, model, Statement(do, t, name)) PROVE Statement(do, t, name) \in left
    BY <1>3
  <1>4. ColumnsDue(t, table, model, left)
    BY <1>1, <1>3, StatementIs DEF ColumnsDue, CalledOn
  <1>5. ASSUME NEW i \in Full(table), ~Matched(i, model), ~Shadow(i, model.idx, AsRead(table.idx))
        PROVE  Statement("drop_index", t, i.name) \in left
    <2>1. i \in Changed(normal.idx, model.idx)
      BY <1>5, IndicesCompared
    <2> QED BY <1>3, <2>1, StatementIs DEF CalledOn
  <1>6. ASSUME NEW j \in model.idx, ~j.pk, Lacks(table, j) PROVE Statement("create_index", t, j.name) \in left
    <2>1. j \in Changed(model.idx, normal.idx)
      BY <1>6, IndicesCompared
    <2> QED BY <1>3, <2>1, StatementIs DEF CalledOn
  <1> QED BY <1>2, <1>4, <1>5, <1>6 DEF TableDue, IndicesDue

\* Nothing is called for on a table that needs nothing.
LEMMA NothingCalledOn ==
  ASSUME NEW t, NEW table, IsTable(table), NEW model, ModelFits(t, model),
         NEW normal, normal = NormalOf(table, model), \E x \in normal.idx : x.pk,
         \A i \in table.idx : i.pk => Matched(i, model), TableDue(t, table, model, {}), NEW s
  PROVE  ~CalledOn(t, normal, model, s)
  <1>1. /\ DOMAIN normal.cols = DOMAIN table.cols
        /\ \A c \in DOMAIN table.cols \cap DOMAIN model.cols : normal.cols[c] = ReadsAs(table.cols[c], model.cols[c])
    BY NormalIs
  <1>2. /\ DOMAIN table.cols = DOMAIN model.cols
        /\ \A c \in DOMAIN table.cols \cap DOMAIN model.cols : normal.cols[c] = model.cols[c]
    BY <1>1 DEF TableDue, ColumnsDue
  <1>3. Changed(normal.idx, model.idx) = {} /\ Changed(model.idx, normal.idx) = {}
    BY IndicesCompared DEF TableDue, IndicesDue
  <1> QED BY <1>1, <1>2, <1>3 DEF CalledOn

LEMMA ComparedIsDue ==
  ASSUME WorldKnown, NEW source, IsModels(Backend, world.targets[source]), Attainable(source), IsSchema(Backend, live),
         KeysFit(live, source), NEW schema, DOMAIN schema = Visible(source),
         \A t \in DOMAIN schema \cap DOMAIN world.targets[source] :
            schema[t] = NormalOf(live[t], world.targets[source][t]) /\ \E x \in schema[t].idx : x.pk,
         NEW left, \A s : s \in left <=> Called(schema, world.targets[source], s)
  PROVE  Due(live, source, left)
  <1> DEFINE target == world.targets[source]
  <1>1. \A t : t \in DOMAIN schema <=> t \in DOMAIN live /\ t \notin Internal /\ IsManaged(source, t)
    BY DEF Visible
  <1>2. \A t \in DOMAIN target : ModelFits(t, target[t]) /\ (t \in DOMAIN schema <=> t \in DOMAIN live)
    BY <1>1, AttainableIs
  <1>3. \A t : t \in Surplus(live, source) <=> t \in DOMAIN schema /\ t \notin DOMAIN target
    BY <1>1 DEF Surplus
  <1>4. \A s \in left : s = Statement(s.do, s.table, s.name) /\ s.table \in DOMAIN target \cup Surplus(live, source)
    BY <1>3 DEF Called
  <1>5. ASSUME NEW t \in DOMAIN target, t \in DOMAIN live PROVE TableDue(t, live[t], target[t], left)
    <2>1. t \in DOMAIN schema /\ IsTable(live[t]) /\ ModelFits(t, target[t])
      BY <1>2, <1>5 DEF IsSchema
    <2>2. schema[t] = NormalOf(live[t], target[t]) /\ \E x \in schema[t].idx : x.pk
      BY <2>1
    <2>3. \A i \in live[t].idx : i.pk => Matched(i, target[t])
      BY <1>5 DEF KeysFit
    <2>4. \A s : s \in left /\ s.table = t <=> CalledOn(t, schema[t], target[t], s)
      <3>1. ASSUME NEW s, s.table = t PROVE Called(schema, target, s) <=> CalledOn(t, schema[t], target[t], s)
        BY <2>1, <3>1 DEF Called, CalledOn
      <3>2. ASSUME NEW s, CalledOn(t, schema[t], target[t], s) PROVE s.table = t
        BY <3>2, StatementIs DEF CalledOn
      <3> QED BY <3>1, <3>2
    <2> QED BY <2>1, <2>2, <2>3, <2>4, TableIsDue
  <1>6. ASSUME NEW t \in DOMAIN target, t \notin DOMAIN live PROVE MissingDue(t, target[t], left)
    <2>1. t \notin DOMAIN schema
      BY <1>2, <1>6
    <2>2. Statement("create_table", t, "") \in left
      <3> DEFINE s == Statement("create_table", t, "")
      <3>1. s.do = "create_table" /\ s.table = t /\ s.name = ""
        BY DEF Statement
      <3>2. Called(schema, target, s)
        BY <2>1, <3>1 DEF Called
      <3> QED BY <3>2
    <2>3. ASSUME NEW j \in target[t].idx, ~j.pk PROVE Statement("create_index", t, j.name) \in left
      <3> DEFINE s == Statement("create_index", t, j.name)
      <3>1. s.do = "create_index" /\ s.table = t /\ s.name = j.name
        BY StatementIs
      <3>2. Called(schema, target, s)
        BY <2>1, <2>3, <3>1 DEF Called
      <3> QED BY <3>2
    <2>4. ASSUME NEW s \in left, s.table = t
          PROVE  \/ s.do = "create_table" /\ s.name = ""
                 \/ s.do = "create_index" /\ \E j \in target[t].idx : j.name = s.name /\ ~j.pk
      BY <2>1, <2>4 DEF Called
    <2> QED BY <2>2, <2>3, <2>4 DEF MissingDue
  <1>7. ASSUME NEW t \in Surplus(live, source) PROVE SurplusDue(t, left)
    <2>1. t \in DOMAIN schema \ DOMAIN target
      BY <1>3
    <2>2. Statement("drop_table", t, "") \in left
      <3> DEFINE s == Statement("drop_table", t, "")
      <3>1. s.do = "drop_table" /\ s.table = t /\ s.name = ""
        BY DEF Statement
      <3>2. Called(schema, target, s)
        BY <2>1, <3>1 DEF Called
      <3> QED BY <3>2
    <2>3. ASSUME NEW s \in left, s.table = t PROVE s.do = "drop_table" /\ s.name = ""
      BY <2>1, <2>3 DEF Called
    <2> QED BY <2>2, <2>3 DEF SurplusDue
  <1> QED BY <1>4, <1>5, <1>6, <1>7 DEF Due

-----------------------------------------------------------------------------
(* What is decided on a live schema that the models can be brought to        *)

\* The comparison that a source decides on.
Compares(source, schema) ==
    /\ IsFinite(schema) /\ IsFinite(world.targets[source]) /\ DOMAIN schema = Visible(source)
    /\ \A t \in DOMAIN schema :
          schema[t] = NormalTable(live[t].cols, AsRead(live[t].idx), TargetOf(world.targets[source], t))

LEMMA DecideCompares ==
  ASSUME IInv, NEW p \in Processes, pc[p] = "decide", MirrorsAt("decide", seen[p], Visible(Source(p)))
  PROVE  Compares(Source(p), Normalised(seen[p], Target(p)))
  BY DecidesOn DEF Compares, Target

LEMMA ComparesOn ==
  ASSUME NEW source, NEW schema, Compares(source, schema), NEW t \in DOMAIN schema
  PROVE  /\ t \in DOMAIN live /\ t \notin Internal /\ IsManaged(source, t)
         /\ t \in DOMAIN world.targets[source] => schema[t] = NormalOf(live[t], world.targets[source][t])
  <1>1. t \in DOMAIN live /\ t \notin Internal /\ IsManaged(source, t)
    BY DEF Compares, Visible
  <1>2. ASSUME t \in DOMAIN world.targets[source] PROVE schema[t] = NormalOf(live[t], world.targets[source][t])
    BY <1>2 DEF Compares, TargetOf, NormalOf
  <1> QED BY <1>1, <1>2

LEMMA DecidedIsDue ==
  ASSUME WorldKnown, IsSchema(Backend, live), NEW source, IsModels(Backend, world.targets[source]),
         Attainable(source), KeysFit(live, source), NEW schema, Compares(source, schema),
         \A t \in DOMAIN schema : \E x \in schema[t].idx : x.pk
  PROVE  Due(live, source, Range(Diff(schema, world.targets[source], {})))
  <1>1. \A s : s \in Range(Diff(schema, world.targets[source], {})) <=> Called(schema, world.targets[source], s)
    BY PlanIs DEF Compares
  <1>2. DOMAIN schema = Visible(source)
    BY DEF Compares
  <1>3. \A t \in DOMAIN schema \cap DOMAIN world.targets[source] :
           schema[t] = NormalOf(live[t], world.targets[source][t])
    BY ComparesOn
  <1> QED BY <1>1, <1>2, <1>3, ComparedIsDue

\* A live schema that settles, table by table.
LEMMA SettlesIs ==
  ASSUME NEW source, Settles(source), IsSchema(Backend, live), IsModels(Backend, world.targets[source])
  PROVE  /\ Attainable(source) /\ KeysFit(live, source) /\ Ready(live, source)
         /\ \A t \in Visible(source) :
               /\ t \notin world.refused /\ Clean(live[t]) /\ \E i \in live[t].idx : i.pk
               /\ \A c \in DOMAIN live[t].cols : Stores(Backend, live[t].cols[c]) # <<>>
               /\ t \in DOMAIN world.targets[source] => Fits(live[t], world.targets[source][t])
  <1>1. Attainable(source)
    BY DEF Settles
  <1>2. \A t \in Visible(source) :
           /\ t \in DOMAIN live /\ t \notin world.refused /\ Clean(live[t]) /\ \E i \in live[t].idx : i.pk
           /\ \A c \in DOMAIN live[t].cols : Stores(Backend, live[t].cols[c]) # <<>>
           /\ t \in DOMAIN world.targets[source] => Fits(live[t], world.targets[source][t])
    BY DEF Settles, Visible, Clean, HasExpression
  <1>3. \A t \in DOMAIN world.targets[source] \cap DOMAIN live : t \in Visible(source)
    BY <1>1, AttainableIs DEF Visible
  <1>4. KeysFit(live, source)
    BY <1>2, <1>3 DEF KeysFit, Fits, Matched
  <1>5. Ready(live, source)
    BY <1>2, <1>3 DEF Ready, Settles
  <1> QED BY <1>1, <1>2, <1>4, <1>5

\* It has nothing that Toasty cannot express once it is normalised.
LEMMA SettledColumns ==
  ASSUME WorldKnown, IsSchema(Backend, live), NEW source, Settles(source), IsModels(Backend, world.targets[source]),
         NEW schema, Compares(source, schema), NEW t \in DOMAIN schema
  PROVE  DOMAIN schema[t].cols = DOMAIN live[t].cols /\ \A c \in DOMAIN schema[t].cols : schema[t].cols[c] # Unreadable
  <1>1. t \in Visible(source) /\ t \in DOMAIN live
    BY ComparesOn DEF Compares
  <1>2. \A c \in DOMAIN live[t].cols : Inferred(Backend, live[t].cols[c]) # Unreadable
    <2>1. \A c \in DOMAIN live[t].cols :
             live[t].cols[c] \in NativeTypes(Backend) /\ Stores(Backend, live[t].cols[c]) # <<>>
      BY <1>1, SettlesIs DEF IsSchema
    <2> QED BY <2>1, TypesAre
  <1>3. CASE t \in DOMAIN world.targets[source]
    <2> DEFINE model == world.targets[source][t]
    <2>1. schema[t] = NormalOf(live[t], model)
      BY <1>3, ComparesOn
    <2>2. \A c \in DOMAIN model.cols : model.cols[c] # Unreadable
      BY <1>3, ModelIs, TypesAre
    <2> HIDE DEF model
    <2>3. /\ DOMAIN schema[t].cols = DOMAIN live[t].cols
          /\ \A c \in DOMAIN live[t].cols \cap DOMAIN model.cols :
                schema[t].cols[c] = ReadsAs(live[t].cols[c], model.cols[c])
          /\ \A c \in DOMAIN live[t].cols \ DOMAIN model.cols : schema[t].cols[c] = Inferred(Backend, live[t].cols[c])
      BY <2>1, NormalIs
    <2>4. ASSUME NEW c \in DOMAIN live[t].cols PROVE schema[t].cols[c] # Unreadable
      <3>1. CASE c \in DOMAIN model.cols
        <4>1. \/ ReadsAs(live[t].cols[c], model.cols[c]) = model.cols[c]
              \/ ReadsAs(live[t].cols[c], model.cols[c]) = Inferred(Backend, live[t].cols[c])
          BY TypesRead
        <4> QED BY <1>2, <2>2, <2>3, <3>1, <4>1
      <3>2. CASE c \notin DOMAIN model.cols
        BY <1>2, <2>3, <3>2
      <3> QED BY <3>1, <3>2
    <2> QED BY <2>3, <2>4
  <1>4. CASE t \notin DOMAIN world.targets[source]
    <2> DEFINE cols == live[t].cols
               idx == AsRead(live[t].idx)
               types(c) == {u.cols[c] : u \in {v \in {} : c \in DOMAIN v.cols}}
    <2>1. schema[t] = NormalTable(cols, idx, {})
      BY <1>4 DEF Compares, TargetOf
    <2>2. \A c : types(c) = {}
      OBVIOUS
    <2>3. schema[t].cols = [c \in DOMAIN cols |-> ReadType(Backend, cols[c], types(c))]
      BY <2>1 DEF NormalTable
    <2> HIDE DEF cols, types
    <2>4. DOMAIN schema[t].cols = DOMAIN cols /\ \A c \in DOMAIN cols : schema[t].cols[c] = ReadType(Backend, cols[c], types(c))
      BY <2>3
    <2>5. ASSUME NEW c \in DOMAIN cols PROVE schema[t].cols[c] = Inferred(Backend, cols[c])
      <3>1. types(c) = {}
        BY <2>2
      <3> QED BY <2>4, <3>1 DEF ReadType
    <2> QED BY <1>2, <2>4, <2>5 DEF cols
  <1> QED BY <1>3, <1>4

LEMMA SettledIndices ==
  ASSUME WorldKnown, IsSchema(Backend, live), NEW source, Settles(source), IsModels(Backend, world.targets[source]),
         NEW schema, Compares(source, schema), NEW t \in DOMAIN schema
  PROVE  /\ \E x \in schema[t].idx : x.pk
         /\ \A x \in schema[t].idx : Range(x.cols) \subseteq DOMAIN live[t].cols
  <1> DEFINE targets == TargetOf(world.targets[source], t)
             candidates == UNION {u.idx : u \in targets}
             observed == AsRead(live[t].idx)
  <1>1. t \in Visible(source) /\ t \in DOMAIN live
    BY ComparesOn DEF Compares
  <1>2. IsTable(live[t]) /\ Clean(live[t]) /\ \E i \in live[t].idx : i.pk
    BY <1>1, SettlesIs DEF IsSchema
  <1>3. observed = live[t].idx
    BY <1>2, PlainAsRead DEF Clean, IsTable
  <1>4. schema[t].idx = NormalIndices(candidates, observed)
    <2>1. schema[t] = NormalTable(live[t].cols, observed, targets)
      BY DEF Compares
    <2> HIDE DEF targets, observed
    <2> QED BY <2>1, NormalTableIs
  <1>5. \A c \in candidates : t \in DOMAIN world.targets[source] /\ c \in world.targets[source][t].idx
    BY DEF TargetOf
  <1>6. ASSUME NEW i \in live[t].idx, i.pk PROVE (\E c \in candidates : ShapeMatches(c, i)) \/ candidates = {}
    <2>1. CASE t \in DOMAIN world.targets[source]
      <3>1. PICK c \in world.targets[source][t].idx : Alike(i, c)
        BY <1>1, <1>6, <2>1, SettlesIs DEF Fits
      <3>2. c \in candidates
        BY <2>1 DEF TargetOf
      <3> QED BY <3>1, <3>2, ShapesAre
    <2>2. CASE t \notin DOMAIN world.targets[source]
      BY <1>5, <2>2
    <2> QED BY <2>1, <2>2
  <1> HIDE DEF candidates, observed, targets
  <1>7. PICK i \in live[t].idx : i.pk
    BY <1>2
  <1>8. ~i.partial
    BY <1>2, <1>7 DEF IsTable
  <1>9. \E x \in NormalIndices(candidates, observed) : x.pk
    <2>1. CASE \E c \in candidates : ShapeMatches(c, i)
      <3>1. PICK c \in candidates : ShapeMatches(c, i) /\ c \in NormalIndices(candidates, observed)
        BY <1>3, <1>7, <1>8, <2>1, NormalIndicesAre
      <3> QED BY <1>7, <3>1 DEF ShapeMatches
    <2>2. CASE candidates = {}
      <3>1. i \in NormalIndices(candidates, observed)
        BY <1>3, <1>7, <1>8, <2>2, NormalIndicesAre DEF Shadow
      <3> QED BY <1>7, <3>1
    <2> QED BY <1>6, <1>7, <2>1, <2>2
  <1>10. ASSUME NEW x \in NormalIndices(candidates, observed) PROVE \E j \in live[t].idx : x.cols = j.cols
    BY <1>3, <1>10, NormalIndicesAre DEF ShapeMatches
  <1>11. \A j \in live[t].idx : Range(j.cols) \subseteq DOMAIN live[t].cols
    BY <1>2 DEF IsTable, Clean
  <1> QED BY <1>4, <1>9, <1>10, <1>11

LEMMA SettledIsNotRefused ==
  ASSUME WorldKnown, IsSchema(Backend, live), NEW source, Settles(source), IsModels(Backend, world.targets[source]),
         NEW schema, Compares(source, schema)
  PROVE  /\ \A read : (read.odd => \E t \in Visible(source) : live[t].odd # {} \/ HasExpression(t))
                         => ~Unsupported(read, schema)
         /\ ~Refused(Diff(schema, world.targets[source], {}))
  <1>1. \A t \in DOMAIN schema :
           /\ \A c \in DOMAIN schema[t].cols : schema[t].cols[c] # Unreadable
           /\ \E x \in schema[t].idx : x.pk
           /\ \A x \in schema[t].idx : Range(x.cols) \subseteq DOMAIN schema[t].cols
    BY SettledColumns, SettledIndices
  <1>2. \A t \in Visible(source) : live[t].odd = {} /\ ~HasExpression(t)
    BY DEF Settles
  <1>3. \A t \in DOMAIN schema \cup DOMAIN world.targets[source] : t \notin world.refused
    BY SettlesIs, AttainableIs DEF Compares
  <1>4. ASSUME NEW s \in Range(Diff(schema, world.targets[source], {})) PROVE s.table \notin world.refused
    <2>1. Called(schema, world.targets[source], s)
      BY <1>4, PlanIs DEF Compares
    <2> QED BY <1>3, <2>1 DEF Called
  <1> QED BY <1>1, <1>2, <1>4 DEF Unsupported, Refused

\* Where nothing is left to do, nothing is called for.
LEMMA SettledIsDone ==
  ASSUME WorldKnown, IsSchema(Backend, live), NEW source, Settles(source), IsModels(Backend, world.targets[source]),
         NEW schema, Compares(source, schema), Due(live, source, {})
  PROVE  Diff(schema, world.targets[source], {}) = <<>>
  <1> DEFINE target == world.targets[source]
             planned == Diff(schema, target, {})
  <1>1. planned \in Seq(Range(planned)) /\ \A s : s \in Range(planned) <=> Called(schema, target, s)
    BY PlanIs DEF Compares
  <1>2. ASSUME NEW s, Called(schema, target, s) PROVE FALSE
    <2> DEFINE t == s.table
    <2>1. t \in DOMAIN schema => t \in DOMAIN target
      BY ComparesOn DEF Due, Surplus, SurplusDue
    <2>2. t \in DOMAIN target => t \in DOMAIN live /\ TableDue(t, live[t], target[t], {})
      BY DEF Due, MissingDue
    <2>3. t \in DOMAIN target => t \in DOMAIN schema /\ ModelFits(t, target[t])
      BY <2>2, SettlesIs, AttainableIs DEF Compares, Visible
    <2>4. t \in DOMAIN target /\ t \in DOMAIN schema
      BY <1>2, <2>1, <2>3 DEF Called
    <2>5. CalledOn(t, schema[t], target[t], s)
      BY <1>2, <2>4 DEF Called, CalledOn
    <2>6. \A i \in live[t].idx : i.pk => Matched(i, target[t])
      BY <2>2, <2>4, SettlesIs DEF KeysFit
    <2>7. schema[t] = NormalOf(live[t], target[t]) /\ \E x \in schema[t].idx : x.pk
      BY <2>4, ComparesOn, SettledIndices
    <2>8. IsTable(live[t])
      BY <2>2, <2>4 DEF IsSchema
    <2> QED BY <2>2, <2>3, <2>4, <2>5, <2>6, <2>7, <2>8, NothingCalledOn
  <1>3. Range(planned) = {}
    BY <1>1, <1>2
  <1> HIDE DEF planned
  <1>4. Len(planned) = 0
    BY <1>1, <1>3 DEF Range
  <1> QED BY <1>1, <1>4 DEF planned

\* Nor is it the other way round, where no two indices have become one.
LEMMA SameCallsNothing ==
  ASSUME NEW from, NEW to, IsFinite(from), IsFinite(to), DOMAIN from = DOMAIN to,
         \A t \in DOMAIN to : SameTable(from[t], to[t]) /\ \A i, j \in from[t].idx : i.name = j.name => i = j
  PROVE  Diff(from, to, {}) = <<>>
  <1> DEFINE d == Diff(from, to, {})
  <1>1. d \in Seq(Range(d)) /\ \A s : s \in Range(d) <=> Called(from, to, s)
    BY PlanIs
  <1>2. ASSUME NEW t \in DOMAIN to
        PROVE  Changed(from[t].idx, to[t].idx) = {} /\ Changed(to[t].idx, from[t].idx) = {}
    <2>1. ASSUME NEW i \in from[t].idx PROVE {j \in from[t].idx : j.name = i.name} = {i}
      OBVIOUS
    <2> QED BY <2>1 DEF Changed, SameTable
  <1>3. ASSUME NEW s, Called(from, to, s) PROVE FALSE
    BY <1>2, <1>3 DEF Called, SameTable
  <1>4. Range(d) = {}
    BY <1>1, <1>3
  <1> HIDE DEF d
  <1>5. Len(d) = 0
    BY <1>1, <1>4 DEF Range
  <1> QED BY <1>1, <1>5 DEF d

LEMMA NothingRepeated ==
  ASSUME IsSchema(Backend, live), NEW source, Settles(source), IsModels(Backend, world.targets[source]),
         NEW read, DOMAIN read.cols = Visible(source), \A t \in Visible(source) : read.idx[t] = AsRead(live[t].idx)
  PROVE  AllRepeated(read, world.targets[source]) = {}
  <1> DEFINE target == world.targets[source]
             candidates(t) == UNION {u.idx : u \in TargetOf(target, t)}
             here(t) == {<<t, c.name>> : c \in Repeated(candidates(t), read.idx[t])}
  <1>1. ASSUME NEW t \in Visible(source), NEW c \in Repeated(candidates(t), read.idx[t]) PROVE FALSE
    <2>1. t \in DOMAIN live /\ IsTable(live[t]) /\ Clean(live[t]) /\ (t \in DOMAIN target => Fits(live[t], target[t]))
      BY SettlesIs DEF Visible, IsSchema
    <2>2. read.idx[t] = live[t].idx
      BY <2>1, PlainAsRead DEF Clean, IsTable
    <2>3. t \in DOMAIN target /\ c \in target[t].idx
      BY <1>1 DEF Repeated, TargetOf
    <2>4. PICK i, j \in live[t].idx :
             i # j /\ ~i.partial /\ ~j.partial /\ ShapeMatches(c, i) /\ ShapeMatches(c, j)
      BY <1>1, <2>2 DEF Repeated
    <2>5. Alike(i, c) /\ Alike(j, c)
      BY <2>4, ShapesAre
    <2> QED BY <2>1, <2>3, <2>4, <2>5 DEF Fits
  <1>2. AllRepeated(read, target) = UNION {here(t) : t \in DOMAIN read.cols}
    BY DEF AllRepeated
  <1>3. \A t \in DOMAIN read.cols : here(t) = {}
    BY <1>1
  <1> HIDE DEF here
  <1>4. AllRepeated(read, target) = {}
    BY <1>2, <1>3
  <1> QED BY <1>4

LEMMA SettledIsVerified ==
  ASSUME WorldKnown, IsSchema(Backend, live), NEW source, Settles(source), IsModels(Backend, world.targets[source]),
         NEW schema, Compares(source, schema), Due(live, source, {})
  PROVE  Diff(world.targets[source], schema, {}) = <<>>
  <1> DEFINE target == world.targets[source]
             none == {}
  <1>1. IsFinite(schema) /\ IsFinite(target)
    BY DEF Compares
  <1>2. Diff(schema, target, none) = <<>> /\ none \in SUBSET ((DOMAIN target) \X Names(target))
    BY SettledIsDone
  <1> HIDE DEF none
  <1>3. DOMAIN schema = DOMAIN target /\ \A t \in DOMAIN target : SameTable(schema[t], target[t])
    BY <1>1, <1>2, NothingCalled
  <1>4. ASSUME NEW t \in DOMAIN target, NEW i \in target[t].idx, NEW j \in target[t].idx, i.name = j.name
        PROVE  i = j
    <2>1. IsModelIndex(i, target[t])
      BY ModelIs
    <2> QED BY <2>1, <1>4 DEF IsModelIndex
  <1>5. \A t \in DOMAIN target : SameTable(target[t], schema[t])
    BY <1>3 DEF SameTable
  <1> HIDE DEF target
  <1>6. \A t \in DOMAIN schema :
           SameTable(target[t], schema[t]) /\ \A i, j \in target[t].idx : i.name = j.name => i = j
    BY <1>3, <1>4, <1>5
  <1>7. Diff(target, schema, {}) = <<>>
    BY <1>1, <1>3, <1>6, SameCallsNothing
  <1> QED BY <1>7 DEF target

-----------------------------------------------------------------------------
(* A call alone: what is left of its plan is what is left to do              *)

\* The plan of a call that nobody has written during: made and not yet executed, or executed and
\* now verified.
Owes(p) ==
    pc[p] \in Planned \/ (pc[p] # "idle" /\ job[p].verify) =>
        /\ job[p].verify => plan[p] = <<>>
        /\ since[p] = "nobody" /\ Attainable(Source(p)) /\ KeysFit(live, Source(p)) =>
              Due(live, Source(p), Range(plan[p]))

Unsettled(p) ==
    result[p].is \in {"incomplete", "failed", "refused"} /\ since[p] = "nobody" => ~Settles(result[p].source)

SettledInv == SyncedInv /\ \A p \in Processes : Owes(p) /\ Unsettled(p)

\* As long as nobody writes.
LEMMA DueStays ==
  ASSUME world' = world
  PROVE  /\ \A source : Attainable(source)' <=> Attainable(source)
         /\ \A schema, source : KeysFit(schema, source)' <=> KeysFit(schema, source)
         /\ \A schema, source, left : Due(schema, source, left)' <=> Due(schema, source, left)
  <1>1. Backend' = Backend
    BY DEF Backend
  <1>2. \A source, t : (IsManaged(source, t)' <=> IsManaged(source, t)) /\ Internal' = Internal /\ PrimaryName(t)' = PrimaryName(t)
    BY <1>1 DEF IsManaged, Internal, PrimaryName
  <1>3. \A source : Attainable(source)' <=> Attainable(source)
    BY SMTT(30) DEF Attainable, OwnNames, IsManaged, Internal, PrimaryName, Backend
  <1>4. \A schema, source : KeysFit(schema, source)' <=> KeysFit(schema, source)
    BY DEF KeysFit
  <1>5. \A schema, source : Surplus(schema, source)' = Surplus(schema, source)
    BY <1>2 DEF Surplus
  <1>6. \A t, table, model, left : TableDue(t, table, model, left)' <=> TableDue(t, table, model, left)
    BY <1>1 DEF TableDue, ColumnsDue, ReadsAs
  <1>7. \A schema, source, left : Due(schema, source, left)' <=> Due(schema, source, left)
    BY <1>5, <1>6 DEF Due
  <1> QED BY <1>3, <1>4, <1>7

LEMMA SettlesStays ==
  ASSUME IInv, world' = world, live' = live
  PROVE  \A source : Settles(source)' <=> Settles(source)
  <1>1. \A source : Attainable(source)' <=> Attainable(source)
    BY DueStays
  <1> SUFFICES ASSUME NEW source PROVE Settles(source)' <=> Settles(source)
    OBVIOUS
  <1>2. Visible(source)' = Visible(source) /\ Backend' = Backend /\ \A t : HasExpression(t)' <=> HasExpression(t)
    BY ViewStays
  <1>3. \A table, target : Fits(table, target)' <=> Fits(table, target)
    BY <1>2 DEF Fits
  <1> QED BY <1>1, <1>2, <1>3 DEF Settles, OwnNames

LEMMA OwesOn ==
  ASSUME NEW p \in Processes, world' = world, job'[p].todo = job[p].todo,
         job'[p].verify => plan'[p] = <<>>,
         since'[p] = "nobody" /\ Attainable(Source(p)) /\ KeysFit(live', Source(p)) =>
            Due(live', Source(p), Range(plan'[p]))
  PROVE  Owes(p)'
  <1>1. Source(p)' = Source(p)
    BY DEF Source
  <1>2. since'[p] = "nobody" /\ Attainable(Source(p))' /\ KeysFit(live, Source(p))' => Due(live, Source(p), Range(plan[p]))'
    BY <1>1, DueStays
  <1> QED BY <1>2 DEF Owes

LEMMA OthersOwing ==
  ASSUME SettledInv, NEW q \in Processes, world' = world,
         pc'[q] = pc[q], job'[q] = job[q], plan'[q] = plan[q], result'[q] = result[q],
         (live' = live /\ since'[q] = since[q]) \/ since'[q] = "others"
  PROVE  Owes(q)' /\ Unsettled(q)'
  <1>1. IInv /\ Owes(q) /\ Unsettled(q)
    BY DEF SettledInv, SyncedInv
  <1>2. Unsettled(q)'
    BY <1>1, SettlesStays DEF Unsettled
  <1>3. CASE pc[q] \in Planned \/ (pc[q] # "idle" /\ job[q].verify)
    BY <1>1, <1>2, <1>3, OwesOn DEF Owes
  <1>4. CASE ~(pc[q] \in Planned \/ (pc[q] # "idle" /\ job[q].verify))
    BY <1>2, <1>4 DEF Owes
  <1> QED BY <1>3, <1>4

\* The source of a call, and its schema.
LEMMA SourceKnown ==
  ASSUME IInv, NEW p \in Processes, pc[p] # "idle"
  PROVE  /\ WorldKnown /\ IsSchema(Backend, live) /\ IsModels(Backend, world.targets[Source(p)])
         /\ Target(p) = world.targets[Source(p)]
  BY SourceIs DEF IInv, WorldOK, Target

\* A key that is there was there before.
LEMMA KeysFitBefore ==
  ASSUME NEW source, NEW a, NEW b, Evolves(source, a, b), KeysFit(b, source)
  PROVE  KeysFit(a, source)
  BY DEF Evolves, KeysStay, KeysFit

\* The ends, the reads and what else writes nothing.
LEMMA EndOwes ==
  ASSUME Types, NEW p \in Processes, NEW outcome, EndSource(p, outcome)
  PROVE  Owes(p)'
  <1> DEFINE rest == IF outcome \in {"unchanged", "planned", "synced"} THEN Tail(job[p].todo) ELSE <<>>
             at == IF rest = <<>> THEN "idle" ELSE "inspect"
             new == IF rest = <<>> THEN NoJob ELSE [job[p] EXCEPT !.todo = rest, !.verify = FALSE]
  <1>1. job' = [job EXCEPT ![p] = new] /\ pc' = [pc EXCEPT ![p] = at]
    BY DEF EndSource, Goto
  <1>2. at = "inspect" => ~new.verify
    <2>1. job[p] \in Jobs
      BY DEF Types
    <2> QED BY <2>1 DEF Jobs
  <1>3. at \in {"idle", "inspect"}
    OBVIOUS
  <1> HIDE DEF new, at
  <1>4. pc'[p] = at /\ job'[p] = new
    BY <1>1 DEF Types
  <1> QED BY <1>2, <1>3, <1>4 DEF Owes, Planned

LEMMA KeepsOwing ==
  ASSUME SettledInv, NEW p \in Processes, pc[p] # "idle", pc'[p] \in Planned => pc[p] \in Planned,
         UNCHANGED <<world, live, job, plan>>,
         since'[p] = "nobody" /\ (pc[p] \in Planned \/ job[p].verify) => since[p] = "nobody"
  PROVE  Owes(p)'
  <1>1. Owes(p)
    BY DEF SettledInv
  <1>2. CASE pc[p] \in Planned \/ job[p].verify
    BY <1>1, <1>2, OwesOn DEF Owes
  <1>3. CASE ~(pc[p] \in Planned \/ job[p].verify)
    BY <1>3 DEF Owes
  <1> QED BY <1>2, <1>3

LEMMA DecideOwes ==
  ASSUME SettledInv, NEW p \in Processes, Decide(p)
  PROVE  Owes(p)'
  <1> DEFINE schema == Normalised(seen[p], Target(p))
             planned == Diff(schema, Target(p), {})
  <1>1. Types /\ IInv /\ Mirrors(p) /\ pc[p] = "decide" /\ UNCHANGED <<world, live, since>>
    BY DEF SettledInv, SyncedInv, IInv, Decide, KeepSchema
  <1>2. \/ \E outcome : EndSource(p, outcome)
        \/ /\ ~Unsupported(seen[p], schema) /\ ~job[p].verify
           /\ plan' = [plan EXCEPT ![p] = planned] /\ job' = job
    BY DEF Decide
  <1>3. CASE \E outcome : EndSource(p, outcome)
    BY <1>1, <1>3, EndOwes
  <1>4. CASE /\ ~Unsupported(seen[p], schema) /\ ~job[p].verify
             /\ plan' = [plan EXCEPT ![p] = planned] /\ job' = job
    <2>1. \A t \in DOMAIN schema : \E x \in schema[t].idx : x.pk
      BY <1>4 DEF Unsupported
    <2>2. since[p] = "nobody" => Compares(Source(p), schema)
      BY <1>1, DecideCompares DEF Mirrors, Reading
    <2>3. /\ WorldKnown /\ IsSchema(Backend, live) /\ IsModels(Backend, world.targets[Source(p)])
          /\ Target(p) = world.targets[Source(p)]
      BY <1>1, SourceKnown
    <2> HIDE DEF schema
    <2>4. since[p] = "nobody" /\ Attainable(Source(p)) /\ KeysFit(live, Source(p)) => Due(live, Source(p), Range(planned))
      BY <2>1, <2>2, <2>3, DecidedIsDue
    <2>5. plan'[p] = planned
      BY <1>1, <1>4 DEF Types
    <2> HIDE DEF planned
    <2> QED BY <1>1, <1>4, <2>4, <2>5, OwesOn
  <1> QED BY <1>2, <1>3, <1>4

LEMMA WritePlanOwes ==
  ASSUME SettledInv, NEW p \in Processes, WritePlan(p)
  PROVE  Owes(p)'
  <1> DEFINE done == ExecuteAll(live, Target(p), plan[p])
             source == Source(p)
  <1>1. Types /\ IInv /\ Owes(p) /\ pc[p] = "write" /\ world' = world
    BY DEF SettledInv, SyncedInv, IInv, WritePlan
  <1>2. /\ WorldKnown /\ IsSchema(Backend, live) /\ IsModels(Backend, world.targets[source])
        /\ Target(p) = world.targets[source] /\ IsPlan(source, plan[p])
    BY <1>1, SourceKnown, PlannedKnows DEF Planned
  <1>3. Evolves(source, live, done[1])
    BY <1>2, ExecuteAllEvolves
  <1>4. Attainable(source) /\ Due(live, source, Range(plan[p])) /\ done[2] => Due(done[1], source, {})
    BY <1>2, PlanDoes
  <1> HIDE DEF done
  <1>5. EndSource(p, "failed") \/ (done[2] /\ Write(p, done[1]) /\ Verify(p))
    BY DEF WritePlan, done
  <1>6. CASE done[2] /\ Write(p, done[1]) /\ Verify(p)
    <2>1. live' = done[1] /\ since'[p] = since[p]
      BY <1>1, <1>6, WriteSince
    <2>2. plan'[p] = <<>> /\ job'[p].todo = job[p].todo
      <3>1. job[p] \in Jobs /\ job' = [job EXCEPT ![p] = [job[p] EXCEPT !.verify = TRUE]] /\ plan' = [plan EXCEPT ![p] = <<>>]
        BY <1>1, <1>6 DEF Types, Verify
      <3> QED BY <1>1, <3>1 DEF Types, Jobs
    <2>3. Range(plan'[p]) = {}
      BY <2>2 DEF Range
    <2>4. since[p] = "nobody" /\ Attainable(source) /\ KeysFit(live, source) => Due(live, source, Range(plan[p]))
      BY <1>1 DEF Owes, Planned
    <2>5. KeysFit(done[1], source) => KeysFit(live, source)
      BY <1>3, KeysFitBefore
    <2>6. since'[p] = "nobody" /\ Attainable(source) /\ KeysFit(live', source) => Due(live', source, Range(plan'[p]))
      BY <1>4, <1>6, <2>1, <2>3, <2>4, <2>5
    <2> QED BY <1>1, <2>2, <2>6, OwesOn
  <1> QED BY <1>1, <1>5, <1>6, EndOwes

LEMMA ExecuteNextOwes ==
  ASSUME SettledInv, NEW p \in Processes, ExecuteNext(p)
  PROVE  Owes(p)'
  <1> DEFINE done == Execute(live, Target(p), Head(plan[p]))
             source == Source(p)
  <1>1. Types /\ IInv /\ Owes(p) /\ pc[p] = "statement" /\ world' = world
    BY DEF SettledInv, SyncedInv, IInv, ExecuteNext
  <1>2. /\ WorldKnown /\ IsSchema(Backend, live) /\ IsModels(Backend, world.targets[source])
        /\ Target(p) = world.targets[source] /\ IsPlan(source, plan[p])
    BY <1>1, SourceKnown, PlannedKnows DEF Planned
  <1>3. ASSUME plan[p] # <<>> PROVE Evolves(source, live, done[1])
    <2>1. Head(plan[p]) = plan[p][1] /\ 1 \in 1..Len(plan[p])
      BY <1>2, <1>3 DEF IsPlan
    <2>2. Proper(source, Head(plan[p]))
      BY <1>2, <2>1 DEF IsPlan
    <2> QED BY <1>2, <2>2, ExecuteEvolves
  <1>4. plan[p] # <<>> /\ Attainable(source) /\ Due(live, source, Range(plan[p])) /\ done[2] =>
           Due(done[1], source, Range(Tail(plan[p])))
    BY <1>2, HeadDoes
  <1>5. since[p] = "nobody" /\ Attainable(source) /\ KeysFit(live, source) => Due(live, source, Range(plan[p]))
    BY <1>1 DEF Owes, Planned
  <1> HIDE DEF done
  <1>6. \/ EndSource(p, "failed")
        \/ plan[p] = <<>> /\ Verify(p) /\ UNCHANGED <<live, since>>
        \/ /\ plan[p] # <<>> /\ done[2] /\ Write(p, done[1])
           /\ plan' = [plan EXCEPT ![p] = Tail(@)] /\ UNCHANGED <<pc, job>>
    BY DEF ExecuteNext, done
  <1>7. CASE plan[p] = <<>> /\ Verify(p) /\ UNCHANGED <<live, since>>
    <2>1. plan'[p] = <<>> /\ job'[p].todo = job[p].todo
      <3>1. job[p] \in Jobs /\ job' = [job EXCEPT ![p] = [job[p] EXCEPT !.verify = TRUE]] /\ plan' = [plan EXCEPT ![p] = <<>>]
        BY <1>1, <1>7 DEF Types, Verify
      <3> QED BY <1>1, <3>1 DEF Types, Jobs
    <2>2. since'[p] = "nobody" /\ Attainable(source) /\ KeysFit(live', source) => Due(live', source, Range(plan'[p]))
      BY <1>5, <1>7, <2>1
    <2> QED BY <1>1, <2>1, <2>2, OwesOn
  <1>8. CASE /\ plan[p] # <<>> /\ done[2] /\ Write(p, done[1])
             /\ plan' = [plan EXCEPT ![p] = Tail(@)] /\ UNCHANGED <<pc, job>>
    <2>1. live' = done[1] /\ since'[p] = since[p]
      BY <1>1, <1>8, WriteSince
    <2>2. plan'[p] = Tail(plan[p]) /\ ~job[p].verify
      BY <1>1, <1>8 DEF Types, Owes, Planned
    <2>3. KeysFit(done[1], source) => KeysFit(live, source)
      BY <1>3, <1>8, KeysFitBefore
    <2>4. since'[p] = "nobody" /\ Attainable(source) /\ KeysFit(live', source) => Due(live', source, Range(plan'[p]))
      BY <1>4, <1>5, <1>8, <2>1, <2>2, <2>3
    <2> QED BY <1>1, <1>8, <2>2, <2>4, OwesOn
  <1> QED BY <1>1, <1>6, <1>7, <1>8, EndOwes

LEMMA StepOwes == ASSUME SettledInv, NEW p \in Processes, Step(p) PROVE Owes(p)'
  <1>1. Types
    BY DEF SettledInv, SyncedInv, IInv
  <1>2. CASE Call(p)
    <2>1. pc'[p] = "inspect" /\ ~job'[p].verify
      BY <1>1, <1>2 DEF Types, Call, Goto
    <2> QED BY <2>1 DEF Owes, Planned
  <1>3. CASE ReadNames(p) \/ ReadColumns(p)
    <2>1. /\ pc[p] = "inspect" /\ pc'[p] \in {"table", "indices"} /\ Fresh(p)
          /\ UNCHANGED <<world, live, job, plan>>
      BY <1>1, <1>3 DEF Types, ReadNames, ReadColumns, Goto
    <2>2. since'[p] = "nobody" /\ job[p].verify => since[p] = "nobody"
      BY <1>1, <2>1 DEF Fresh, Types
    <2> QED BY <2>1, <2>2, KeepsOwing DEF Planned
  <1>4. CASE ReadTable(p) \/ ReadTableIndices(p) \/ ReadIndices(p) \/ ReadConstraints(p)
    <2>1. /\ pc[p] # "idle" /\ pc'[p] \in {"decide", "table", "table_indices", "constraints"}
          /\ UNCHANGED <<world, live, job, plan, since>>
      BY <1>1, <1>4 DEF Types, ReadTable, ReadTableIndices, ReadIndices, ReadConstraints, Goto, KeepSchema
    <2> QED BY <2>1, KeepsOwing DEF Planned
  <1>5. CASE Lock(p) \/ CheckMarkers(p)
    <2>1. pc[p] \in {"lock", "markers"} /\ UNCHANGED <<world, live, since>>
          /\ ((\E outcome : EndSource(p, outcome)) \/ UNCHANGED <<job, plan>>)
      BY <1>5 DEF Lock, CheckMarkers, KeepSchema
    <2> QED BY <1>1, <2>1, EndOwes, KeepsOwing DEF Planned
  <1>6. CASE Fail(p)
    BY <1>1, <1>6, EndOwes DEF Fail
  <1> QED BY <1>2, <1>3, <1>4, <1>5, <1>6, DecideOwes, WritePlanOwes, ExecuteNextOwes DEF Step

\* A call that nobody has disturbed does not end otherwise than well on a schema that settles.
LEMMA EndsUnsettled ==
  ASSUME SettledInv, NEW p \in Processes, pc[p] # "idle", NEW outcome \in {"incomplete", "failed", "refused"},
         Ends(p, outcome), since[p] = "nobody"
  PROVE  ~Settles(Source(p))
  <1> DEFINE schema == Normalised(seen[p], Target(p))
             planned == Diff(schema, Target(p), {})
             source == Source(p)
  <1> SUFFICES ASSUME Settles(source) PROVE FALSE
    OBVIOUS
  <1>1. IInv /\ Owes(p) /\ Mirrors(p)
    BY DEF SettledInv, SyncedInv
  <1>2. /\ WorldKnown /\ IsSchema(Backend, live) /\ IsModels(Backend, world.targets[source])
        /\ Target(p) = world.targets[source]
    BY <1>1, SourceKnown
  <1>3. Attainable(source) /\ KeysFit(live, source) /\ Ready(live, source) /\ world.markers = "none"
    BY <1>2, SettlesIs DEF Attainable
  <1>4. ASSUME pc[p] = "decide"
        PROVE  Compares(source, schema) /\ (seen[p].odd => \E t \in Visible(source) : live[t].odd # {} \/ HasExpression(t))
    <2>1. MirrorsAt("decide", seen[p], Visible(source))
      BY <1>1, <1>4 DEF Mirrors, Reading
    <2> QED BY <1>1, <1>4, <2>1, DecideCompares DEF MirrorsAt
  <1>5. pc[p] \in Planned \/ job[p].verify =>
           (job[p].verify => plan[p] = <<>>) /\ Due(live, source, Range(plan[p]))
    BY <1>1, <1>3 DEF Owes
  <1>6. /\ outcome = "incomplete" => pc[p] = "decide" /\ job[p].verify /\ Differences(p) # <<>>
        /\ outcome = "refused" => pc[p] = "decide" /\ (Unsupported(seen[p], schema) \/ Refused(planned))
        /\ outcome = "failed" =>
              \/ pc[p] = "write" /\ ~ExecuteAll(live, Target(p), plan[p])[2]
              \/ pc[p] = "statement" /\ plan[p] # <<>> /\ ~Execute(live, Target(p), Head(plan[p]))[2]
    BY <1>3 DEF Ends
  <1>7. ~(pc[p] = "decide" /\ (Unsupported(seen[p], schema) \/ Refused(planned)))
    <2> HIDE DEF schema
    <2> QED BY <1>2, <1>4, SettledIsNotRefused
  <1>8. ~(pc[p] = "decide" /\ job[p].verify /\ Differences(p) # <<>>)
    <2> SUFFICES ASSUME pc[p] = "decide", job[p].verify PROVE Differences(p) = <<>>
      OBVIOUS
    <2>1. Range(<<>>) = {}
      BY DEF Range
    <2>2. Due(live, source, {})
      BY <1>5, <2>1
    <2>3. MirrorsAt("decide", seen[p], Visible(source))
      BY <1>1 DEF Mirrors, Reading
    <2>4. DOMAIN seen[p].cols = Visible(source)
      <3>1. IsReading(source, "decide", seen[p]) /\ IsFinite(Target(p))
        BY <1>1, <1>2 DEF IInv, CallOK, Reading, IsModels, IsTable, IsFinite
      <3>2. DOMAIN schema = DOMAIN seen[p].cols
        BY <3>1, NormalisedIsFinite DEF IsReading
      <3> HIDE DEF schema
      <3> QED BY <1>4, <3>2 DEF Compares
    <2>5. \A t \in Visible(source) : seen[p].idx[t] = AsRead(live[t].idx)
      BY <2>3, <2>4 DEF MirrorsAt, IndicesOf, Visible
    <2>6. AllRepeated(seen[p], Target(p)) = {}
      BY <1>2, <2>4, <2>5, NothingRepeated
    <2>7. Diff(Target(p), schema, {}) = <<>>
      <3> HIDE DEF schema
      <3> QED BY <1>2, <1>4, <2>2, SettledIsVerified
    <2> QED BY <2>6, <2>7 DEF Differences
  <1>9. pc[p] \in Planned => IsPlan(source, plan[p]) /\ Due(live, source, Range(plan[p]))
    BY <1>1, <1>5, PlannedKnows
  <1>10. ~(pc[p] = "write" /\ ~ExecuteAll(live, Target(p), plan[p])[2])
    BY <1>2, <1>3, <1>9, PlanDoes DEF Planned
  <1>11. ~(pc[p] = "statement" /\ plan[p] # <<>> /\ ~Execute(live, Target(p), Head(plan[p]))[2])
    BY <1>2, <1>3, <1>9, HeadDoes DEF Planned
  <1> QED BY <1>6, <1>7, <1>8, <1>10, <1>11

LEMMA StepUnsettled == ASSUME SettledInv, NEW p \in Processes, Step(p) PROVE Unsettled(p)'
  <1>1. SyncedInv /\ IInv /\ DOMAIN result = Processes
    BY DEF SettledInv, SyncedInv
  <1>2. CASE result'[p].is = "none"
    BY <1>2 DEF Unsettled
  <1>3. ASSUME NEW outcome, EndSource(p, outcome), UNCHANGED <<live, since, world>>, Ends(p, outcome)
        PROVE  Unsettled(p)'
    <2>1. result'[p] = [is |-> outcome, source |-> Source(p)]
      BY <1>1, <1>3 DEF EndSource
    <2>2. CASE outcome \in {"incomplete", "failed", "refused"} /\ since[p] = "nobody"
      <3>1. pc[p] # "idle"
        BY <1>3, <2>2 DEF Ends
      <3>2. ~Settles(Source(p))
        BY <1>3, <2>2, <3>1, EndsUnsettled
      <3>3. \A source : Settles(source)' <=> Settles(source)
        BY <1>1, <1>3, SettlesStays
      <3> QED BY <2>1, <3>2, <3>3 DEF Unsettled
    <2>3. CASE ~(outcome \in {"incomplete", "failed", "refused"} /\ since[p] = "nobody")
      BY <1>3, <2>1, <2>3 DEF Unsettled
    <2> QED BY <2>2, <2>3
  <1> QED BY <1>1, <1>2, <1>3, StepEnds

LEMMA SettledInvStep == SettledInv /\ [Next]_vars => SettledInv'
  <1> SUFFICES ASSUME SettledInv, [Next]_vars PROVE SettledInv'
    OBVIOUS
  <1>1. SyncedInv'
    BY SyncedInvStep DEF SettledInv
  <1>2. ASSUME NEW p \in Processes, Step(p) PROVE SettledInv'
    <2>1. IInv /\ DOMAIN result = Processes
      BY DEF SettledInv, SyncedInv
    <2>2. Owes(p)' /\ Unsettled(p)'
      BY <1>2, StepOwes, StepUnsettled
    <2>3. ASSUME NEW q \in Processes \ {p} PROVE Owes(q)' /\ Unsettled(q)'
      BY <1>2, <2>1, StepLeaves, OthersOwing
    <2> QED BY <1>1, <2>2, <2>3 DEF SettledInv
  <1>3. CASE Foreign
    <2>1. /\ UNCHANGED <<world, pc, job, plan, result>>
          /\ \A q \in Processes : since'[q] = "others"
      BY <1>3 DEF Foreign, SettledInv, SyncedInv, IInv, Types
    <2> QED BY <1>1, <2>1, OthersOwing DEF SettledInv
  <1>4. CASE UNCHANGED vars
    BY <1>1, <1>4, OthersOwing DEF SettledInv, vars
  <1> QED BY <1>2, <1>3, <1>4 DEF Next

LEMMA SettledInvInit == Init => SettledInv
  <1> SUFFICES ASSUME Init PROVE SettledInv
    OBVIOUS
  <1>1. \A p \in Processes : pc[p] = "idle" /\ result[p] = NoResult
    BY DEF Init
  <1> QED BY <1>1, SyncedInvInit DEF SettledInv, Owes, Unsettled, Planned, NoResult

\* For any number of processes and sources, any plan and any order of the indices, tables and
\* columns in it: a call that nobody disturbs does not refuse, fail or end incomplete on a schema
\* that the models can be brought to - the plan that it makes is all that is to do, each of its
\* statements can be executed when its turn comes and leaves the rest to do, and where nothing is
\* left to do the second comparison asks for nothing.
THEOREM SyncSettles == Spec => []SyncAloneSettles
  <1>1. Init => SettledInv
    BY SettledInvInit
  <1>2. SettledInv /\ [Next]_vars => SettledInv'
    BY SettledInvStep
  <1>3. SettledInv => SyncAloneSettles
    BY DEF SettledInv, Unsettled, SyncAloneSettles
  <1> QED BY <1>1, <1>2, <1>3, PTL DEF Spec
-----------------------------------------------------------------------------
(* The splitter                                                              *)

Kinds == {"normal", "single", "double", "dollar", "line", "block"}
States == [is : Kinds, escapes : BOOLEAN, delimiter : Seq(STRING), depth : Nat]

-----------------------------------------------------------------------------
(* The inductive invariant                                                   *)

StateOK ==
    /\ sample \in Samples
    /\ state \in States
    /\ state.is = "block" <=> state.depth > 0

\* A statement with code in it has at least one character.
Position ==
    /\ index \in 1..(Len(Text) + 1)
    /\ start \in 1..index
    /\ has_code \in BOOLEAN
    /\ has_code => start < index
    /\ phase \in {"scan", "done", "refused"}

\* While the scan goes on, the statements found end before the next one starts.
Apart ==
    /\ statements \in Seq(Nat \X Nat)
    /\ \A i \in DOMAIN statements : statements[i][1] <= statements[i][2] /\ statements[i][2] <= Len(Text)
    /\ \A i, j \in DOMAIN statements : i < j => statements[i][2] < statements[j][1]
    /\ phase = "scan" => \A i \in DOMAIN statements : statements[i][2] < start

SplitInv == StateOK /\ Position /\ Apart

LEMMA SplitInvImplies == SplitInv => TypeOK
  BY DEF SplitInv, StateOK, Position, Apart, TypeOK, States, Kinds

LEMMA TextType == ASSUME StateOK PROVE Text \in Seq(STRING) /\ Len(Text) \in Nat
  BY SamplesAssumption DEF StateOK, Text

LEMMA SplitInitInv == SplitInit => SplitInv
  <1> SUFFICES ASSUME SplitInit PROVE SplitInv
    OBVIOUS
  <1>1. StateOK
    BY DEF SplitInit, StateOK, States, Kinds, Normal
  <1>2. Position
    <2>1. Len(Text) \in Nat
      BY <1>1, TextType
    <2>2. index = 1 /\ start = 1 /\ has_code = FALSE /\ phase = "scan"
      BY DEF SplitInit
    <2>3. 1 \in 1..(Len(Text) + 1) /\ 1 \in 1..1
      BY <2>1
    <2> QED BY <2>2, <2>3 DEF Position
  <1>3. Apart
    <2>1. statements = <<>> /\ statements \in Seq(Nat \X Nat) /\ DOMAIN statements = {}
      BY DEF SplitInit
    <2> QED BY <2>1 DEF Apart
  <1> QED BY <1>1, <1>2, <1>3 DEF SplitInv

-----------------------------------------------------------------------------
(* Steps of the scan                                                         *)

\* A step that finds no statement keeps the invariant, as long as it stays within the
\* text; code that it reads is behind the start.
LEMMA GoesOn ==
  ASSUME SplitInv, phase = "scan", index <= Len(Text), NEW n \in Nat, Skip(n), index + n <= Len(Text) + 1,
         state' \in States, state'.is = "block" <=> state'.depth > 0,
         has_code' \in BOOLEAN, has_code' => has_code \/ n > 0, NoBreak, Stay
  PROVE  SplitInv'
  <1>1. StateOK' /\ Text' = Text
    BY DEF SplitInv, StateOK, Stay, Text
  <1>2. Len(Text) \in Nat
    BY TextType DEF SplitInv
  <1>3. Position'
    BY <1>1, <1>2 DEF SplitInv, Position, Skip, Stay, NoBreak
  <1>4. Apart'
    BY <1>1 DEF SplitInv, Apart, Stay, NoBreak
  <1> QED BY <1>1, <1>3, <1>4 DEF SplitInv

\* The statement that ends before "last", if it has code, lies behind the others.
LEMMA FoundApart ==
  ASSUME SplitInv, phase = "scan", NEW last \in Nat, index <= last, last <= Len(Text) + 1
  PROVE  /\ Found(last) \in Seq(Nat \X Nat)
         /\ \A i \in DOMAIN Found(last) :
               /\ Found(last)[i][1] <= Found(last)[i][2]
               /\ Found(last)[i][2] < last
         /\ \A i, j \in DOMAIN Found(last) : i < j => Found(last)[i][2] < Found(last)[j][1]
  <1>1. Len(Text) \in Nat /\ start \in Nat /\ index \in Nat /\ start <= index
    BY TextType DEF SplitInv, Position
  <1>2. CASE ~has_code
    <2>1. Found(last) = statements
      BY <1>2 DEF Found
    <2> QED BY <2>1, <1>1 DEF SplitInv, Apart
  <1>3. CASE has_code
    <2> DEFINE new == <<start, last - 1>>
    <2>1. new \in Nat \X Nat /\ new[1] <= new[2] /\ new[2] < last
      BY <1>1, <1>3 DEF SplitInv, Position
    <2>2. Found(last) = Append(statements, new)
      BY <1>3 DEF Found
    <2>3. statements \in Seq(Nat \X Nat)
      BY DEF SplitInv, Apart
    <2>4. /\ Append(statements, new) \in Seq(Nat \X Nat)
          /\ DOMAIN Append(statements, new) = 1..(Len(statements) + 1)
          /\ DOMAIN statements = 1..Len(statements) /\ Len(statements) \in Nat
          /\ Append(statements, new)[Len(statements) + 1] = new
          /\ \A i \in DOMAIN statements : Append(statements, new)[i] = statements[i]
      BY <2>1, <2>3
    <2>5. \A i \in DOMAIN statements :
             /\ statements[i] \in Nat \X Nat
             /\ statements[i][1] <= statements[i][2] /\ statements[i][2] < start
      BY <2>3 DEF SplitInv, Apart
    <2>6. \A i, j \in DOMAIN statements : i < j => statements[i][2] < statements[j][1]
      BY DEF SplitInv, Apart
    <2> HIDE DEF new
    <2>7. \A i \in 1..(Len(statements) + 1) : i \in DOMAIN statements \/ i = Len(statements) + 1
      BY <2>4
    <2>8. new[1] = start
      BY DEF new
    <2>9. \A i \in DOMAIN Append(statements, new) :
             /\ Append(statements, new)[i][1] <= Append(statements, new)[i][2]
             /\ Append(statements, new)[i][2] < last
      BY <2>1, <2>4, <2>5, <2>7, <1>1
    <2>10. ASSUME NEW i \in DOMAIN Append(statements, new), NEW j \in DOMAIN Append(statements, new), i < j
           PROVE  Append(statements, new)[i][2] < Append(statements, new)[j][1]
      <3>1. i \in DOMAIN statements
        BY <2>4, <2>10
      <3>2. CASE j \in DOMAIN statements
        BY <3>1, <3>2, <2>4, <2>6, <2>10
      <3>3. CASE j = Len(statements) + 1
        BY <3>1, <3>3, <2>4, <2>5, <2>8
      <3> QED BY <3>2, <3>3, <2>4, <2>7
    <2> QED BY <2>2, <2>4, <2>9, <2>10
  <1> QED BY <1>2, <1>3 DEF SplitInv, Position

-----------------------------------------------------------------------------
(* One lemma per action                                                      *)

LEMMA StateTypes ==
  /\ Normal \in States
  /\ \A what \in Kinds : In(what) \in States /\ In(what).is = what /\ In(what).depth = 0
  /\ Normal.is = "normal" /\ Normal.depth = 0
  <1>1. <<>> \in Seq(STRING)
    OBVIOUS
  <1>2. Normal \in States /\ Normal.is = "normal" /\ Normal.depth = 0
    BY <1>1 DEF Normal, States, Kinds
  <1>3. ASSUME NEW what \in Kinds
        PROVE  In(what) \in States /\ In(what).is = what /\ In(what).depth = 0
    BY <1>2 DEF In, States
  <1> QED BY <1>2, <1>3

\* What the scanner sees at a place is there.
LEMMA Seen ==
  ASSUME StateOK, NEW i \in Nat, At(i) # "none"
  PROVE  i <= Len(Text)
  <1>1. At(i) = IF i \in 1..Len(Text) THEN Text[i] ELSE "none"
    BY DEF At
  <1> QED BY <1>1, TextType

LEMMA DelimiterFits ==
  ASSUME StateOK, NEW i \in Nat \ {0}, i <= Len(Text), NEW d \in Delimiters(i)
  PROVE  d \in Seq(STRING) /\ Len(d) \in Nat \ {0} /\ i + Len(d) <= Len(Text) + 1
  <1>1. PICK j \in (i + 1)..Len(Text) : d = SubSeq(Text, i, j)
    BY DEF Delimiters
  <1>2. Text \in Seq(STRING) /\ Len(Text) \in Nat
    BY TextType
  <1>3. j \in 1..Len(Text)
    BY <1>2
  <1>4. SubSeq(Text, i, j) \in Seq(STRING) /\ Len(SubSeq(Text, i, j)) = j - i + 1
    BY <1>2, <1>3
  <1> QED BY <1>1, <1>2, <1>4

LEMMA ScanNormalInv == ASSUME SplitInv, ScanNormal PROVE SplitInv'
  <1>1. phase = "scan" /\ index <= Len(Text) /\ Stay /\ state.is = "normal"
    BY DEF ScanNormal, Scanning
  <1>2. Len(Text) \in Nat /\ index \in Nat \ {0} /\ has_code \in BOOLEAN /\ start <= index /\ StateOK
    BY TextType DEF SplitInv, Position
  <1>3. state \in States /\ (state.is = "block" <=> state.depth > 0)
    BY DEF SplitInv, StateOK
  <1>4. CASE At(index) = "-" /\ At(index + 1) = "-" /\ state' = In("line") /\ Skip(2)
             /\ UNCHANGED has_code /\ NoBreak
    <2>1. index + 1 <= Len(Text)
      BY <1>2, <1>4, Seen
    <2>2. state' \in States /\ ~(state'.is = "block") /\ ~(state'.depth > 0)
      BY <1>4, StateTypes DEF Kinds
    <2> QED BY <1>1, <1>2, <1>4, <2>1, <2>2, GoesOn
  <1>5. CASE At(index) = "/" /\ At(index + 1) = "*" /\ state' = [In("block") EXCEPT !.depth = 1] /\ Skip(2)
             /\ UNCHANGED has_code /\ NoBreak
    <2>1. index + 1 <= Len(Text)
      BY <1>2, <1>5, Seen
    <2>2. state' \in States /\ state'.is = "block" /\ state'.depth > 0
      <3>1. In("block") \in States /\ In("block").is = "block" /\ In("block").depth = 0
        BY StateTypes DEF Kinds
      <3> QED BY <1>5, <3>1 DEF States
    <2> QED BY <1>1, <1>2, <1>5, <2>1, <2>2, GoesOn
  <1>6. CASE At(index) = "'" /\ state' = [In("single") EXCEPT !.escapes = EscapesAt(index)] /\ Skip(1)
             /\ has_code' = TRUE /\ NoBreak
    <2>1. EscapesAt(index) \in BOOLEAN
      BY DEF EscapesAt
    <2>2. state' \in States /\ ~(state'.is = "block") /\ ~(state'.depth > 0)
      <3>1. In("single") \in States /\ In("single").is = "single" /\ In("single").depth = 0
        BY StateTypes DEF Kinds
      <3> QED BY <1>6, <2>1, <3>1 DEF States
    <2> QED BY <1>1, <1>2, <1>6, <2>2, GoesOn
  <1>7. CASE state' = In("double") /\ Skip(1) /\ has_code' = TRUE /\ NoBreak
    <2>1. state' \in States /\ ~(state'.is = "block") /\ ~(state'.depth > 0)
      BY <1>7, StateTypes DEF Kinds
    <2> QED BY <1>1, <1>2, <1>7, <2>1, GoesOn
  <1>8. ASSUME has_code' = TRUE, NoBreak, NEW d \in Delimiters(index),
               state' = [In("dollar") EXCEPT !.delimiter = d], Skip(Len(d))
        PROVE  SplitInv'
    <2>1. d \in Seq(STRING) /\ Len(d) \in Nat \ {0} /\ index + Len(d) <= Len(Text) + 1
      BY <1>1, <1>2, DelimiterFits
    <2>2. state' \in States /\ ~(state'.is = "block") /\ ~(state'.depth > 0)
      <3>1. In("dollar") \in States /\ In("dollar").is = "dollar" /\ In("dollar").depth = 0
        BY StateTypes DEF Kinds
      <3> QED BY <1>8, <2>1, <3>1 DEF States
    <2> QED BY <1>1, <1>8, <2>1, <2>2, GoesOn
  <1>9. CASE has_code' = TRUE /\ NoBreak /\ UNCHANGED state /\ Skip(1)
    BY <1>1, <1>2, <1>3, <1>9, GoesOn
  <1>10. CASE /\ statements' = Found(index) /\ start' = index + 1 /\ has_code' = FALSE
              /\ Skip(1) /\ UNCHANGED state
    <2>1. StateOK' /\ Text' = Text /\ phase' = phase
      BY <1>1, <1>10 DEF SplitInv, StateOK, Stay, Text
    <2>2. Position'
      <3>1. index' = index + 1 /\ start' = index + 1 /\ has_code' = FALSE
        BY <1>10 DEF Skip
      <3>2. index + 1 \in 1..(Len(Text) + 1) /\ index + 1 \in 1..(index + 1)
        BY <1>1, <1>2
      <3> QED BY <2>1, <3>1, <3>2 DEF SplitInv, Position
    <2>3. Apart'
      BY <1>1, <1>2, <1>10, <2>1, FoundApart DEF Apart
    <2> QED BY <2>1, <2>2, <2>3 DEF SplitInv
  <1>11. CASE has_code' = (has_code \/ At(index) \notin Blank) /\ Skip(1) /\ UNCHANGED state /\ NoBreak
    BY <1>1, <1>2, <1>3, <1>11, GoesOn
  <1> QED BY <1>4, <1>5, <1>6, <1>7, <1>8, <1>9, <1>10, <1>11 DEF ScanNormal

\* The steps inside a string, a name or a comment: forward, without leaving the text.
LEMMA InsideInv ==
  ASSUME SplitInv, phase = "scan", index <= Len(Text), NEW n \in 1..Len(Text), Skip(n), index + n <= Len(Text) + 1,
         \/ UNCHANGED state
         \/ state' = Normal
         \/ state.is = "block" /\ state' = [state EXCEPT !.depth = @ + 1]
         \/ state.is = "block" /\ state.depth # 1 /\ state' = [state EXCEPT !.depth = @ - 1],
         UNCHANGED has_code, NoBreak, Stay
  PROVE  SplitInv'
  <1>1. state \in States /\ (state.is = "block" <=> state.depth > 0) /\ has_code \in BOOLEAN
    BY DEF SplitInv, StateOK, Position
  <1>2. state' \in States /\ (state'.is = "block" <=> state'.depth > 0)
    BY <1>1, StateTypes DEF States
  <1>3. n \in Nat
    BY TextType DEF SplitInv
  <1> QED BY <1>1, <1>2, <1>3, GoesOn

\* Two characters that are there.
LEMMA Two ==
  ASSUME SplitInv, index <= Len(Text), At(index + 1) # "none"
  PROVE  2 \in 1..Len(Text) /\ index + 2 <= Len(Text) + 1
  <1>1. index \in Nat \ {0} /\ Len(Text) \in Nat /\ StateOK
    BY TextType DEF SplitInv, Position
  <1>2. index + 1 <= Len(Text)
    BY <1>1, Seen
  <1> QED BY <1>1, <1>2

LEMMA One ==
  ASSUME SplitInv, index <= Len(Text)
  PROVE  1 \in 1..Len(Text) /\ index + 1 <= Len(Text) + 1 /\ index \in Nat \ {0} /\ Len(Text) \in Nat
  BY TextType DEF SplitInv, Position

LEMMA ScanSingleInv == ASSUME SplitInv, ScanSingle PROVE SplitInv'
  <1>1. phase = "scan" /\ index <= Len(Text) /\ Stay /\ NoBreak /\ UNCHANGED has_code
    BY DEF ScanSingle, Scanning
  <1>2. CASE Skip(IF index < Len(Text) THEN 2 ELSE 1) /\ UNCHANGED state
    <2>1. CASE index < Len(Text)
      <3>1. 2 \in 1..Len(Text) /\ index + 2 <= Len(Text) + 1
        BY <1>1, <2>1, One
      <3> QED BY <1>1, <1>2, <2>1, <3>1, InsideInv
    <2>2. CASE ~(index < Len(Text))
      BY <1>1, <1>2, <2>2, One, InsideInv
    <2> QED BY <2>1, <2>2
  <1>3. CASE At(index + 1) = "'" /\ Skip(2) /\ UNCHANGED state
    BY <1>1, <1>3, Two, InsideInv
  <1>4. CASE Skip(1) /\ (state' = Normal \/ UNCHANGED state)
    BY <1>1, <1>4, One, InsideInv
  <1> QED BY <1>2, <1>3, <1>4 DEF ScanSingle

LEMMA ScanDoubleInv == ASSUME SplitInv, ScanDouble PROVE SplitInv'
  <1>1. phase = "scan" /\ index <= Len(Text) /\ Stay /\ NoBreak /\ UNCHANGED has_code
    BY DEF ScanDouble, Scanning
  <1>2. CASE At(index + 1) = "\"" /\ Skip(2) /\ UNCHANGED state
    BY <1>1, <1>2, Two, InsideInv
  <1>3. CASE Skip(1) /\ (state' = Normal \/ UNCHANGED state)
    BY <1>1, <1>3, One, InsideInv
  <1> QED BY <1>2, <1>3 DEF ScanDouble

LEMMA ScanLineInv == ASSUME SplitInv, ScanLine PROVE SplitInv'
  <1>1. phase = "scan" /\ index <= Len(Text) /\ Stay /\ NoBreak /\ UNCHANGED has_code
    BY DEF ScanLine, Scanning
  <1>2. Skip(1) /\ (state' = Normal \/ UNCHANGED state)
    BY DEF ScanLine
  <1> QED BY <1>1, <1>2, One, InsideInv

LEMMA ScanBlockInv == ASSUME SplitInv, ScanBlock PROVE SplitInv'
  <1>1. phase = "scan" /\ index <= Len(Text) /\ Stay /\ NoBreak /\ UNCHANGED has_code /\ state.is = "block"
    BY DEF ScanBlock, Scanning
  <1>2. ASSUME NEW s, Len(s) = 2, StartsWith(index, s)
        PROVE  2 \in 1..Len(Text) /\ index + 2 <= Len(Text) + 1
    BY <1>1, <1>2, One DEF StartsWith
  <1>3. CASE StartsWith(index, <<"/", "*">>) /\ Skip(2) /\ state' = [state EXCEPT !.depth = @ + 1]
    <2>1. 2 \in 1..Len(Text) /\ index + 2 <= Len(Text) + 1
      BY <1>2, <1>3
    <2> QED BY <1>1, <1>3, <2>1, InsideInv
  <1>4. CASE StartsWith(index, <<"*", "/">>) /\ Skip(2)
             /\ state' = IF state.depth = 1 THEN Normal ELSE [state EXCEPT !.depth = @ - 1]
    <2>1. 2 \in 1..Len(Text) /\ index + 2 <= Len(Text) + 1
      BY <1>2, <1>4
    <2> QED BY <1>1, <1>4, <2>1, InsideInv
  <1>5. CASE Skip(1) /\ UNCHANGED state
    BY <1>1, <1>5, One, InsideInv
  <1> QED BY <1>3, <1>4, <1>5 DEF ScanBlock

LEMMA ScanDollarInv == ASSUME SplitInv, ScanDollar PROVE SplitInv'
  <1>1. phase = "scan" /\ index <= Len(Text) /\ Stay /\ NoBreak /\ UNCHANGED has_code
    BY DEF ScanDollar, Scanning
  <1>2. CASE StartsWith(index, state.delimiter) /\ Skip(Len(state.delimiter)) /\ state' = Normal
    <2>1. Len(state.delimiter) \in Nat
      BY DEF SplitInv, StateOK, States
    <2>2. index + Len(state.delimiter) <= Len(Text) + 1
      BY <1>1, <1>2, <2>1, One DEF StartsWith
    <2>3. state' \in States /\ ~(state'.is = "block") /\ ~(state'.depth > 0)
      BY <1>2, StateTypes
    <2> QED BY <1>1, <1>2, <2>1, <2>2, <2>3, GoesOn DEF SplitInv, Position
  <1>3. CASE Skip(1) /\ UNCHANGED state
    BY <1>1, <1>3, One, InsideInv
  <1> QED BY <1>2, <1>3 DEF ScanDollar

LEMMA FinishInv == ASSUME SplitInv, Finish PROVE SplitInv'
  <1>1. phase = "scan" /\ index > Len(Text) /\ UNCHANGED <<sample, state, index, start, has_code>>
    BY DEF Finish
  <1>2. Len(Text) \in Nat /\ index = Len(Text) + 1
    BY <1>1, TextType DEF SplitInv, Position
  <1>3. StateOK' /\ Text' = Text
    BY <1>1 DEF SplitInv, StateOK, Text
  <1>4. phase' \in {"done", "refused"}
    BY DEF Finish
  <1>5. Position'
    BY <1>1, <1>3, <1>4 DEF SplitInv, Position
  <1>6. CASE statements' = Found(Len(Text) + 1)
    <2>1. Apart'
      BY <1>1, <1>2, <1>3, <1>4, <1>6, FoundApart DEF Apart
    <2> QED BY <1>3, <1>5, <2>1 DEF SplitInv
  <1>7. CASE UNCHANGED statements
    <2>1. Apart'
      BY <1>3, <1>4, <1>7 DEF SplitInv, Apart
    <2> QED BY <1>3, <1>5, <2>1 DEF SplitInv
  <1> QED BY <1>6, <1>7 DEF Finish

LEMMA SplitNextInv == SplitInv /\ [SplitNext]_splitVars => SplitInv'
  <1> SUFFICES ASSUME SplitInv, [SplitNext]_splitVars PROVE SplitInv'
    OBVIOUS
  <1>1. CASE UNCHANGED splitVars
    BY <1>1 DEF splitVars, SplitInv, StateOK, Position, Apart, Text
  <1> QED
    BY <1>1, ScanNormalInv, ScanSingleInv, ScanDoubleInv, ScanDollarInv, ScanLineInv, ScanBlockInv,
       FinishInv DEF SplitNext

-----------------------------------------------------------------------------
(* The scanner and PostgreSQL's reading of the text                          *)

Tokens == sample.tokens
Size == Len(Text)
Runs == {"blank", "word", "prefix", "other"}

\* What the reading says of a token, but for its kind.
LEMMA TokenIs ==
  ASSUME StateOK, NEW t \in Tokens
  PROVE  /\ Size \in Nat /\ t.first \in 1..Size /\ t.last \in t.first..Size /\ t.body \in Nat /\ t.open \in BOOLEAN
         /\ t.open => t.kind \in Enclosing /\ t.last = Size
         /\ IsToken(Text, Tokens, t)
  <1>1. IsLexing(Text, Tokens) /\ Size \in Nat
    BY ReadingsAssumption, TextType DEF StateOK, Tokens, Text, Size
  <1> QED BY <1>1 DEF IsLexing, Size

LEMMA SizeType == ASSUME StateOK PROVE Size \in Nat
  BY TextType DEF Size

\* Each character is in one token.
LEMMA TokenAt ==
  ASSUME StateOK, NEW i \in 1..Size
  PROVE  \E t \in Tokens : i \in Span(t)
  BY ReadingsAssumption DEF StateOK, Tokens, Text, Size, IsLexing

LEMMA OneToken ==
  ASSUME StateOK, NEW t \in Tokens, NEW u \in Tokens, t.first <= u.last, u.first <= t.last
  PROVE  t = u
  BY ReadingsAssumption DEF StateOK, Tokens, Text, Size, IsLexing

\* The token behind another begins where that one ends.
LEMMA NextToken ==
  ASSUME StateOK, NEW t \in Tokens, t.last < Size
  PROVE  \E u \in Tokens : u.first = t.last + 1
  <1>1. Size \in Nat /\ t.first \in Nat /\ t.last \in Nat /\ t.first <= t.last
    BY TokenIs
  <1>2. PICK u \in Tokens : t.last + 1 \in Span(u)
    BY <1>1, TokenAt
  <1>3. u.first \in Nat /\ u.last \in Nat /\ u.first <= t.last + 1 /\ t.last + 1 <= u.last
    BY <1>2, TokenIs DEF Span
  <1>4. ~(u.first <= t.last)
    <2> SUFFICES ASSUME u.first <= t.last PROVE FALSE
      OBVIOUS
    <2>1. t = u
      BY <1>1, <1>3, OneToken
    <2> QED BY <1>1, <1>3, <2>1
  <1> QED BY <1>1, <1>3, <1>4

LEMMA SameCharacters ==
  ASSUME StateOK, NEW i
  PROVE  At(i) = Char(Text, i)
  BY DEF At, Char

LEMMA SameClasses ==
  /\ Blank = Blanks /\ IdentifierStart = Letters /\ IdentifierContinue = WordCharacters
  BY DEF Blank, Blanks, IdentifierStart, Letters, IdentifierContinue, WordCharacters

\* A token of a run has no character that the scanner takes for the beginning of anything.
LEMMA RunIsPlain ==
  ASSUME StateOK, NEW t \in Tokens, t.kind \in Runs, NEW i \in Span(t)
  PROVE  ~IsSpecial(Text, i) /\ (t.kind = "blank" <=> Char(Text, i) \in Blanks)
  <1>1. IsToken(Text, Tokens, t) /\ t.first \in Nat /\ t.last \in Nat /\ i \in Nat
    BY TokenIs DEF Span
  <1>2. CASE t.kind = "blank"
    <2>1. Char(Text, i) \in Blanks
      BY <1>1, <1>2 DEF IsToken
    <2> QED BY <2>1, <1>2 DEF Blanks, IsSpecial
  <1>3. CASE t.kind = "word"
    <2>1. Char(Text, i) \in WordCharacters \ {"$"}
      BY <1>1, <1>3 DEF IsToken
    <2> QED BY <2>1, <1>3 DEF WordCharacters, Letters, Blanks, IsSpecial
  <1>4. CASE t.kind = "prefix"
    <2>1. Introduces(Text, t.first, t.last)
      BY <1>1, <1>4 DEF IsToken
    <2>2. Char(Text, i) \in {"e", "E", "u", "U", "&"}
      BY <1>1, <2>1 DEF Introduces, Span
    <2> QED BY <2>2, <1>4 DEF Blanks, IsSpecial
  <1>5. CASE t.kind = "other"
    BY <1>1, <1>5 DEF IsToken
  <1> QED BY <1>2, <1>3, <1>4, <1>5 DEF Runs

\* Every other token begins with a character that says what it is.
Opens(t) ==
    LET c == Char(Text, t.first)
        next == Char(Text, t.first + 1)
    IN
    \/ t.kind = "end" /\ c = ";" /\ t.last = t.first
    \/ t.kind = "string" /\ c = "'" /\ IsQuoted(Text, t, "'", Escapes(Tokens, t))
    \/ t.kind = "name" /\ c = "\"" /\ IsQuoted(Text, t, "\"", FALSE)
    \/ t.kind = "dollar" /\ c = "$" /\ IsDollar(Text, t)
    \/ t.kind = "line" /\ c = "-" /\ next = "-" /\ IsLine(Text, t)
    \/ t.kind = "block" /\ c = "/" /\ next = "*" /\ IsBlock(Text, t)

LEMMA EachOpens ==
  ASSUME StateOK, NEW t \in Tokens
  PROVE  t.kind \in Runs \/ Opens(t)
  <1>1. IsToken(Text, Tokens, t)
    BY TokenIs
  <1>2. CASE t.kind = "string" /\ IsQuoted(Text, t, "'", Escapes(Tokens, t))
    BY <1>2 DEF Opens, IsQuoted
  <1>3. CASE t.kind = "name" /\ IsQuoted(Text, t, "\"", FALSE)
    BY <1>3 DEF Opens, IsQuoted
  <1>4. CASE t.kind = "dollar" /\ IsDollar(Text, t)
    BY <1>4 DEF Opens, IsDollar, IsTag
  <1>5. CASE t.kind = "line" /\ IsLine(Text, t)
    BY <1>5 DEF Opens, IsLine
  <1>6. CASE t.kind = "block" /\ IsBlock(Text, t)
    BY <1>6 DEF Opens, IsBlock
  <1>7. CASE t.kind = "end" /\ t.first = t.last /\ Char(Text, t.first) = ";"
    BY <1>7 DEF Opens
  <1> QED BY <1>1, <1>2, <1>3, <1>4, <1>5, <1>6, <1>7 DEF IsToken, Runs

LEMMA KindsApart ==
  ASSUME NEW t, Opens(t)
  PROVE  t.kind \notin Runs /\ t.kind \in {"end"} \cup Enclosing
  BY DEF Opens, Runs, Enclosing

-----------------------------------------------------------------------------
(* Prefixes and tags                                                         *)

\* No closed token but those of a run ends like a prefix.
LEMMA ClosedEnds ==
  ASSUME StateOK, NEW t \in Tokens, ~t.open, t.kind \notin Runs
  PROVE  Char(Text, t.last) \notin Letters \cup {"&"}
  <1>1. Opens(t)
    BY EachOpens
  <1>2. Size \in Nat /\ t.first \in 1..Size /\ t.last \in t.first..Size /\ t.body \in Nat
    BY TokenIs
  <1>3. CASE t.kind = "end"
    BY <1>1, <1>3 DEF Opens, Letters
  <1>4. CASE t.kind = "string" \/ t.kind = "name"
    <2>1. Char(Text, t.last) \in {"'", "\""}
      BY <1>1, <1>4 DEF Opens, IsQuoted
    <2> QED BY <2>1 DEF Letters
  <1>5. CASE t.kind = "dollar"
    <2> DEFINE size == t.body - t.first
    <2>1. IsTag(Text, t.first, t.body - 1) /\ t.body <= t.last + 1 - size
          /\ \A k \in 0..(size - 1) : Char(Text, t.last + 1 - size + k) = Char(Text, t.first + k)
      BY <1>1, <1>5 DEF Opens, IsDollar
    <2>2. Char(Text, t.body - 1) = "$" /\ t.first < t.body - 1
      BY <2>1 DEF IsTag
    <2>3. size - 1 \in 0..(size - 1) /\ t.last + 1 - size + (size - 1) = t.last /\ t.first + (size - 1) = t.body - 1
      BY <1>2, <2>2
    <2> HIDE DEF size
    <2>4. Char(Text, t.last) = "$"
      BY <2>1, <2>2, <2>3
    <2> QED BY <2>4 DEF Letters
  <1>6. CASE t.kind = "line"
    <2>1. Char(Text, t.last) \in {"\n", "\r"}
      BY <1>1, <1>6 DEF Opens, IsLine
    <2> QED BY <2>1 DEF Letters
  <1>7. CASE t.kind = "block"
    <2>1. IsBlock(Text, t)
      BY <1>1, <1>7 DEF Opens
    <2>2. t.body <= t.last + 1 /\ Depth(t, t.body) = 1 /\ Depth(t, t.last + 1) \in Nat /\ Depth(t, t.last + 1) = 0
      <3>1. t.last + 1 \in t.body..(t.last + 1) /\ ~(Depth(t, t.last + 1) > 0) /\ t.body <= t.last + 1
        BY <1>2, <2>1 DEF IsBlock
      <3> QED BY <2>1, <3>1 DEF IsBlock
    <2>3. t.last \in t.body..t.last
      BY <1>2, <2>2
    <2>4. Depth(t, t.last) > 0
      BY <2>1, <2>3 DEF IsBlock
    <2>5. t.last \notin t.marks
      BY <1>2, <2>1 DEF IsBlock
    <2>6. t.last - 1 \in t.marks
      <3> SUFFICES ASSUME t.last - 1 \notin t.marks PROVE FALSE
        OBVIOUS
      <3>1. Depth(t, t.last + 1) = Depth(t, t.last)
        BY <2>1, <2>3, <2>5 DEF IsBlock
      <3> QED BY <2>2, <2>4, <3>1
    <2>7. Char(Text, t.last - 1 + 1) \in {"*", "/"}
      BY <2>1, <2>6 DEF IsBlock
    <2>8. t.last - 1 + 1 = t.last
      BY <1>2
    <2> QED BY <2>7, <2>8 DEF Letters
  <1> QED BY <1>1, <1>3, <1>4, <1>5, <1>6, <1>7, KindsApart DEF Enclosing

\* Whatever stands in front of a token is the end of the one before.
LEMMA TokenBefore ==
  ASSUME StateOK, NEW t \in Tokens, NEW i \in 1..Size, i < t.first
  PROVE  \E u \in Tokens : i \in Span(u) /\ u.last < t.first /\ ~u.open
  <1>1. PICK u \in Tokens : i \in Span(u)
    BY TokenAt
  <1>2. /\ Size \in Nat /\ u.first \in Nat /\ u.last \in Nat /\ u.first <= i /\ i <= u.last
        /\ t.first \in Nat /\ t.last \in Nat /\ t.first <= t.last /\ t.last <= Size
        /\ u.open \in BOOLEAN /\ (u.open => u.last = Size)
    BY <1>1, TokenIs DEF Span
  <1>3. u.last < t.first
    <2> SUFFICES ASSUME t.first <= u.last PROVE FALSE
      BY <1>2
    <2>1. t = u
      BY <1>2, OneToken
    <2> QED BY <1>2, <2>1
  <1> QED BY <1>1, <1>2, <1>3

\* What the scanner sees before a quote is what PostgreSQL takes for its prefix.
LEMMA PrefixSeen ==
  ASSUME StateOK, NEW t \in Tokens, t.kind = "string"
  PROVE  EscapesAt(t.first) <=> Escapes(Tokens, t)
  <1> DEFINE q == t.first
  <1>1. Size \in Nat /\ q \in 1..Size /\ Char(Text, q) = "'"
    <2>1. Opens(t)
      BY EachOpens DEF Runs
    <2> QED BY <2>1, TokenIs DEF Opens
  <1> HIDE DEF q
  <1>2. ASSUME Escapes(Tokens, t) PROVE EscapesAt(q)
    <2>1. PICK u \in Tokens : u.kind = "prefix" /\ u.last + 1 = q
      BY <1>2 DEF Escapes, q
    <2>2. Introduces(Text, u.first, u.last) /\ Char(Text, u.first - 1) \notin WordCharacters
      BY <2>1, TokenIs DEF IsToken
    <2>3. u.first \in Nat /\ u.last \in Nat
      BY TokenIs
    <2>4. CASE u.first = u.last
      <3>1. q - 1 = u.last /\ q - 2 = u.first - 1
        BY <1>1, <2>1, <2>3, <2>4
      <3>2. Char(Text, u.last) \in {"e", "E"}
        BY <2>2, <2>3, <2>4 DEF Introduces
      <3> QED BY <2>2, <3>1, <3>2, SameCharacters, SameClasses DEF EscapesAt
    <2>5. CASE u.last = u.first + 1
      <3>1. q - 1 = u.last /\ q - 2 = u.first /\ q - 3 = u.first - 1
        BY <1>1, <2>1, <2>3, <2>5
      <3>2. Char(Text, u.first) \in {"u", "U"} /\ Char(Text, u.last) = "&"
        BY <2>2, <2>3, <2>5 DEF Introduces
      <3> QED BY <2>2, <3>1, <3>2, SameCharacters, SameClasses DEF EscapesAt
    <2> QED BY <2>2, <2>4, <2>5 DEF Introduces
  <1>3. ASSUME NEW i, Char(Text, i) # "none" PROVE i \in 1..Size
    BY <1>3 DEF Char, Size
  <1>4. ASSUME NEW u \in Tokens, u.kind = "word", u.last \in Nat, Char(Text, u.last - 1) \notin WordCharacters
        PROVE  u.first = u.last
    <2>1. u.first \in Nat /\ u.first <= u.last /\ IsToken(Text, Tokens, u)
      BY TokenIs
    <2> SUFFICES ASSUME u.first # u.last PROVE FALSE
      OBVIOUS
    <2>2. u.last - 1 \in Span(u)
      BY <2>1, <1>4 DEF Span
    <2> QED BY <1>4, <2>1, <2>2 DEF IsToken
  <1>5. ASSUME At(q - 1) \in {"e", "E"}, At(q - 2) \notin IdentifierContinue PROVE Escapes(Tokens, t)
    <2>1. Char(Text, q - 1) \in {"e", "E"} /\ Char(Text, q - 2) \notin WordCharacters
      BY <1>5, SameCharacters, SameClasses
    <2>2. q - 1 \in 1..Size /\ q - 1 < q
      BY <1>1, <1>3, <2>1
    <2>3. PICK u \in Tokens : q - 1 \in Span(u) /\ u.last < q /\ ~u.open
      BY <2>2, TokenBefore DEF q
    <2>4. u.last = q - 1 /\ u.first \in Nat /\ u.last \in Nat
      BY <1>1, <2>3, TokenIs DEF Span
    <2>5. u.kind \in Runs
      BY <2>1, <2>3, <2>4, ClosedEnds DEF Letters
    <2>6. IsToken(Text, Tokens, u) /\ u.last \in Span(u)
      BY <2>3, <2>4, TokenIs
    <2>7. CASE u.kind = "word"
      <3>1. u.first = u.last
        <4>1. u.last - 1 = q - 2
          BY <1>1, <2>4
        <4> QED BY <1>4, <2>1, <2>4, <2>7, <4>1
      <3>2. Introduces(Text, u.first, u.last)
        <4>1. u.last + 1 = q
          BY <1>1, <2>4
        <4> QED BY <1>1, <2>1, <2>4, <3>1, <4>1 DEF Introduces
      <3> QED BY <2>6, <2>7, <3>2 DEF IsToken
    <2>8. CASE u.kind = "prefix"
      BY <1>1, <2>4, <2>8 DEF Escapes, q
    <2>9. CASE u.kind \in {"blank", "other"}
      BY <2>1, <2>4, <2>6, <2>9 DEF IsToken, Blanks, Letters
    <2> QED BY <2>5, <2>7, <2>8, <2>9 DEF Runs
  <1>6. ASSUME At(q - 2) \in {"u", "U"}, At(q - 1) = "&", At(q - 3) \notin IdentifierContinue PROVE Escapes(Tokens, t)
    <2>1. Char(Text, q - 2) \in {"u", "U"} /\ Char(Text, q - 1) = "&" /\ Char(Text, q - 3) \notin WordCharacters
      BY <1>6, SameCharacters, SameClasses
    <2>2. q - 1 \in 1..Size /\ q - 2 \in 1..Size /\ q - 1 < q
      BY <1>1, <1>3, <2>1
    <2>3. PICK u \in Tokens : q - 1 \in Span(u) /\ u.last < q /\ ~u.open
      BY <2>2, TokenBefore DEF q
    <2>4. u.last = q - 1 /\ u.first \in Nat /\ u.last \in Nat /\ u.first <= u.last
      BY <1>1, <2>3, TokenIs DEF Span
    <2>5. u.kind \in Runs /\ IsToken(Text, Tokens, u) /\ u.last \in Span(u)
      BY <2>1, <2>3, <2>4, ClosedEnds, TokenIs
    <2>6. CASE u.kind = "prefix"
      BY <1>1, <2>4, <2>6 DEF Escapes, q
    <2>7. CASE u.kind \in {"blank", "word"}
      BY <2>1, <2>4, <2>5, <2>7 DEF IsToken, Blanks, WordCharacters, Letters
    <2>8. CASE u.kind = "other"
      <3>1. u.first = q - 1
        <4> SUFFICES ASSUME u.first # q - 1 PROVE FALSE
          OBVIOUS
        <4>1. q - 2 \in Span(u)
          BY <1>1, <2>4 DEF Span
        <4> QED BY <2>1, <2>5, <2>8, <4>1 DEF IsToken, Letters
      <3>2. PICK v \in Tokens : q - 2 \in Span(v) /\ v.last < q - 1 /\ ~v.open
        BY <1>1, <2>2, <3>1, TokenBefore
      <3>3. v.last = q - 2 /\ v.first \in Nat /\ v.last \in Nat /\ IsToken(Text, Tokens, v) /\ v.last \in Span(v)
        BY <1>1, <3>2, TokenIs DEF Span
      <3>4. v.kind \in Runs
        BY <2>1, <3>2, <3>3, ClosedEnds DEF Letters
      <3>5. CASE v.kind = "word"
        <4>1. v.first = v.last
          <5>1. v.last - 1 = q - 3
            BY <1>1, <3>3
          <5> QED BY <1>4, <2>1, <3>3, <3>5, <5>1
        <4>2. Introduces(Text, v.first, v.first + 1)
          <5>1. v.first + 1 = q - 1 /\ v.first + 1 + 1 = q
            BY <1>1, <3>3, <4>1
          <5> QED BY <1>1, <2>1, <3>3, <4>1, <5>1 DEF Introduces
        <4> QED BY <3>3, <3>5, <4>1, <4>2 DEF IsToken
      <3>6. CASE v.kind = "prefix"
        <4>1. Char(Text, v.last + 1) = "'" /\ v.last + 1 = q - 1
          BY <1>1, <3>3, <3>6 DEF IsToken, Introduces
        <4> QED BY <2>1, <4>1
      <3>7. CASE v.kind \in {"blank", "other"}
        BY <2>1, <3>3, <3>7 DEF IsToken, Blanks, Letters
      <3> QED BY <3>4, <3>5, <3>6, <3>7 DEF Runs
    <2> QED BY <2>5, <2>6, <2>7, <2>8 DEF Runs
  <1> QED BY <1>2, <1>5, <1>6 DEF EscapesAt, q

LEMMA TagIsThere ==
  ASSUME StateOK, NEW i \in 1..Size, NEW j, IsTag(Text, i, j)
  PROVE  j \in (i + 1)..Size
  <1>1. j \in 1..Len(Text)
    BY DEF IsTag, Char
  <1> QED BY <1>1, SizeType DEF IsTag, Size

LEMMA OneTag ==
  ASSUME StateOK, NEW i \in 1..Size, NEW j, NEW k, IsTag(Text, i, j), IsTag(Text, i, k)
  PROVE  j = k
  <1>1. Size \in Nat /\ j \in (i + 1)..Size /\ k \in (i + 1)..Size
    BY TagIsThere, SizeType
  <1>2. ASSUME NEW a \in (i + 1)..Size, NEW b \in (i + 1)..Size, IsTag(Text, i, a), IsTag(Text, i, b), a < b
        PROVE  FALSE
    <2>1. a \in (i + 1)..(b - 1)
      BY <1>1, <1>2
    <2> QED BY <1>2, <2>1 DEF IsTag
  <1>3. ~(j < k) /\ ~(k < j)
    BY <1>1, <1>2
  <1> QED BY <1>1, <1>3

LEMMA TagSeen ==
  ASSUME StateOK, NEW i \in 1..Size, Char(Text, i) = "$"
  PROVE  Delimiters(i) = {SubSeq(Text, i, j) : j \in {k \in 1..Size : IsTag(Text, i, k)}}
  <1>1. Size \in Nat /\ Len(Text) = Size
    BY SizeType DEF Size
  <1> DEFINE looks(k) == /\ Text[k] = "$"
                         /\ \A l \in (i + 1)..(k - 1) : Text[l] \in IdentifierContinue \ {"$"}
                         /\ k > i + 1 => Text[i + 1] \in IdentifierStart
  <1>2. ASSUME NEW k \in (i + 1)..Size PROVE looks(k) <=> IsTag(Text, i, k)
    <2>1. \A l \in 1..Size : Char(Text, l) = Text[l]
      BY <1>1 DEF Char
    <2>2. k \in 1..Size /\ i < k /\ (\A l \in (i + 1)..(k - 1) : l \in 1..Size) /\ i + 1 \in 1..Size
      BY <1>1
    <2> QED BY <2>1, <2>2, SameClasses DEF IsTag
  <1>3. {k \in (i + 1)..Size : looks(k)} = {k \in 1..Size : IsTag(Text, i, k)}
    BY <1>1, <1>2, TagIsThere
  <1>4. Delimiters(i) = {SubSeq(Text, i, j) : j \in {k \in (i + 1)..Size : looks(k)}}
    BY <1>1 DEF Delimiters
  <1> HIDE DEF looks
  <1> QED BY <1>3, <1>4

\* A tag comes again where each of its characters does.
LEMMA TagComes ==
  ASSUME StateOK, NEW a \in 1..Size, NEW b, IsTag(Text, a, b), NEW i \in 1..Size
  PROVE  /\ Len(SubSeq(Text, a, b)) = b + 1 - a
         /\ StartsWith(i, SubSeq(Text, a, b)) <=> \A k \in 0..(b - a) : Char(Text, i + k) = Char(Text, a + k)
  <1>1. Size \in Nat /\ Len(Text) = Size /\ Text \in Seq(STRING) /\ b \in (a + 1)..Size
    BY TagIsThere, TextType, SizeType DEF Size
  <1> DEFINE n == b + 1 - a
             tag == SubSeq(Text, a, b)
  <1>2. n \in Nat /\ Len(tag) = n /\ tag \in Seq(STRING) /\ \A k \in 1..n : tag[k] = Text[a + k - 1]
    BY <1>1
  <1>3. ASSUME NEW k \in 0..(b - a) PROVE Char(Text, a + k) = tag[k + 1] /\ Char(Text, a + k) # "none"
    <2>1. a + k \in 1..Size /\ k + 1 \in 1..n /\ a + (k + 1) - 1 = a + k
      BY <1>1
    <2>2. Char(Text, a + k) = Text[a + k]
      BY <1>1, <2>1 DEF Char
    <2>3. tag[k + 1] = Text[a + k]
      BY <1>2, <2>1
    <2>4. Char(Text, a + k) \in WordCharacters
      <3>1. a + k = a \/ a + k = b \/ a + k \in (a + 1)..(b - 1)
        BY <1>1
      <3> QED BY <3>1 DEF IsTag, WordCharacters
    <2> QED BY <2>2, <2>3, <2>4 DEF WordCharacters, Letters
  <1>4. ASSUME StartsWith(i, tag), NEW k \in 0..(b - a) PROVE Char(Text, i + k) = Char(Text, a + k)
    <2>1. i + n - 1 <= Size /\ SubSeq(Text, i, i + n - 1) = tag
      BY <1>1, <1>2, <1>4 DEF StartsWith
    <2>2. i + k \in 1..Size /\ k + 1 \in 1..n
      BY <1>1, <2>1
    <2>3. SubSeq(Text, i, i + n - 1)[k + 1] = Text[i + k]
      BY <1>1, <1>2, <2>1, <2>2
    <2> QED BY <1>1, <1>3, <2>1, <2>2, <2>3 DEF Char
  <1>5. ASSUME \A k \in 0..(b - a) : Char(Text, i + k) = Char(Text, a + k) PROVE StartsWith(i, tag)
    <2>1. \A k \in 0..(b - a) : i + k \in 1..Size /\ Text[i + k] = tag[k + 1]
      BY <1>1, <1>3, <1>5 DEF Char
    <2>2. i + n - 1 \in i..Size
      <3>1. b - a \in 0..(b - a) /\ i + (b - a) = i + n - 1 /\ i + (b - a) >= i
        BY <1>1
      <3>2. i + (b - a) \in 1..Size
        BY <2>1, <3>1
      <3> QED BY <1>1, <3>1, <3>2
    <2> DEFINE s == SubSeq(Text, i, i + n - 1)
    <2>3. s \in Seq(STRING) /\ Len(s) = n /\ \A k \in 1..n : s[k] = Text[i + k - 1]
      BY <1>1, <1>2, <2>2
    <2>4. \A k \in 1..n : s[k] = tag[k]
      <3> SUFFICES ASSUME NEW k \in 1..n PROVE s[k] = tag[k]
        OBVIOUS
      <3>1. k - 1 \in 0..(b - a) /\ i + (k - 1) = i + k - 1 /\ k - 1 + 1 = k
        BY <1>1, <1>2
      <3>2. Text[i + (k - 1)] = tag[k - 1 + 1]
        BY <2>1, <3>1
      <3> QED BY <2>3, <3>1, <3>2
    <2> HIDE DEF s, tag, n
    <2>5. s = tag
      BY <1>2, <2>3, <2>4
    <2> QED BY <1>1, <1>2, <2>2, <2>5 DEF StartsWith, s
  <1> HIDE DEF n
  <1> QED BY <1>2, <1>4, <1>5 DEF n

-----------------------------------------------------------------------------
(* Where the scanner is in the reading                                       *)

\* Between tokens, or in one in which nothing begins.
Between(i) ==
    \/ i = Size + 1 /\ \A t \in Tokens : ~t.open
    \/ \E t \in Tokens : i \in Span(t) /\ (i = t.first \/ t.kind \in Runs)

\* Behind the opening of a token, and not in the middle of two characters that count as one.
Within(t, i) == i \in t.body..(t.last + 1) /\ (i = t.last + 1 => t.open)
Inside(t, i, at) ==
    /\ Within(t, i)
    /\ \/ t.kind = "string" /\ at.is = "single" /\ at.escapes = Escapes(Tokens, t) /\ i - 1 \notin t.marks
       \/ t.kind = "name" /\ at.is = "double" /\ i - 1 \notin t.marks
       \/ /\ t.kind = "dollar" /\ at.is = "dollar" /\ at.delimiter = SubSeq(Text, t.first, t.body - 1)
          /\ t.open \/ i <= t.last + 1 - (t.body - t.first)
       \/ t.kind = "line" /\ at.is = "line"
       \/ t.kind = "block" /\ at.is = "block" /\ at.depth = Depth(t, i) /\ i - 1 \notin t.marks

\* A token ends and the next one, or the end of the text, is there.
LEMMA Leaves ==
  ASSUME StateOK, NEW t \in Tokens, ~t.open
  PROVE  Between(t.last + 1)
  <1>1. Size \in Nat /\ t.first \in 1..Size /\ t.last \in t.first..Size
    BY TokenIs
  <1>2. CASE t.last < Size
    <2>1. PICK u \in Tokens : u.first = t.last + 1
      BY <1>2, NextToken
    <2>2. u.first \in Span(u)
      BY TokenIs DEF Span
    <2> QED BY <2>1, <2>2 DEF Between
  <1>3. CASE t.last = Size
    <2> SUFFICES ASSUME NEW u \in Tokens, u.open PROVE FALSE
      BY <1>3 DEF Between
    <2>1. u.last = Size /\ u.first \in 1..Size
      BY TokenIs
    <2>2. u = t
      BY <1>1, <1>3, <2>1, OneToken
    <2> QED BY <2>2
  <1> QED BY <1>1, <1>2, <1>3

\* Within a run it goes on, or it leaves it.
LEMMA RunGoesOn ==
  ASSUME StateOK, NEW t \in Tokens, t.kind \in Runs, NEW i \in Span(t)
  PROVE  Between(i + 1)
  <1>1. Size \in Nat /\ t.first \in 1..Size /\ t.last \in t.first..Size /\ ~t.open /\ i \in t.first..t.last
    BY TokenIs DEF Enclosing, Runs, Span
  <1>2. CASE i = t.last
    BY <1>1, <1>2, Leaves
  <1>3. CASE i < t.last
    <2>1. i + 1 \in Span(t)
      BY <1>1, <1>3 DEF Span
    <2> QED BY <2>1 DEF Between
  <1> QED BY <1>1, <1>2, <1>3

\* A string or a name: characters one by one or two at a time, until the quote that ends it.
LEMMA QuotedGoesOn ==
  ASSUME StateOK, NEW t \in Tokens, NEW quote, quote # "\\", quote # "none", NEW escapes \in BOOLEAN,
         IsQuoted(Text, t, quote, escapes),
         NEW i \in 1..Size, Within(t, i), i - 1 \notin t.marks
  PROVE  LET c == Char(Text, i)
             next == Char(Text, i + 1)
             goes(j) == Within(t, j) /\ j - 1 \notin t.marks
         IN  /\ escapes /\ c = "\\" => IF i < Size THEN goes(i + 2) ELSE goes(i + 1)
             /\ c = quote /\ next = quote => goes(i + 2)
             /\ c = quote /\ next # quote => i = t.last /\ ~t.open
             /\ c # quote /\ ~(escapes /\ c = "\\") => goes(i + 1)
  <1> DEFINE c == Char(Text, i)
             next == Char(Text, i + 1)
             goes(j) == Within(t, j) /\ j - 1 \notin t.marks
  <1>1. /\ Size \in Nat /\ t.first \in 1..Size /\ t.last \in t.first..Size /\ t.body \in Nat /\ t.open \in BOOLEAN
        /\ t.open => t.last = Size
        /\ Size = Len(Text)
    BY TokenIs DEF Size
  <1>2. /\ t.marks \subseteq Content(t)
        /\ \A m \in t.marks :
              /\ m + 1 \in Content(t) /\ m + 1 \notin t.marks
              /\ (escapes /\ Char(Text, m) = "\\") \/ (Char(Text, m) = quote /\ Char(Text, m + 1) = quote)
        /\ \A j \in Content(t) : Char(Text, j) = quote \/ (escapes /\ Char(Text, j) = "\\") =>
              \/ j \in t.marks \/ j - 1 \in t.marks
              \/ j = Size /\ escapes /\ Char(Text, j) = "\\"
        /\ t.open \/ (t.body <= t.last /\ Char(Text, t.last) = quote /\ Char(Text, t.last + 1) # quote)
    BY <1>1 DEF IsQuoted
  <1>3. i \in t.body..t.last
    BY <1>1 DEF Within
  <1>4. i \in Content(t) \/ (i = t.last /\ ~t.open)
    BY <1>1, <1>3 DEF Content
  <1>5. i \in t.marks => goes(i + 2)
    <2> SUFFICES ASSUME i \in t.marks PROVE goes(i + 2)
      OBVIOUS
    <2>1. i + 1 \in Content(t) /\ i + 1 \notin t.marks
      BY <1>2
    <2>2. i + 1 <= t.last /\ (~t.open => i + 1 <= t.last - 1)
      BY <1>1, <2>1 DEF Content
    <2>3. i + 2 \in t.body..(t.last + 1) /\ (i + 2 = t.last + 1 => t.open) /\ i + 2 - 1 = i + 1
      BY <1>1, <1>3, <2>2
    <2> QED BY <2>1, <2>3 DEF Within
  <1>6. i \in Content(t) /\ i \notin t.marks => goes(i + 1)
    <2> SUFFICES ASSUME i \in Content(t), i \notin t.marks PROVE goes(i + 1)
      OBVIOUS
    <2>1. i + 1 \in t.body..(t.last + 1) /\ (i + 1 = t.last + 1 => t.open) /\ i + 1 - 1 = i
      BY <1>1, <1>3 DEF Content
    <2> QED BY <2>1 DEF Within
  <1>7. i \in t.marks => i \in Content(t) /\ ((escapes /\ c = "\\") \/ (c = quote /\ next = quote))
    BY <1>2
  <1>8. i \in t.marks => i + 1 <= Size
    <2> SUFFICES ASSUME i \in t.marks PROVE i + 1 <= Size
      OBVIOUS
    <2>1. i + 1 \in Content(t)
      BY <1>2
    <2> QED BY <1>1, <2>1 DEF Content
  <1>9. i \in Content(t) /\ (c = quote \/ (escapes /\ c = "\\")) => i \in t.marks \/ (i = Size /\ escapes /\ c = "\\")
    BY <1>2
  <1>10. ~(i \in Content(t)) => c = quote /\ next # quote
    BY <1>2, <1>4
  <1> HIDE DEF goes, c, next
  <1>11. escapes /\ c = "\\" => IF i < Size THEN goes(i + 2) ELSE goes(i + 1)
    BY <1>1, <1>5, <1>6, <1>8, <1>9, <1>10
  <1>12. c = quote /\ next = quote => goes(i + 2)
    BY <1>5, <1>9, <1>10
  <1>13. c = quote /\ next # quote => i = t.last /\ ~t.open
    BY <1>4, <1>7, <1>9
  <1>14. c # quote /\ ~(escapes /\ c = "\\") => goes(i + 1)
    BY <1>6, <1>7, <1>10
  <1> QED BY <1>11, <1>12, <1>13, <1>14 DEF goes, c, next

\* A dollar quote: until its own tag.
LEMMA DollarGoesOn ==
  ASSUME StateOK, NEW t \in Tokens, IsDollar(Text, t), NEW i \in 1..Size, Within(t, i),
         t.open \/ i <= t.last + 1 - (t.body - t.first)
  PROVE  LET tag == SubSeq(Text, t.first, t.body - 1) IN
         /\ StartsWith(i, tag) => i + Len(tag) = t.last + 1 /\ ~t.open
         /\ ~StartsWith(i, tag) => Within(t, i + 1) /\ (t.open \/ i + 1 <= t.last + 1 - (t.body - t.first))
  <1> DEFINE tag == SubSeq(Text, t.first, t.body - 1)
             size == t.body - t.first
             again(j) == \A k \in 0..(size - 1) : Char(Text, j + k) = Char(Text, t.first + k)
             ends == t.last + 1 - size
  <1>1. /\ Size \in Nat /\ t.first \in 1..Size /\ t.last \in t.first..Size /\ t.body \in Nat /\ t.open \in BOOLEAN
        /\ t.open => t.last = Size
    BY TokenIs
  <1>2. /\ IsTag(Text, t.first, t.body - 1)
        /\ \A j \in t.body..t.last : again(j) => ~t.open /\ j >= ends
        /\ t.open \/ (t.body <= ends /\ again(ends))
    BY DEF IsDollar
  <1>3. t.first < t.body - 1 /\ size \in Nat /\ size > 1 /\ ends <= t.last
    BY <1>1, <1>2 DEF IsTag
  <1>4. i \in t.body..t.last
    BY <1>1 DEF Within
  <1>5. Len(tag) = size /\ (StartsWith(i, tag) <=> again(i))
    <2>1. t.body - 1 + 1 - t.first = size /\ t.body - 1 - t.first = size - 1
      BY <1>1
    <2>2. /\ Len(tag) = t.body - 1 + 1 - t.first
          /\ StartsWith(i, tag) <=> \A k \in 0..(t.body - 1 - t.first) : Char(Text, i + k) = Char(Text, t.first + k)
      BY <1>1, <1>2, TagComes
    <2> HIDE DEF size, tag
    <2> QED BY <2>1, <2>2
  <1> HIDE DEF again, tag
  <1>6. again(i) => i + size = t.last + 1 /\ ~t.open
    BY <1>1, <1>2, <1>3, <1>4
  <1>7. ~again(i) => Within(t, i + 1) /\ (t.open \/ i + 1 <= ends)
    <2> SUFFICES ASSUME ~again(i) PROVE Within(t, i + 1) /\ (t.open \/ i + 1 <= ends)
      OBVIOUS
    <2>1. t.open \/ i + 1 <= ends
      <3> SUFFICES ASSUME ~t.open PROVE i + 1 <= ends
        OBVIOUS
      <3>1. i # ends /\ i <= ends
        BY <1>2
      <3> QED BY <1>1, <1>3, <1>4, <3>1
    <2>2. i + 1 \in t.body..(t.last + 1) /\ (i + 1 = t.last + 1 => t.open)
      BY <1>1, <1>3, <1>4, <2>1
    <2> QED BY <2>1, <2>2 DEF Within
  <1> QED BY <1>5, <1>6, <1>7 DEF tag

LEMMA LineGoesOn ==
  ASSUME StateOK, NEW t \in Tokens, IsLine(Text, t), NEW i \in 1..Size, Within(t, i)
  PROVE  IF Char(Text, i) \in {"\n", "\r"} THEN i = t.last /\ ~t.open ELSE Within(t, i + 1)
  <1>1. /\ Size \in Nat /\ t.first \in 1..Size /\ t.last \in t.first..Size /\ t.body \in Nat /\ t.open \in BOOLEAN
        /\ t.open => t.last = Size
    BY TokenIs
  <1>2. i \in t.body..t.last
    BY <1>1 DEF Within
  <1>3. CASE Char(Text, i) \in {"\n", "\r"}
    BY <1>2, <1>3 DEF IsLine
  <1>4. CASE Char(Text, i) \notin {"\n", "\r"}
    <2>1. i = t.last => t.open
      BY <1>4 DEF IsLine
    <2>2. i + 1 \in t.body..(t.last + 1) /\ (i + 1 = t.last + 1 => t.open)
      BY <1>1, <1>2, <2>1
    <2> QED BY <1>4, <2>2 DEF Within
  <1> QED BY <1>3, <1>4

\* A comment with others in it: the depth says where it ends.
LEMMA BlockGoesOn ==
  ASSUME StateOK, NEW t \in Tokens, IsBlock(Text, t), NEW i \in 1..Size, Within(t, i), i - 1 \notin t.marks
  PROVE  LET begins == Char(Text, i) = "/" /\ Char(Text, i + 1) = "*"
             stops == Char(Text, i) = "*" /\ Char(Text, i + 1) = "/"
             goes(j) == Within(t, j) /\ j - 1 \notin t.marks
         IN  /\ Depth(t, i) \in Nat \ {0}
             /\ begins => goes(i + 2) /\ Depth(t, i + 2) = Depth(t, i) + 1
             /\ stops /\ Depth(t, i) = 1 => i + 2 = t.last + 1 /\ ~t.open
             /\ stops /\ Depth(t, i) # 1 => goes(i + 2) /\ Depth(t, i + 2) = Depth(t, i) - 1
             /\ ~begins /\ ~stops => goes(i + 1) /\ Depth(t, i + 1) = Depth(t, i)
  <1> DEFINE begins(j) == Char(Text, j) = "/" /\ Char(Text, j + 1) = "*"
             stops(j) == Char(Text, j) = "*" /\ Char(Text, j + 1) = "/"
             goes(j) == Within(t, j) /\ j - 1 \notin t.marks
  <1>1. /\ Size \in Nat /\ t.first \in 1..Size /\ t.last \in t.first..Size /\ t.body \in Nat /\ t.open \in BOOLEAN
        /\ t.open => t.last = Size
    BY TokenIs
  <1>2. /\ \A m \in t.marks :
              /\ m + 1 \in t.body..t.last /\ m + 1 \notin t.marks
              /\ \/ begins(m) /\ Depth(t, m + 2) = Depth(t, m) + 1
                 \/ stops(m) /\ Depth(t, m) = Depth(t, m + 2) + 1
        /\ \A j \in t.body..t.last :
              /\ Depth(t, j) > 0
              /\ begins(j) \/ stops(j) => j \in t.marks \/ j - 1 \in t.marks
              /\ j \notin t.marks /\ j - 1 \notin t.marks => Depth(t, j + 1) = Depth(t, j)
        /\ \A j \in t.body..(t.last + 1) : Depth(t, j) \in Nat
        /\ t.open <=> Depth(t, t.last + 1) > 0
    BY DEF IsBlock
  <1>3. i \in t.body..t.last
    BY <1>1 DEF Within
  <1>4. Depth(t, i) \in Nat \ {0}
    <2>1. i \in t.body..(t.last + 1)
      BY <1>1, <1>3
    <2> QED BY <1>2, <1>3, <2>1
  <1>5. ASSUME i \in t.marks
        PROVE  i + 2 \in t.body..(t.last + 1) /\ i + 2 - 1 \notin t.marks /\ Depth(t, i + 2) \in Nat
    <2>1. i + 1 \in t.body..t.last /\ i + 1 \notin t.marks
      BY <1>2, <1>5
    <2>2. i + 2 \in t.body..(t.last + 1) /\ i + 2 - 1 = i + 1
      BY <1>1, <1>3, <2>1
    <2> QED BY <1>2, <2>1, <2>2
  <1>6. ASSUME i \in t.marks, Depth(t, i + 2) > 0 PROVE goes(i + 2)
    BY <1>2, <1>5, <1>6 DEF Within
  <1>7. begins(i) \/ stops(i) => i \in t.marks
    BY <1>2, <1>3
  <1>8. ~(begins(i) /\ stops(i))
    OBVIOUS
  <1>9. ASSUME begins(i) PROVE goes(i + 2) /\ Depth(t, i + 2) = Depth(t, i) + 1
    <2>1. Depth(t, i + 2) = Depth(t, i) + 1
      BY <1>2, <1>7, <1>8, <1>9
    <2>2. Depth(t, i + 2) > 0
      BY <1>4, <2>1
    <2> QED BY <1>6, <1>7, <1>9, <2>1, <2>2
  <1>10. ASSUME stops(i) PROVE Depth(t, i) = Depth(t, i + 2) + 1 /\ Depth(t, i + 2) \in Nat
    BY <1>2, <1>5, <1>7, <1>8, <1>10
  <1>11. ASSUME stops(i), Depth(t, i) = 1 PROVE i + 2 = t.last + 1 /\ ~t.open
    <2>1. Depth(t, i + 2) = 0
      BY <1>10, <1>11
    <2>2. i + 2 \in t.body..(t.last + 1)
      BY <1>5, <1>7, <1>11
    <2>3. ~(i + 2 \in t.body..t.last)
      BY <1>2, <2>1
    <2>4. i + 2 = t.last + 1
      BY <1>1, <2>2, <2>3
    <2> QED BY <1>2, <2>1, <2>4
  <1>12. ASSUME stops(i), Depth(t, i) # 1 PROVE goes(i + 2) /\ Depth(t, i + 2) = Depth(t, i) - 1
    <2>1. Depth(t, i + 2) > 0 /\ Depth(t, i + 2) = Depth(t, i) - 1
      BY <1>10, <1>12
    <2> QED BY <1>6, <1>7, <1>12, <2>1
  <1>13. ASSUME ~begins(i), ~stops(i) PROVE goes(i + 1) /\ Depth(t, i + 1) = Depth(t, i)
    <2>1. i \notin t.marks
      BY <1>2, <1>13
    <2>2. Depth(t, i + 1) = Depth(t, i)
      BY <1>2, <1>3, <2>1
    <2>3. i + 1 \in t.body..(t.last + 1) /\ i + 1 - 1 = i
      BY <1>1, <1>3
    <2>4. i + 1 = t.last + 1 => t.open
      BY <1>2, <1>4, <2>2
    <2> QED BY <2>1, <2>2, <2>3, <2>4 DEF Within
  <1> QED BY <1>4, <1>9, <1>11, <1>12, <1>13

-----------------------------------------------------------------------------
(* What holds while the scan goes on                                         *)

Place == IF state.is = "normal" THEN Between(index) ELSE \E t \in Tokens : Inside(t, index, state)

\* The statement begins behind the last end that the scanner has passed, it has code when
\* the reading has, and the statements found are those that end before it.
Cut ==
    /\ start = 1 \/ start - 1 \in EndsOf(Tokens)
    /\ \A e \in EndsOf(Tokens) : e < start \/ index <= e
    /\ has_code <=> HasCode(Tokens, start, index - 1)
    /\ {statements[i] : i \in DOMAIN statements} = {x \in StatementsOf(Text, Tokens) : x[2] + 1 < start}

LexInv ==
    /\ SplitInv
    /\ phase = "scan" => Place /\ Cut
    /\ SplitsWhereStatementsEnd

LEMMA Positions ==
  ASSUME SplitInv
  PROVE  /\ StateOK /\ Size \in Nat /\ Size = Len(Text) /\ index \in 1..(Size + 1) /\ start \in 1..index
         /\ has_code \in BOOLEAN
  BY SizeType DEF SplitInv, Position, Size

\* The step of a scan that has not come to the end of the text.
LEMMA SameText ==
  ASSUME Stay
  PROVE  Tokens' = Tokens /\ Text' = Text /\ Size' = Size /\ phase' = phase
  BY DEF Stay, Tokens, Text, Size

LEMMA SamePlace ==
  ASSUME Stay
  PROVE  /\ state'.is = "normal" /\ Between(index') => Place'
         /\ \A t \in Tokens : state'.is # "normal" /\ Inside(t, index', state') => Place'
  <1>1. Tokens' = Tokens /\ Text' = Text /\ Size' = Size
    BY SameText
  <1>2. ASSUME state'.is = "normal", Between(index') PROVE Place'
    <2>1. Between(index)'
      BY <1>1, <1>2 DEF Between
    <2> QED BY <1>2, <2>1 DEF Place
  <1>3. ASSUME NEW t \in Tokens, state'.is # "normal", Inside(t, index', state') PROVE Place'
    <2>1. t \in Tokens' /\ Inside(t, index, state)'
      BY <1>1, <1>3 DEF Inside
    <2> QED BY <1>3, <2>1 DEF Place
  <1> QED BY <1>2, <1>3

\* A semicolon that ends a statement is a token of its own.
LEMMA EndIsToken ==
  ASSUME StateOK, NEW e \in EndsOf(Tokens), NEW t \in Tokens, e \in Span(t)
  PROVE  t.kind = "end"
  <1>1. PICK u \in Tokens : u.kind = "end" /\ u.first = e
    BY DEF EndsOf
  <1>2. /\ u.first \in Nat /\ u.last \in Nat /\ u.first <= u.last
        /\ t.first \in Nat /\ t.last \in Nat /\ t.first <= e /\ e <= t.last
    BY TokenIs DEF Span
  <1>3. t = u
    BY <1>1, <1>2, OneToken
  <1> QED BY <1>1, <1>3

LEMMA EndsType ==
  ASSUME StateOK
  PROVE  EndsOf(Tokens) \subseteq 1..Size
  BY TokenIs DEF EndsOf

\* A token that the scanner is in is one of the statement that it is in.
LEMMA StartsBefore ==
  ASSUME SplitInv, Cut, NEW t \in Tokens, t.kind # "end", t.first <= index, index <= t.last + 1
  PROVE  start <= t.first
  <1>1. StateOK /\ index \in Nat /\ start \in Nat /\ start <= index /\ t.first \in Nat /\ t.last \in Nat
    BY Positions, TokenIs
  <1> SUFFICES ASSUME t.first < start PROVE FALSE
    BY <1>1
  <1>2. start - 1 \in EndsOf(Tokens)
    <2>1. t.first >= 1
      BY <1>1, TokenIs
    <2> QED BY <1>1, <2>1 DEF Cut
  <1>3. start - 1 \in Span(t)
    BY <1>1 DEF Span
  <1> QED BY <1>1, <1>2, <1>3, EndIsToken

\* A step in a token that ends no statement.
LEMMA CutGoesOn ==
  ASSUME SplitInv, Cut, NEW t \in Tokens, t.kind # "end", index \in Span(t),
         index' \in (index + 1)..(t.last + 1), NoBreak, Stay,
         has_code' <=> has_code \/ t.kind \in Code
  PROVE  Cut'
  <1>1. /\ StateOK /\ index \in Nat /\ start \in Nat /\ start <= index /\ index' \in Nat
        /\ t.first \in Nat /\ t.last \in Nat /\ t.first <= index /\ index <= t.last
        /\ index < index' /\ index' <= t.last + 1
    BY Positions, TokenIs DEF Span
  <1>2. Tokens' = Tokens /\ Text' = Text /\ start' = start /\ statements' = statements
    BY SameText DEF NoBreak
  <1>3. start <= t.first
    BY <1>1, StartsBefore
  <1>4. ASSUME NEW e \in EndsOf(Tokens), start <= e PROVE index' <= e
    <2>1. index <= e /\ e \in Nat
      BY <1>1, <1>4, EndsType DEF Cut
    <2>2. e \notin Span(t)
      BY <1>1, EndIsToken
    <2> QED BY <1>1, <2>1, <2>2 DEF Span
  <1>5. HasCode(Tokens, start, index' - 1) <=> HasCode(Tokens, start, index - 1) \/ t.kind \in Code
    <2>1. ASSUME NEW u \in Tokens, start <= u.first, u.first <= index' - 1, ~(u.first <= index - 1)
          PROVE  u = t
      <3>1. u.first \in Nat /\ u.last \in Nat /\ u.first <= u.last
        BY <1>1, TokenIs
      <3> QED BY <1>1, <2>1, <3>1, OneToken
    <2>2. ASSUME HasCode(Tokens, start, index' - 1), ~HasCode(Tokens, start, index - 1) PROVE t.kind \in Code
      BY <2>1, <2>2 DEF HasCode
    <2>3. ASSUME HasCode(Tokens, start, index - 1) PROVE HasCode(Tokens, start, index' - 1)
      <3>1. PICK u \in Tokens : u.kind \in Code /\ start <= u.first /\ u.first <= index - 1
        BY <2>3 DEF HasCode
      <3>2. u.first \in Nat
        BY <1>1, TokenIs
      <3> QED BY <1>1, <3>1, <3>2 DEF HasCode
    <2>4. ASSUME t.kind \in Code PROVE HasCode(Tokens, start, index' - 1)
      BY <1>1, <1>3, <2>4 DEF HasCode
    <2> QED BY <2>2, <2>3, <2>4
  <1>6. has_code' <=> HasCode(Tokens, start, index' - 1)
    BY <1>5 DEF Cut
  <1>7. \A e \in EndsOf(Tokens) : e < start \/ index' <= e
    BY <1>1, <1>4, EndsType
  <1> QED BY <1>2, <1>6, <1>7 DEF Cut

\* What is enclosed has been counted as code when its first character was read.
LEMMA InsideIsCode ==
  ASSUME SplitInv, Cut, NEW t \in Tokens, t.kind \in Code, t.first < index, index <= t.last + 1
  PROVE  has_code
  <1>1. StateOK /\ index \in Nat /\ start \in Nat /\ t.first \in Nat /\ t.last \in Nat
    BY Positions, TokenIs
  <1>2. start <= t.first
    BY <1>1, StartsBefore DEF Code
  <1>3. t.first <= index - 1
    BY <1>1
  <1> QED BY <1>2, <1>3 DEF Cut, HasCode

-----------------------------------------------------------------------------
(* The statements found                                                      *)

\* What StatementsOf takes for a statement.
IsPart(a, b) ==
    /\ a \in {0} \cup EndsOf(Tokens) /\ b \in EndsOf(Tokens) \cup {Size + 1}
    /\ a < b /\ \A e \in EndsOf(Tokens) : ~(a < e /\ e < b)
    /\ HasCode(Tokens, a + 1, b - 1)

LEMMA PartIsStatement ==
  ASSUME StateOK
  PROVE  \A x : x \in StatementsOf(Text, Tokens) <=> \E a, b : IsPart(a, b) /\ x = <<a + 1, b - 1>>
  <1> DEFINE ends == EndsOf(Tokens)
             parts == {c \in ({0} \cup ends) \X (ends \cup {Len(Text) + 1}) :
                          /\ c[1] < c[2] /\ \A e \in ends : ~(c[1] < e /\ e < c[2])
                          /\ HasCode(Tokens, c[1] + 1, c[2] - 1)}
  <1>1. StatementsOf(Text, Tokens) = {<<c[1] + 1, c[2] - 1>> : c \in parts}
    BY DEF StatementsOf
  <1>2. ASSUME NEW c \in parts PROVE IsPart(c[1], c[2])
    BY DEF IsPart, Size
  <1>3. ASSUME NEW a, NEW b, IsPart(a, b) PROVE <<a, b>> \in parts /\ <<a, b>>[1] = a /\ <<a, b>>[2] = b
    BY <1>3 DEF IsPart, Size
  <1> HIDE DEF parts
  <1>4. ASSUME NEW x \in StatementsOf(Text, Tokens) PROVE \E a, b : IsPart(a, b) /\ x = <<a + 1, b - 1>>
    <2>1. PICK c \in parts : x = <<c[1] + 1, c[2] - 1>>
      BY <1>1
    <2> QED BY <1>2, <2>1
  <1>5. ASSUME NEW a, NEW b, IsPart(a, b) PROVE <<a + 1, b - 1>> \in StatementsOf(Text, Tokens)
    <2> DEFINE c == <<a, b>>
    <2>1. c \in parts /\ c[1] = a /\ c[2] = b
      BY <1>3, <1>5
    <2>2. <<c[1] + 1, c[2] - 1>> \in StatementsOf(Text, Tokens)
      BY <1>1, <2>1
    <2> HIDE DEF c
    <2> QED BY <2>1, <2>2
  <1> QED BY <1>4, <1>5

LEMMA PartTypes ==
  ASSUME StateOK, NEW a, NEW b, IsPart(a, b)
  PROVE  a \in 0..Size /\ b \in 1..(Size + 1) /\ a + 1 < b
  <1>1. Size \in Nat /\ EndsOf(Tokens) \subseteq 1..Size
    BY EndsType, SizeType
  <1>2. a \in 0..Size /\ b \in 1..(Size + 1)
    BY <1>1 DEF IsPart
  <1>3. PICK t \in Tokens : a + 1 <= t.first /\ t.first <= b - 1
    BY DEF IsPart, HasCode
  <1>4. t.first \in Nat
    BY TokenIs
  <1> QED BY <1>1, <1>2, <1>3, <1>4

\* Where a statement ends, the scanner finds the one that the reading has there.
LEMMA FindsStatement ==
  ASSUME SplitInv, Cut, index \in EndsOf(Tokens) \cup {Size + 1}
  PROVE  {Found(index)[i] : i \in DOMAIN Found(index)} = {x \in StatementsOf(Text, Tokens) : x[2] + 1 <= index}
  <1> DEFINE before == {x \in StatementsOf(Text, Tokens) : x[2] + 1 < start}
             upto == {x \in StatementsOf(Text, Tokens) : x[2] + 1 <= index}
             new == <<start, index - 1>>
  <1>1. /\ StateOK /\ Size \in Nat /\ index \in 1..(Size + 1) /\ start \in 1..index /\ has_code \in BOOLEAN
        /\ EndsOf(Tokens) \subseteq 1..Size
    BY Positions, EndsType
  <1>2. /\ start = 1 \/ start - 1 \in EndsOf(Tokens)
        /\ \A e \in EndsOf(Tokens) : e < start \/ index <= e
        /\ has_code <=> HasCode(Tokens, start, index - 1)
        /\ {statements[i] : i \in DOMAIN statements} = before
    BY DEF Cut
  <1>3. {Found(index)[i] : i \in DOMAIN Found(index)} = IF has_code THEN before \cup {new} ELSE before
    <2>1. CASE ~has_code
      BY <1>2, <2>1 DEF Found
    <2>2. CASE has_code
      <3>1. statements \in Seq(Nat \X Nat) /\ new \in Nat \X Nat
        BY <1>1 DEF SplitInv, Apart
      <3>2. Found(index) = Append(statements, new)
        BY <2>2 DEF Found
      <3> HIDE DEF new
      <3>3. /\ DOMAIN Append(statements, new) = 1..(Len(statements) + 1)
            /\ DOMAIN statements = 1..Len(statements) /\ Len(statements) \in Nat
            /\ Append(statements, new)[Len(statements) + 1] = new
            /\ \A i \in DOMAIN statements : Append(statements, new)[i] = statements[i]
        BY <3>1
      <3>4. \A i : i \in 1..(Len(statements) + 1) <=> i \in 1..Len(statements) \/ i = Len(statements) + 1
        BY <3>3
      <3>5. {Append(statements, new)[i] : i \in DOMAIN Append(statements, new)}
              = {statements[i] : i \in DOMAIN statements} \cup {new}
        BY <3>3, <3>4
      <3> QED BY <1>2, <2>2, <3>2, <3>5
    <2> QED BY <1>1, <2>1, <2>2
  <1>4. ASSUME NEW a, NEW b, IsPart(a, b), b <= index, ~(b < start) PROVE a = start - 1 /\ b = index
    <2>1. a \in 0..Size /\ b \in 1..(Size + 1) /\ a + 1 < b
      BY <1>1, <1>4, PartTypes
    <2>2. b = index
      BY <1>1, <1>2, <1>4, <2>1 DEF IsPart
    <2>3. a < start
      BY <1>1, <1>2, <1>4, <2>1, <2>2 DEF IsPart
    <2>4. ~(a < start - 1)
      <3> SUFFICES ASSUME a < start - 1 PROVE FALSE
        OBVIOUS
      <3>1. start - 1 \in EndsOf(Tokens) /\ start - 1 < b
        BY <1>1, <1>2, <2>1, <2>2
      <3> QED BY <1>4, <3>1 DEF IsPart
    <2> QED BY <1>1, <2>1, <2>2, <2>3, <2>4
  <1>5. ASSUME has_code PROVE IsPart(start - 1, index)
    <2>1. HasCode(Tokens, start - 1 + 1, index - 1)
      BY <1>1, <1>2, <1>5
    <2>2. start - 1 < index /\ start - 1 \in {0} \cup EndsOf(Tokens)
      BY <1>1, <1>2
    <2>3. \A e \in EndsOf(Tokens) : ~(start - 1 < e /\ e < index)
      BY <1>1, <1>2
    <2> QED BY <2>1, <2>2, <2>3 DEF IsPart
  <1>6. ASSUME IsPart(start - 1, index) PROVE has_code
    <2>1. HasCode(Tokens, start - 1 + 1, index - 1) /\ start - 1 + 1 = start
      BY <1>1, <1>6 DEF IsPart
    <2> QED BY <1>2, <2>1
  <1>7. ASSUME NEW x \in upto PROVE x \in before \/ (has_code /\ x = new)
    <2>1. PICK a, b : IsPart(a, b) /\ x = <<a + 1, b - 1>>
      BY PartIsStatement, <1>1
    <2>2. a \in 0..Size /\ b \in 1..(Size + 1)
      BY <1>1, <2>1, PartTypes
    <2>3. x[2] + 1 = b
      BY <2>1, <2>2
    <2>4. b <= index
      BY <2>3
    <2>5. CASE b < start
      BY <2>3, <2>5
    <2>6. CASE ~(b < start)
      <3>1. a = start - 1 /\ b = index
        BY <1>4, <2>1, <2>4, <2>6
      <3>2. has_code
        BY <1>6, <2>1, <3>1
      <3> QED BY <1>1, <2>1, <3>1, <3>2
    <2> QED BY <2>5, <2>6
  <1>8. before \subseteq upto
    <2> SUFFICES ASSUME NEW x \in before PROVE x[2] + 1 <= index
      OBVIOUS
    <2>1. PICK a, b : IsPart(a, b) /\ x = <<a + 1, b - 1>>
      BY PartIsStatement, <1>1
    <2>2. b \in Nat /\ x[2] + 1 = b
      BY <1>1, <2>1, PartTypes
    <2> QED BY <1>1, <2>2
  <1>9. ASSUME has_code PROVE new \in upto
    <2>1. new = <<start - 1 + 1, index - 1>> /\ new[2] + 1 <= index
      BY <1>1
    <2>2. new \in StatementsOf(Text, Tokens)
      BY <1>1, <1>5, <1>9, <2>1, PartIsStatement
    <2> QED BY <2>1, <2>2
  <1> HIDE DEF new, before, upto
  <1>10. upto = IF has_code THEN before \cup {new} ELSE before
    BY <1>1, <1>7, <1>8, <1>9
  <1> QED BY <1>3, <1>10 DEF upto

-----------------------------------------------------------------------------
(* Between tokens, and into one                                              *)

\* The first character that a token encloses.
LEMMA AtBody ==
  ASSUME StateOK, NEW t \in Tokens, Opens(t), t.kind \in Enclosing
  PROVE  /\ t.first < t.body /\ Within(t, t.body)
         /\ t.kind \in {"string", "name", "block"} => t.body - 1 \notin t.marks
         /\ t.kind = "dollar" => t.open \/ t.body <= t.last + 1 - (t.body - t.first)
         /\ t.kind = "block" => Depth(t, t.body) = 1
  <1>1. /\ Size \in Nat /\ t.first \in 1..Size /\ t.last \in t.first..Size /\ t.body \in Nat /\ t.open \in BOOLEAN
        /\ t.open => t.last = Size
    BY TokenIs
  <1>2. ASSUME NEW i, Char(Text, i) # "none" PROVE i \in 1..Size
    BY <1>2 DEF Char, Size
  <1>3. ASSUME NEW quote, NEW escapes, IsQuoted(Text, t, quote, escapes)
        PROVE  t.first < t.body /\ Within(t, t.body) /\ t.body - 1 \notin t.marks
    <2>1. t.body = t.first + 1 /\ t.marks \subseteq Content(t) /\ (t.open \/ t.body <= t.last)
      BY <1>3 DEF IsQuoted
    <2>2. t.body - 1 \notin t.marks
      BY <1>1, <2>1 DEF Content
    <2> QED BY <1>1, <2>1, <2>2 DEF Within
  <1>4. CASE t.kind = "string" \/ t.kind = "name"
    BY <1>3, <1>4 DEF Opens
  <1>5. CASE t.kind = "dollar"
    <2>1. IsTag(Text, t.first, t.body - 1) /\ (t.open \/ t.body <= t.last + 1 - (t.body - t.first))
      BY <1>5 DEF Opens, IsDollar
    <2>2. t.body - 1 \in (t.first + 1)..Size
      BY <1>1, <2>1, TagIsThere
    <2>3. t.body \in t.body..(t.last + 1) /\ (t.body = t.last + 1 => t.open)
      BY <1>1, <2>1, <2>2
    <2> QED BY <1>1, <1>5, <2>1, <2>2, <2>3 DEF Within
  <1>6. CASE t.kind = "line"
    <2>1. t.body = t.first + 2 /\ Char(Text, t.first + 1) = "-" /\ (t.open \/ t.body <= t.last)
      BY <1>6 DEF Opens, IsLine
    <2>2. t.first + 1 \in 1..Size
      BY <1>2, <2>1
    <2> QED BY <1>1, <1>6, <2>1, <2>2 DEF Within
  <1>7. CASE t.kind = "block"
    <2>1. /\ t.body = t.first + 2 /\ t.marks \subseteq t.body..t.last
          /\ t.body <= t.last + 1 /\ Depth(t, t.body) = 1
          /\ t.open <=> Depth(t, t.last + 1) > 0
      BY <1>7 DEF Opens, IsBlock
    <2>2. t.body = t.last + 1 => t.open
      BY <2>1
    <2>3. t.body - 1 \notin t.marks
      BY <1>1, <2>1
    <2> QED BY <1>1, <1>7, <2>1, <2>2, <2>3 DEF Within
  <1> QED BY <1>4, <1>5, <1>6, <1>7 DEF Enclosing

\* The state that an opening leads to.
LEMMA StateFields ==
  /\ \A what \in Kinds : In(what).is = what
  /\ [In("block") EXCEPT !.depth = 1].is = "block" /\ [In("block") EXCEPT !.depth = 1].depth = 1
  /\ \A b : [In("single") EXCEPT !.escapes = b].is = "single" /\ [In("single") EXCEPT !.escapes = b].escapes = b
  /\ \A d : [In("dollar") EXCEPT !.delimiter = d].is = "dollar" /\ [In("dollar") EXCEPT !.delimiter = d].delimiter = d
  BY DEF In, Normal, Kinds

LEMMA Entered ==
  ASSUME SplitInv, ScanNormal, NEW t \in Tokens, t.first = index, Opens(t), t.kind \in Enclosing
  PROVE  /\ index' = t.body /\ Inside(t, t.body, state') /\ state'.is # "normal"
         /\ NoBreak /\ (has_code' <=> has_code \/ t.kind \in Code)
  <1> DEFINE c == At(index)
             next == At(index + 1)
  <1>1. StateOK /\ Size \in Nat /\ index \in 1..Size /\ has_code \in BOOLEAN /\ t.body \in Nat
    <2>1. index <= Size
      BY DEF ScanNormal, Scanning, Size
    <2> QED BY <2>1, Positions, TokenIs
  <1>2. c = Char(Text, t.first) /\ next = Char(Text, t.first + 1)
    BY <1>1, SameCharacters
  <1>3. /\ t.first < t.body /\ Within(t, t.body)
        /\ t.kind \in {"string", "name", "block"} => t.body - 1 \notin t.marks
        /\ t.kind = "dollar" => t.open \/ t.body <= t.last + 1 - (t.body - t.first)
        /\ t.kind = "block" => Depth(t, t.body) = 1
    BY <1>1, AtBody
  <1> HIDE DEF c, next
  <1>4. CASE t.kind = "string"
    <2>1. c = "'" /\ t.body = index + 1
      BY <1>2, <1>4 DEF Opens, IsQuoted
    <2>2. state' = [In("single") EXCEPT !.escapes = EscapesAt(index)] /\ Skip(1) /\ has_code' = TRUE /\ NoBreak
      BY <2>1 DEF ScanNormal, c
    <2>3. EscapesAt(index) <=> Escapes(Tokens, t)
      BY <1>1, <1>4, PrefixSeen
    <2>4. EscapesAt(index) = Escapes(Tokens, t)
      BY <2>3 DEF EscapesAt, Escapes
    <2>5. state'.is = "single" /\ state'.escapes = Escapes(Tokens, t)
      BY <2>2, <2>4, StateFields
    <2> QED BY <1>3, <1>4, <2>1, <2>2, <2>5 DEF Inside, Skip, Code
  <1>5. CASE t.kind = "name"
    <2>1. c = "\"" /\ t.body = index + 1
      BY <1>2, <1>5 DEF Opens, IsQuoted
    <2>2. state' = In("double") /\ Skip(1) /\ has_code' = TRUE /\ NoBreak
      BY <2>1 DEF ScanNormal, c
    <2>3. state'.is = "double"
      BY <2>2, StateFields DEF Kinds
    <2> QED BY <1>3, <1>5, <2>1, <2>2, <2>3 DEF Inside, Skip, Code
  <1>6. CASE t.kind = "dollar"
    <2>1. c = "$" /\ IsTag(Text, index, t.body - 1)
      BY <1>2, <1>6 DEF Opens, IsDollar
    <2>2. t.body - 1 \in 1..Size /\ t.body - 1 \in (index + 1)..Size
      BY <1>1, <2>1, TagIsThere
    <2> DEFINE tag == SubSeq(Text, index, t.body - 1)
    <2>3. Delimiters(index) = {SubSeq(Text, index, j) : j \in {k \in 1..Size : IsTag(Text, index, k)}}
      BY <1>1, <1>2, <2>1, TagSeen
    <2>4. tag \in Delimiters(index) /\ \A d \in Delimiters(index) : d = tag
      BY <1>1, <2>1, <2>2, <2>3, OneTag
    <2>5. Len(tag) = t.body - index
      <3>1. Len(tag) = t.body - 1 + 1 - index
        BY <1>1, <2>1, TagComes
      <3> QED BY <1>1, <3>1
    <2> HIDE DEF tag
    <2>6. /\ has_code' = TRUE /\ NoBreak
          /\ \/ \E d \in Delimiters(index) : state' = [In("dollar") EXCEPT !.delimiter = d] /\ Skip(Len(d))
             \/ Delimiters(index) = {} /\ UNCHANGED state /\ Skip(1)
      BY <2>1 DEF ScanNormal, c
    <2>7. state' = [In("dollar") EXCEPT !.delimiter = tag] /\ Skip(Len(tag))
      BY <2>4, <2>6
    <2>8. state'.is = "dollar" /\ state'.delimiter = tag /\ index' = t.body
      BY <1>1, <2>5, <2>7, StateFields DEF Skip
    <2> QED BY <1>3, <1>6, <2>6, <2>8 DEF Inside, Code, tag
  <1>7. CASE t.kind = "line"
    <2>1. c = "-" /\ next = "-" /\ t.body = index + 2
      BY <1>2, <1>7 DEF Opens, IsLine
    <2>2. state' = In("line") /\ Skip(2) /\ UNCHANGED has_code /\ NoBreak
      BY <2>1 DEF ScanNormal, c, next
    <2>3. state'.is = "line"
      BY <2>2, StateFields DEF Kinds
    <2> QED BY <1>3, <1>7, <2>1, <2>2, <2>3 DEF Inside, Skip, Code
  <1>8. CASE t.kind = "block"
    <2>1. c = "/" /\ next = "*" /\ t.body = index + 2
      BY <1>2, <1>8 DEF Opens, IsBlock
    <2>2. state' = [In("block") EXCEPT !.depth = 1] /\ Skip(2) /\ UNCHANGED has_code /\ NoBreak
      BY <2>1 DEF ScanNormal, c, next
    <2>3. state'.is = "block" /\ state'.depth = 1
      BY <2>2, StateFields
    <2> QED BY <1>3, <1>8, <2>1, <2>2, <2>3 DEF Inside, Skip, Code
  <1> QED BY <1>4, <1>5, <1>6, <1>7, <1>8 DEF Enclosing

\* A character that begins nothing.
LEMMA Passed ==
  ASSUME SplitInv, ScanNormal, NEW t \in Tokens, t.kind \in Runs, index \in Span(t)
  PROVE  /\ index' = index + 1 /\ state' = state /\ NoBreak /\ (has_code' <=> has_code \/ t.kind \in Code)
  <1> DEFINE c == At(index)
             next == At(index + 1)
  <1>1. StateOK /\ Size \in Nat /\ index \in 1..Size /\ has_code \in BOOLEAN
    <2>1. index <= Size
      BY DEF ScanNormal, Scanning, Size
    <2> QED BY <2>1, Positions
  <1>2. ~IsSpecial(Text, index) /\ (t.kind = "blank" <=> Char(Text, index) \in Blanks)
    BY <1>1, RunIsPlain
  <1>3. c = Char(Text, index) /\ next = Char(Text, index + 1)
    BY <1>1, SameCharacters
  <1>4. t.kind \in Code <=> c \notin Blank
    BY <1>2, <1>3, SameClasses DEF Runs, Code
  <1>5. c \notin {"'", "\"", ";"} /\ ~(c = "-" /\ next = "-") /\ ~(c = "/" /\ next = "*")
    BY <1>2, <1>3 DEF IsSpecial
  <1>6. c = "$" => Delimiters(index) = {}
    <2> SUFFICES ASSUME c = "$" PROVE Delimiters(index) = {}
      OBVIOUS
    <2>1. \A j \in 1..Size : ~IsTag(Text, index, j)
      BY <1>2, <1>3 DEF IsSpecial, Size
    <2> QED BY <1>1, <1>3, <2>1, TagSeen
  <1>7. CASE c = "$"
    <2>1. c \notin Blank
      BY <1>7 DEF Blank
    <2>2. has_code' = TRUE /\ NoBreak /\ UNCHANGED state /\ Skip(1)
      BY <1>6, <1>7 DEF ScanNormal
    <2> QED BY <1>4, <2>1, <2>2 DEF Skip
  <1>8. CASE c # "$"
    <2>1. has_code' = (has_code \/ c \notin Blank) /\ Skip(1) /\ UNCHANGED state /\ NoBreak
      BY <1>5, <1>8 DEF ScanNormal
    <2> QED BY <1>1, <1>4, <2>1 DEF Skip
  <1> QED BY <1>7, <1>8

\* A semicolon that ends a statement.
LEMMA Ended ==
  ASSUME SplitInv, Cut, ScanNormal, NEW t \in Tokens, t.kind = "end", t.first = index
  PROVE  /\ index' = index + 1 /\ state' = state /\ t.last = index /\ ~t.open /\ Cut'
  <1>1. StateOK /\ Size \in Nat /\ index \in 1..Size /\ EndsOf(Tokens) \subseteq 1..Size
    <2>1. index <= Size
      BY DEF ScanNormal, Scanning, Size
    <2> QED BY <2>1, Positions, EndsType
  <1>2. Char(Text, index) = ";" /\ t.last = index /\ ~t.open
    <2>1. Opens(t)
      BY <1>1, EachOpens DEF Runs
    <2>2. ~t.open
      BY <1>1, TokenIs DEF Enclosing
    <2> QED BY <2>1, <2>2 DEF Opens
  <1>3. At(index) = ";"
    BY <1>1, <1>2, SameCharacters
  <1>4. statements' = Found(index) /\ start' = index + 1 /\ has_code' = FALSE /\ Skip(1) /\ UNCHANGED state
    BY <1>3 DEF ScanNormal
  <1>5. Tokens' = Tokens /\ Text' = Text /\ index' = index + 1
    BY <1>4, SameText DEF ScanNormal, Skip
  <1>6. index \in EndsOf(Tokens)
    BY DEF EndsOf
  <1>7. {Found(index)[i] : i \in DOMAIN Found(index)} = {x \in StatementsOf(Text, Tokens) : x[2] + 1 <= index}
    BY <1>6, FindsStatement
  <1>8. \A x \in StatementsOf(Text, Tokens) : x[2] + 1 <= index <=> x[2] + 1 < index + 1
    <2> SUFFICES ASSUME NEW x \in StatementsOf(Text, Tokens) PROVE x[2] + 1 <= index <=> x[2] + 1 < index + 1
      OBVIOUS
    <2>1. PICK a, b : IsPart(a, b) /\ x = <<a + 1, b - 1>>
      BY <1>1, PartIsStatement
    <2>2. b \in Nat
      BY <1>1, <2>1, PartTypes
    <2>3. x[2] + 1 = b
      BY <2>1, <2>2
    <2> QED BY <1>1, <2>2, <2>3
  <1>9. ~HasCode(Tokens, index + 1, index + 1 - 1)
    <2> SUFFICES ASSUME HasCode(Tokens, index + 1, index + 1 - 1) PROVE FALSE
      OBVIOUS
    <2>1. PICK u \in Tokens : index + 1 <= u.first /\ u.first <= index + 1 - 1
      BY DEF HasCode
    <2> QED BY <1>1, <2>1, TokenIs
  <1>10. start' - 1 \in EndsOf(Tokens)
    BY <1>1, <1>4, <1>6
  <1>11. \A e \in EndsOf(Tokens) : e < start' \/ index' <= e
    BY <1>1, <1>4, <1>5
  <1>12. {statements'[i] : i \in DOMAIN statements'} = {x \in StatementsOf(Text, Tokens) : x[2] + 1 < start'}
    BY <1>4, <1>7, <1>8
  <1>13. has_code' <=> HasCode(Tokens, start', index' - 1)
    <2>1. start' = index + 1 /\ index' = index + 1 /\ ~has_code'
      BY <1>4, <1>5
    <2>2. index' - 1 = index + 1 - 1
      BY <1>1, <2>1
    <2>3. ~HasCode(Tokens, start', index + 1 - 1)
      BY <1>9, <2>1
    <2> QED BY <2>1, <2>2, <2>3
  <1> HIDE DEF ScanNormal
  <1>14. Cut'
    BY <1>5, <1>10, <1>11, <1>12, <1>13 DEF Cut
  <1> QED BY <1>2, <1>4, <1>5, <1>14

LEMMA NormalLex ==
  ASSUME SplitInv, Place, Cut, ScanNormal
  PROVE  Place' /\ Cut'
  <1>1. StateOK /\ Size \in Nat /\ index \in 1..Size /\ state.is = "normal" /\ Stay
    <2>1. index <= Size /\ state.is = "normal" /\ Stay
      BY DEF ScanNormal, Scanning, Size
    <2> QED BY <2>1, Positions
  <1>2. PICK t \in Tokens : index \in Span(t) /\ (index = t.first \/ t.kind \in Runs)
    BY <1>1 DEF Place, Between
  <1>3. t.first \in Nat /\ t.last \in Nat /\ t.first <= index /\ index <= t.last
    BY <1>1, <1>2, TokenIs DEF Span
  <1>4. CASE t.kind \in Runs
    <2>1. index' = index + 1 /\ state' = state /\ NoBreak /\ (has_code' <=> has_code \/ t.kind \in Code)
      BY <1>2, <1>4, Passed
    <2>2. Between(index')
      BY <1>1, <1>2, <1>4, <2>1, RunGoesOn
    <2>3. index' \in (index + 1)..(t.last + 1) /\ t.kind # "end"
      BY <1>1, <1>3, <1>4, <2>1 DEF Runs
    <2> QED BY <1>1, <1>2, <2>1, <2>2, <2>3, SamePlace, CutGoesOn
  <1>5. CASE t.kind \notin Runs
    <2>1. index = t.first /\ Opens(t)
      BY <1>1, <1>2, <1>5, EachOpens
    <2>2. CASE t.kind = "end"
      <3>1. index' = t.last + 1 /\ state' = state /\ ~t.open /\ Cut'
        BY <2>1, <2>2, Ended
      <3>2. Between(index')
        BY <1>1, <3>1, Leaves
      <3> QED BY <1>1, <3>1, <3>2, SamePlace
    <2>3. CASE t.kind \in Enclosing
      <3>1. /\ index' = t.body /\ Inside(t, t.body, state') /\ state'.is # "normal"
            /\ NoBreak /\ (has_code' <=> has_code \/ t.kind \in Code)
        BY <2>1, <2>3, Entered
      <3>2. index < t.body /\ t.body \in Nat /\ t.body <= t.last + 1
        BY <1>1, <1>3, <2>1, <2>3, AtBody, TokenIs DEF Within
      <3>3. index' \in (index + 1)..(t.last + 1) /\ t.kind # "end"
        BY <1>1, <1>3, <2>3, <3>1, <3>2 DEF Enclosing
      <3> QED BY <1>1, <1>2, <3>1, <3>3, SamePlace, CutGoesOn
    <2> QED BY <2>1, <2>2, <2>3, KindsApart
  <1> QED BY <1>4, <1>5

-----------------------------------------------------------------------------
(* Inside a token, and out of it                                             *)

\* The scanner goes on in the token, or it comes to its end.
LEMMA InsideLex ==
  ASSUME SplitInv, Cut, NEW t \in Tokens, Opens(t), t.kind \in Enclosing, index \in 1..Size,
         Within(t, index), NEW n \in Nat \ {0}, Skip(n), UNCHANGED has_code, NoBreak, Stay,
         \/ Inside(t, index', state') /\ state'.is # "normal"
         \/ index' = t.last + 1 /\ ~t.open /\ state' = Normal
  PROVE  Place' /\ Cut'
  <1>1. /\ StateOK /\ Size \in Nat /\ has_code \in BOOLEAN /\ index' = index + n
        /\ t.first \in Nat /\ t.last \in Nat /\ t.body \in Nat /\ t.first < t.body
        /\ t.open => t.last = Size
    BY Positions, TokenIs, AtBody DEF Skip
  <1>2. t.body <= index /\ index <= t.last
    BY <1>1 DEF Within
  <1>3. index \in Span(t) /\ t.kind # "end"
    BY <1>1, <1>2 DEF Span, Enclosing
  <1>4. index' \in (index + 1)..(t.last + 1)
    <2>1. CASE Inside(t, index', state')
      <3>1. index' <= t.last + 1
        BY <1>1, <2>1 DEF Inside, Within
      <3> QED BY <1>1, <3>1
    <2>2. CASE index' = t.last + 1
      BY <1>1, <1>2, <2>2
    <2> QED BY <2>1, <2>2
  <1>5. has_code' <=> has_code \/ t.kind \in Code
    <2>1. t.kind \in Code => has_code
      BY <1>1, <1>2, InsideIsCode
    <2> QED BY <1>1, <2>1
  <1>6. Cut'
    BY <1>3, <1>4, <1>5, CutGoesOn
  <1>7. CASE Inside(t, index', state') /\ state'.is # "normal"
    BY <1>6, <1>7, SamePlace
  <1>8. CASE index' = t.last + 1 /\ ~t.open /\ state' = Normal
    <2>1. Between(index')
      BY <1>1, <1>8, Leaves
    <2> QED BY <1>6, <1>8, <2>1, SamePlace, StateTypes
  <1> QED BY <1>7, <1>8

\* The token that the scanner is in.
LEMMA InsideToken ==
  ASSUME SplitInv, Place, NEW what \in Kinds \ {"normal"}, Scanning(what)
  PROVE  /\ StateOK /\ Size \in Nat /\ index \in 1..Size
         /\ \E t \in Tokens : Inside(t, index, state) /\ Within(t, index) /\ Opens(t) /\ t.kind \in Enclosing
  <1>1. StateOK /\ Size \in Nat /\ index \in 1..Size
    <2>1. index <= Size
      BY DEF Scanning, Size
    <2> QED BY <2>1, Positions
  <1>2. PICK t \in Tokens : Inside(t, index, state)
    BY DEF Place, Scanning
  <1>3. Within(t, index) /\ t.kind \in Enclosing
    BY <1>2 DEF Inside, Enclosing
  <1>4. t.kind \notin Runs
    BY <1>3 DEF Enclosing, Runs
  <1>5. Opens(t)
    BY <1>1, <1>4, EachOpens
  <1> QED BY <1>1, <1>2, <1>3, <1>5

LEMMA SingleLex ==
  ASSUME SplitInv, Place, Cut, ScanSingle
  PROVE  Place' /\ Cut'
  <1> DEFINE c == At(index)
             next == At(index + 1)
  <1>1. Scanning("single") /\ UNCHANGED has_code /\ NoBreak /\ Stay
    BY DEF ScanSingle
  <1>2. /\ StateOK /\ Size \in Nat /\ index \in 1..Size
        /\ \E t \in Tokens : Inside(t, index, state) /\ Within(t, index) /\ Opens(t) /\ t.kind \in Enclosing
    BY <1>1, InsideToken DEF Kinds
  <1>3. PICK t \in Tokens : Inside(t, index, state) /\ Within(t, index) /\ Opens(t) /\ t.kind \in Enclosing
    BY <1>2
  <1>4. t.kind = "string" /\ state.is = "single" /\ state.escapes = Escapes(Tokens, t) /\ index - 1 \notin t.marks
    BY <1>1, <1>3 DEF Inside, Scanning
  <1>5. IsQuoted(Text, t, "'", Escapes(Tokens, t)) /\ Escapes(Tokens, t) \in BOOLEAN
    BY <1>3, <1>4 DEF Opens, Escapes
  <1> DEFINE goes(j) == Within(t, j) /\ j - 1 \notin t.marks
  <1>6. /\ state.escapes /\ c = "\\" => IF index < Size THEN goes(index + 2) ELSE goes(index + 1)
        /\ c = "'" /\ next = "'" => goes(index + 2)
        /\ c = "'" /\ next # "'" => index = t.last /\ ~t.open
        /\ c # "'" /\ ~(state.escapes /\ c = "\\") => goes(index + 1)
    BY <1>2, <1>3, <1>4, <1>5, QuotedGoesOn, SameCharacters
  <1>7. ASSUME goes(index'), UNCHANGED state PROVE Inside(t, index', state') /\ state'.is # "normal"
    BY <1>4, <1>7 DEF Inside
  <1> HIDE DEF goes, c, next
  <1>8. CASE state.escapes /\ c = "\\" /\ Skip(IF index < Size THEN 2 ELSE 1) /\ UNCHANGED state
    <2>1. PICK n \in Nat \ {0} : Skip(n) /\ goes(index')
      BY <1>6, <1>8 DEF Skip
    <2> QED BY <1>1, <1>2, <1>3, <1>7, <1>8, <2>1, InsideLex
  <1>9. CASE c = "'" /\ next = "'" /\ Skip(2) /\ UNCHANGED state
    <2>1. goes(index')
      BY <1>6, <1>9 DEF Skip
    <2> QED BY <1>1, <1>2, <1>3, <1>7, <1>9, <2>1, InsideLex
  <1>10. CASE c = "'" /\ next # "'" /\ Skip(1) /\ state' = Normal
    <2>1. index' = t.last + 1 /\ ~t.open
      BY <1>6, <1>10 DEF Skip
    <2> QED BY <1>1, <1>2, <1>3, <1>10, <2>1, InsideLex
  <1>11. CASE c # "'" /\ ~(state.escapes /\ c = "\\") /\ Skip(1) /\ UNCHANGED state
    <2>1. goes(index')
      BY <1>6, <1>11 DEF Skip
    <2> QED BY <1>1, <1>2, <1>3, <1>7, <1>11, <2>1, InsideLex
  <1> QED BY <1>8, <1>9, <1>10, <1>11 DEF ScanSingle, c, next, Size

LEMMA DoubleLex ==
  ASSUME SplitInv, Place, Cut, ScanDouble
  PROVE  Place' /\ Cut'
  <1> DEFINE quote == "\""
             escapes == FALSE
             c == At(index)
             next == At(index + 1)
  <1>1. Scanning("double") /\ UNCHANGED has_code /\ NoBreak /\ Stay
    BY DEF ScanDouble
  <1>2. /\ StateOK /\ Size \in Nat /\ index \in 1..Size
        /\ \E t \in Tokens : Inside(t, index, state) /\ Within(t, index) /\ Opens(t) /\ t.kind \in Enclosing
    BY <1>1, InsideToken DEF Kinds
  <1>3. PICK t \in Tokens : Inside(t, index, state) /\ Within(t, index) /\ Opens(t) /\ t.kind \in Enclosing
    BY <1>2
  <1>4. t.kind = "name" /\ state.is = "double" /\ index - 1 \notin t.marks
    BY <1>1, <1>3 DEF Inside, Scanning
  <1>5. /\ IsQuoted(Text, t, quote, escapes) /\ escapes \in BOOLEAN /\ ~escapes
        /\ quote # "\\" /\ quote # "none"
    BY <1>3, <1>4, Zenon DEF Opens
  <1> HIDE DEF quote, escapes
  <1> DEFINE goes(j) == Within(t, j) /\ j - 1 \notin t.marks
  <1>6. /\ c = quote /\ next = quote => goes(index + 2)
        /\ c = quote /\ next # quote => index = t.last /\ ~t.open
        /\ c # quote => goes(index + 1)
    BY <1>2, <1>3, <1>4, <1>5, QuotedGoesOn, SameCharacters
  <1>7. ASSUME goes(index'), UNCHANGED state PROVE Inside(t, index', state') /\ state'.is # "normal"
    BY <1>4, <1>7 DEF Inside
  <1> HIDE DEF goes, c, next
  <1>8. CASE c = quote /\ next = quote /\ Skip(2) /\ UNCHANGED state
    <2>1. goes(index')
      BY <1>6, <1>8 DEF Skip
    <2> QED BY <1>1, <1>2, <1>3, <1>7, <1>8, <2>1, InsideLex
  <1>9. CASE c = quote /\ next # quote /\ Skip(1) /\ state' = Normal
    <2>1. index' = t.last + 1 /\ ~t.open
      BY <1>6, <1>9 DEF Skip
    <2> QED BY <1>1, <1>2, <1>3, <1>9, <2>1, InsideLex
  <1>10. CASE c # quote /\ Skip(1) /\ UNCHANGED state
    <2>1. goes(index')
      BY <1>6, <1>10 DEF Skip
    <2> QED BY <1>1, <1>2, <1>3, <1>7, <1>10, <2>1, InsideLex
  <1> QED BY <1>8, <1>9, <1>10 DEF ScanDouble, quote, c, next

LEMMA DollarLex ==
  ASSUME SplitInv, Place, Cut, ScanDollar
  PROVE  Place' /\ Cut'
  <1>1. Scanning("dollar") /\ UNCHANGED has_code /\ NoBreak /\ Stay
    BY DEF ScanDollar
  <1>2. /\ StateOK /\ Size \in Nat /\ index \in 1..Size
        /\ \E t \in Tokens : Inside(t, index, state) /\ Within(t, index) /\ Opens(t) /\ t.kind \in Enclosing
    BY <1>1, InsideToken DEF Kinds
  <1>3. PICK t \in Tokens : Inside(t, index, state) /\ Within(t, index) /\ Opens(t) /\ t.kind \in Enclosing
    BY <1>2
  <1> DEFINE tag == SubSeq(Text, t.first, t.body - 1)
             room(j) == t.open \/ j <= t.last + 1 - (t.body - t.first)
  <1>4. t.kind = "dollar" /\ state.is = "dollar" /\ state.delimiter = tag /\ room(index)
    BY <1>1, <1>3 DEF Inside, Scanning
  <1>5. IsDollar(Text, t)
    BY <1>3, <1>4 DEF Opens
  <1>6. /\ StartsWith(index, tag) => index + Len(tag) = t.last + 1 /\ ~t.open
        /\ ~StartsWith(index, tag) => Within(t, index + 1) /\ room(index + 1)
    BY <1>2, <1>3, <1>4, <1>5, DollarGoesOn
  <1>7. ASSUME Within(t, index'), room(index'), UNCHANGED state PROVE Inside(t, index', state') /\ state'.is # "normal"
    BY <1>4, <1>7 DEF Inside
  <1>8. Len(tag) \in Nat \ {0}
    <2>1. IsTag(Text, t.first, t.body - 1) /\ t.first \in 1..Size /\ t.body \in Nat
      BY <1>2, <1>5, TokenIs DEF IsDollar
    <2>2. Len(tag) = t.body - 1 + 1 - t.first /\ t.body - 1 \in (t.first + 1)..Size
      BY <1>2, <2>1, TagComes, TagIsThere
    <2> QED BY <2>1, <2>2
  <1> HIDE DEF tag, room
  <1>9. CASE StartsWith(index, tag) /\ Skip(Len(tag)) /\ state' = Normal
    <2>1. index' = t.last + 1 /\ ~t.open
      BY <1>6, <1>9 DEF Skip
    <2> QED BY <1>1, <1>2, <1>3, <1>8, <1>9, <2>1, InsideLex
  <1>10. CASE ~StartsWith(index, tag) /\ Skip(1) /\ UNCHANGED state
    <2>1. Inside(t, index', state') /\ state'.is # "normal"
      BY <1>6, <1>7, <1>10 DEF Skip
    <2> QED BY <1>1, <1>2, <1>3, <1>10, <2>1, InsideLex
  <1> QED BY <1>4, <1>9, <1>10 DEF ScanDollar

LEMMA LineLex ==
  ASSUME SplitInv, Place, Cut, ScanLine
  PROVE  Place' /\ Cut'
  <1>1. Scanning("line") /\ UNCHANGED has_code /\ NoBreak /\ Stay /\ Skip(1)
        /\ state' = IF At(index) \in {"\n", "\r"} THEN Normal ELSE state
    BY DEF ScanLine
  <1>2. /\ StateOK /\ Size \in Nat /\ index \in 1..Size
        /\ \E t \in Tokens : Inside(t, index, state) /\ Within(t, index) /\ Opens(t) /\ t.kind \in Enclosing
    BY <1>1, InsideToken DEF Kinds
  <1>3. PICK t \in Tokens : Inside(t, index, state) /\ Within(t, index) /\ Opens(t) /\ t.kind \in Enclosing
    BY <1>2
  <1>4. t.kind = "line" /\ state.is = "line"
    BY <1>1, <1>3 DEF Inside, Scanning
  <1>5. IsLine(Text, t)
    BY <1>3, <1>4 DEF Opens
  <1>6. IF At(index) \in {"\n", "\r"} THEN index = t.last /\ ~t.open ELSE Within(t, index + 1)
    BY <1>2, <1>3, <1>5, LineGoesOn, SameCharacters
  <1>7. CASE At(index) \in {"\n", "\r"}
    <2>1. index' = t.last + 1 /\ ~t.open /\ state' = Normal
      BY <1>1, <1>6, <1>7 DEF Skip
    <2> QED BY <1>1, <1>2, <1>3, <2>1, InsideLex
  <1>8. CASE At(index) \notin {"\n", "\r"}
    <2>1. Within(t, index') /\ state' = state
      BY <1>1, <1>6, <1>8 DEF Skip
    <2>2. Inside(t, index', state') /\ state'.is # "normal"
      BY <1>4, <2>1 DEF Inside
    <2> QED BY <1>1, <1>2, <1>3, <2>2, InsideLex
  <1> QED BY <1>7, <1>8

\* Two characters, as the scanner looks for them.
LEMMA PairSeen ==
  ASSUME StateOK, NEW i \in 1..Size, NEW a, NEW b, b # "none"
  PROVE  StartsWith(i, <<a, b>>) <=> Char(Text, i) = a /\ Char(Text, i + 1) = b
  <1> DEFINE two == <<a, b>>
             part == SubSeq(Text, i, i + 1)
  <1>1. Size \in Nat /\ Len(Text) = Size /\ Text \in Seq(STRING)
    BY TextType, SizeType DEF Size
  <1>2. two \in Seq({a, b}) /\ Len(two) = 2 /\ two[1] = a /\ two[2] = b
    OBVIOUS
  <1>3. i + Len(two) - 1 = i + 1
    BY <1>1, <1>2
  <1>4. StartsWith(i, two) <=> i + 1 <= Size /\ part = two
    BY <1>1, <1>3 DEF StartsWith
  <1>5. Char(Text, i + 1) = b => i + 1 <= Size
    BY <1>1 DEF Char
  <1>6. ASSUME i + 1 <= Size PROVE part = two <=> Char(Text, i) = a /\ Char(Text, i + 1) = b
    <2>1. part \in Seq(STRING) /\ Len(part) = 2 /\ part[1] = Text[i] /\ part[2] = Text[i + 1]
      BY <1>1, <1>6
    <2>2. Char(Text, i) = Text[i] /\ Char(Text, i + 1) = Text[i + 1]
      BY <1>1, <1>6 DEF Char
    <2> HIDE DEF part, two
    <2>3. ASSUME part[1] = two[1], part[2] = two[2] PROVE part = two
      <3>1. \A k \in 1..2 : part[k] = two[k]
        BY <2>3
      <3> QED BY <1>2, <2>1, <3>1
    <2> QED BY <1>2, <2>1, <2>2, <2>3
  <1> HIDE DEF two, part
  <1>7. StartsWith(i, two) <=> Char(Text, i) = a /\ Char(Text, i + 1) = b
    BY <1>4, <1>5, <1>6
  <1> QED BY <1>7 DEF two

LEMMA BlockLex ==
  ASSUME SplitInv, Place, Cut, ScanBlock
  PROVE  Place' /\ Cut'
  <1> DEFINE deeper == StartsWith(index, <<"/", "*">>)
             ends == StartsWith(index, <<"*", "/">>)
  <1>1. Scanning("block") /\ UNCHANGED has_code /\ NoBreak /\ Stay
    BY DEF ScanBlock
  <1>2. /\ StateOK /\ Size \in Nat /\ index \in 1..Size
        /\ \E t \in Tokens : Inside(t, index, state) /\ Within(t, index) /\ Opens(t) /\ t.kind \in Enclosing
    BY <1>1, InsideToken DEF Kinds
  <1>3. PICK t \in Tokens : Inside(t, index, state) /\ Within(t, index) /\ Opens(t) /\ t.kind \in Enclosing
    BY <1>2
  <1>4. t.kind = "block" /\ state.is = "block" /\ state.depth = Depth(t, index) /\ index - 1 \notin t.marks
    BY <1>1, <1>3 DEF Inside, Scanning
  <1>5. IsBlock(Text, t) /\ state \in States
    BY <1>2, <1>3, <1>4 DEF Opens, StateOK
  <1>6. /\ deeper <=> Char(Text, index) = "/" /\ Char(Text, index + 1) = "*"
        /\ ends <=> Char(Text, index) = "*" /\ Char(Text, index + 1) = "/"
    <2>1. "/" # "none" /\ "*" # "none"
      OBVIOUS
    <2>2. deeper <=> Char(Text, index) = "/" /\ Char(Text, index + 1) = "*"
      BY <1>2, <2>1, PairSeen
    <2>3. ends <=> Char(Text, index) = "*" /\ Char(Text, index + 1) = "/"
      BY <1>2, <2>1, PairSeen
    <2> QED BY <2>2, <2>3
  <1> DEFINE goes(j) == Within(t, j) /\ j - 1 \notin t.marks
  <1>7. /\ Depth(t, index) \in Nat \ {0}
        /\ deeper => goes(index + 2) /\ Depth(t, index + 2) = Depth(t, index) + 1
        /\ ends /\ Depth(t, index) = 1 => index + 2 = t.last + 1 /\ ~t.open
        /\ ends /\ Depth(t, index) # 1 => goes(index + 2) /\ Depth(t, index + 2) = Depth(t, index) - 1
        /\ ~deeper /\ ~ends => goes(index + 1) /\ Depth(t, index + 1) = Depth(t, index)
    BY <1>2, <1>3, <1>4, <1>5, <1>6, BlockGoesOn
  <1>8. ASSUME goes(index'), state'.is = "block", state'.depth = Depth(t, index')
        PROVE  Inside(t, index', state') /\ state'.is # "normal"
    BY <1>4, <1>8 DEF Inside
  <1> HIDE DEF goes, deeper, ends
  <1>9. CASE deeper /\ Skip(2) /\ state' = [state EXCEPT !.depth = @ + 1]
    <2>1. state'.is = "block" /\ state'.depth = Depth(t, index) + 1
      BY <1>4, <1>5, <1>9 DEF States
    <2>2. Inside(t, index', state') /\ state'.is # "normal"
      BY <1>7, <1>8, <1>9, <2>1 DEF Skip
    <2> QED BY <1>1, <1>2, <1>3, <1>9, <2>2, InsideLex
  <1>10. CASE ends /\ Skip(2) /\ state.depth = 1 /\ state' = Normal
    <2>1. index' = t.last + 1 /\ ~t.open
      BY <1>4, <1>7, <1>10 DEF Skip
    <2> QED BY <1>1, <1>2, <1>3, <1>10, <2>1, InsideLex
  <1>11. CASE ends /\ Skip(2) /\ state.depth # 1 /\ state' = [state EXCEPT !.depth = @ - 1]
    <2>1. state'.is = "block" /\ state'.depth = Depth(t, index) - 1
      BY <1>4, <1>5, <1>11 DEF States
    <2>2. Inside(t, index', state') /\ state'.is # "normal"
      BY <1>4, <1>7, <1>8, <1>11, <2>1 DEF Skip
    <2> QED BY <1>1, <1>2, <1>3, <1>11, <2>2, InsideLex
  <1>12. CASE ~deeper /\ ~ends /\ Skip(1) /\ UNCHANGED state
    <2>1. Inside(t, index', state') /\ state'.is # "normal"
      BY <1>4, <1>7, <1>8, <1>12 DEF Skip
    <2> QED BY <1>1, <1>2, <1>3, <1>12, <2>1, InsideLex
  <1> QED BY <1>9, <1>10, <1>11, <1>12 DEF ScanBlock, deeper, ends

-----------------------------------------------------------------------------
(* The end of the text                                                       *)

\* Statements that do not overlap are different ones.
LEMMA FoundCount ==
  ASSUME NEW found \in Seq(Nat \X Nat),
         \A i \in DOMAIN found : found[i][1] <= found[i][2],
         \A i, j \in DOMAIN found : i < j => found[i][2] < found[j][1]
  PROVE  Len(found) = Cardinality({found[i] : i \in DOMAIN found})
  <1> DEFINE all == {found[i] : i \in DOMAIN found}
             n == Len(found)
  <1>1. n \in Nat /\ DOMAIN found = 1..n /\ \A i \in 1..n : found[i] \in Nat \X Nat
    OBVIOUS
  <1>2. found \in Surjection(1..n, all)
    <2>1. found \in [1..n -> all]
      BY <1>1
    <2>2. \A x \in all : \E i \in 1..n : found[i] = x
      BY <1>1
    <2> QED BY <2>1, <2>2 DEF Surjection
  <1>3. found \in Injection(1..n, all)
    <2>1. ASSUME NEW i \in 1..n, NEW j \in 1..n, i < j PROVE found[i] # found[j]
      <3>1. found[i][1] \in Nat /\ found[i][2] \in Nat /\ found[j][1] \in Nat
        BY <1>1
      <3>2. found[i][1] <= found[i][2] /\ found[i][2] < found[j][1]
        BY <1>1, <2>1
      <3> QED BY <3>1, <3>2
    <2>2. \A i, j \in 1..n : found[i] = found[j] => i = j
      <3> SUFFICES ASSUME NEW i \in 1..n, NEW j \in 1..n, found[i] = found[j] PROVE i = j
        OBVIOUS
      <3>1. ~(i < j) /\ ~(j < i)
        BY <2>1
      <3> QED BY <1>1, <3>1
    <2>3. found \in [1..n -> all]
      BY <1>2 DEF Surjection
    <2> QED BY <2>2, <2>3 DEF Injection, IsInjective
  <1>4. ExistsBijection(1..n, all)
    BY <1>2, <1>3 DEF ExistsBijection, Bijection
  <1> HIDE DEF all, n
  <1>5. Cardinality(all) = n
    BY <1>1, <1>4, FS_CountingElements
  <1> QED BY <1>5 DEF all, n

\* The text ends inside a token: the scanner is inside it.
LEMMA EndsWhere ==
  ASSUME SplitInv, Place, index = Size + 1
  PROVE  EndsInside(Tokens) <=> state.is \notin {"normal", "line"}
  <1>1. StateOK /\ Size \in Nat
    BY Positions
  <1>2. CASE state.is = "normal"
    <2>1. \A t \in Tokens : index \notin Span(t)
      BY <1>1, TokenIs DEF Span
    <2>2. \A t \in Tokens : ~t.open
      BY <1>2, <2>1 DEF Place, Between
    <2> QED BY <1>2, <2>2 DEF EndsInside
  <1>3. CASE state.is # "normal"
    <2>1. PICK t \in Tokens : Inside(t, index, state)
      BY <1>3 DEF Place
    <2>2. /\ t.last \in Nat /\ t.last <= Size /\ t.first \in Nat /\ t.first <= t.last
          /\ t.body \in Nat
      BY <1>1, TokenIs
    <2>3. t.open /\ t.last = Size
      BY <1>1, <2>1, <2>2 DEF Inside, Within
    <2>4. \A u \in Tokens : u.open => u = t
      <3> SUFFICES ASSUME NEW u \in Tokens, u.open PROVE u = t
        OBVIOUS
      <3>1. u.last = Size /\ u.first \in Nat /\ u.first <= u.last
        BY <1>1, TokenIs
      <3> QED BY <1>1, <2>2, <2>3, <3>1, OneToken
    <2>5. EndsInside(Tokens) <=> t.kind # "line"
      BY <2>3, <2>4 DEF EndsInside
    <2>6. t.kind = "line" <=> state.is = "line"
      BY <2>1 DEF Inside
    <2> QED BY <1>3, <2>5, <2>6
  <1> QED BY <1>2, <1>3

LEMMA FinishLex ==
  ASSUME SplitInv, Place, Cut, Finish
  PROVE  SplitsWhereStatementsEnd'
  <1>1. StateOK /\ Size \in Nat /\ Size = Len(Text) /\ index = Size + 1
    BY Positions DEF Finish
  <1>2. Tokens' = Tokens /\ Text' = Text /\ sample' = sample
    BY DEF Finish, Tokens, Text
  <1>3. EndsInside(Tokens) <=> state.is \notin {"normal", "line"}
    BY <1>1, EndsWhere
  <1>4. CASE state.is \in {"normal", "line"}
    <2>1. phase' = "done" /\ statements' = Found(index)
      BY <1>1, <1>4 DEF Finish
    <2>2. {Found(index)[i] : i \in DOMAIN Found(index)} = {x \in StatementsOf(Text, Tokens) : x[2] + 1 <= index}
      BY <1>1, FindsStatement
    <2>3. \A x \in StatementsOf(Text, Tokens) : x[2] + 1 <= index
      <3> SUFFICES ASSUME NEW x \in StatementsOf(Text, Tokens) PROVE x[2] + 1 <= index
        OBVIOUS
      <3>1. PICK a, b : IsPart(a, b) /\ x = <<a + 1, b - 1>>
        BY <1>1, PartIsStatement
      <3>2. b \in 1..(Size + 1)
        BY <1>1, <3>1, PartTypes
      <3> QED BY <1>1, <3>1, <3>2
    <2>4. {statements'[i] : i \in DOMAIN statements'} = StatementsOf(Text, Tokens)
      BY <2>1, <2>2, <2>3
    <2>5. Len(statements') = Cardinality({statements'[i] : i \in DOMAIN statements'})
      <3>1. Apart'
        BY FinishInv DEF SplitInv
      <3> QED BY <3>1, FoundCount DEF Apart
    <2> QED BY <1>2, <1>3, <1>4, <2>1, <2>4, <2>5 DEF SplitsWhereStatementsEnd, Tokens
  <1>5. CASE state.is \notin {"normal", "line"}
    <2>1. phase' = "refused"
      BY <1>5 DEF Finish
    <2> QED BY <1>2, <1>3, <1>5, <2>1 DEF SplitsWhereStatementsEnd, Tokens
  <1> QED BY <1>4, <1>5

-----------------------------------------------------------------------------
(* Theorem: the statements are PostgreSQL's                                  *)

LEMMA LexInit == SplitInit => LexInv
  <1> SUFFICES ASSUME SplitInit PROVE LexInv
    OBVIOUS
  <1>1. SplitInv /\ StateOK /\ Size \in Nat
    BY SplitInitInv, Positions
  <1>2. state = Normal /\ index = 1 /\ start = 1 /\ has_code = FALSE /\ statements = <<>> /\ phase = "scan"
    BY DEF SplitInit
  <1>3. Between(1)
    <2>1. CASE Size = 0
      BY <1>1, <2>1, TokenIs DEF Between
    <2>2. CASE Size # 0
      <3>1. PICK t \in Tokens : 1 \in Span(t)
        BY <1>1, <2>2, TokenAt
      <3>2. t.first = 1
        BY <1>1, <3>1, TokenIs DEF Span
      <3> QED BY <3>1, <3>2 DEF Between
    <2> QED BY <2>1, <2>2
  <1>4. Place
    BY <1>2, <1>3, StateTypes DEF Place
  <1>5. Cut
    <2>1. \A e \in EndsOf(Tokens) : 1 <= e
      BY <1>1, EndsType
    <2>2. ~HasCode(Tokens, 1, 1 - 1)
      BY <1>1, TokenIs DEF HasCode
    <2>3. {x \in StatementsOf(Text, Tokens) : x[2] + 1 < 1} = {}
      <3> SUFFICES ASSUME NEW x \in StatementsOf(Text, Tokens), x[2] + 1 < 1 PROVE FALSE
        OBVIOUS
      <3>1. PICK a, b : IsPart(a, b) /\ x = <<a + 1, b - 1>>
        BY <1>1, PartIsStatement
      <3>2. b \in 1..(Size + 1)
        BY <1>1, <3>1, PartTypes
      <3> QED BY <1>1, <3>1, <3>2
    <2>4. {statements[i] : i \in DOMAIN statements} = {}
      BY <1>2
    <2> QED BY <1>2, <2>1, <2>2, <2>3, <2>4 DEF Cut
  <1>6. SplitsWhereStatementsEnd
    BY <1>2 DEF SplitsWhereStatementsEnd
  <1> QED BY <1>1, <1>4, <1>5, <1>6 DEF LexInv

LEMMA LexNext == LexInv /\ [SplitNext]_splitVars => LexInv'
  <1> SUFFICES ASSUME LexInv, [SplitNext]_splitVars PROVE LexInv'
    OBVIOUS
  <1>1. SplitInv'
    BY SplitNextInv DEF LexInv
  <1>2. CASE UNCHANGED splitVars
    <2>1. (phase = "scan" => Place /\ Cut)'
      BY <1>2 DEF LexInv, splitVars, Place, Cut, Between, Inside, Tokens, Text, Size
    <2>2. SplitsWhereStatementsEnd'
      BY <1>2 DEF LexInv, splitVars, SplitsWhereStatementsEnd, Text
    <2> QED BY <1>1, <2>1, <2>2 DEF LexInv
  <1>3. ASSUME phase = "scan", Place' /\ Cut', phase' = phase PROVE LexInv'
    <2>1. SplitsWhereStatementsEnd'
      BY <1>3 DEF SplitsWhereStatementsEnd
    <2> QED BY <1>1, <1>3, <2>1 DEF LexInv
  <1>4. SplitNext => phase = "scan" /\ SplitInv /\ Place /\ Cut
    BY DEF SplitNext, LexInv, Scanning, ScanNormal, ScanSingle, ScanDouble, ScanDollar, ScanLine, ScanBlock, Finish
  <1>5. CASE ScanNormal
    BY <1>3, <1>4, <1>5, NormalLex DEF ScanNormal, SplitNext, Stay
  <1>6. CASE ScanSingle
    BY <1>3, <1>4, <1>6, SingleLex DEF ScanSingle, SplitNext, Stay
  <1>7. CASE ScanDouble
    BY <1>3, <1>4, <1>7, DoubleLex DEF ScanDouble, SplitNext, Stay
  <1>8. CASE ScanDollar
    BY <1>3, <1>4, <1>8, DollarLex DEF ScanDollar, SplitNext, Stay
  <1>9. CASE ScanLine
    BY <1>3, <1>4, <1>9, LineLex DEF ScanLine, SplitNext, Stay
  <1>10. CASE ScanBlock
    BY <1>3, <1>4, <1>10, BlockLex DEF ScanBlock, SplitNext, Stay
  <1>11. CASE Finish
    <2>1. SplitsWhereStatementsEnd'
      BY <1>4, <1>11, FinishLex DEF SplitNext
    <2>2. phase' # "scan"
      BY <1>11 DEF Finish
    <2> QED BY <1>1, <2>1, <2>2 DEF LexInv
  <1> QED BY <1>2, <1>5, <1>6, <1>7, <1>8, <1>9, <1>10, <1>11 DEF SplitNext

\* The statements that split_postgresql_statements returns are those that PostgreSQL reads in
\* the text, each of them once, for any text that PgLexical reads (ReadingsAssumption); and it
\* refuses such a text just when that ends inside a string, a quoted name, a dollar quote or a
\* block comment.
THEOREM SplitterCutsAtEnds == SplitSpec => []SplitsWhereStatementsEnd
  <1>1. SplitInit => LexInv
    BY LexInit
  <1>2. LexInv /\ [SplitNext]_splitVars => LexInv'
    BY LexNext
  <1>3. LexInv => SplitsWhereStatementsEnd
    BY DEF LexInv
  <1> QED BY <1>1, <1>2, <1>3, PTL DEF SplitSpec

-----------------------------------------------------------------------------

\* The scanner stays inside the text it reads, whatever the text (split_postgresql_statements
\* indexes and slices it), and the statements it returns are not empty and do not overlap.
THEOREM SplitterStaysInText == SplitSpec => []TypeOK
  <1>1. SplitInit => SplitInv
    BY SplitInitInv
  <1>2. SplitInv /\ [SplitNext]_splitVars => SplitInv'
    BY SplitNextInv
  <1>3. SplitInv => TypeOK
    BY SplitInvImplies
  <1> QED BY <1>1, <1>2, <1>3, PTL DEF SplitSpec
=============================================================================
