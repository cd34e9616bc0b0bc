------------------------------ MODULE MCPgSplit ------------------------------
(***************************************************************************)
(* Instances of PgSplit for TLC: texts put together from elements of       *)
(* PostgreSQL's lexical structure, so that their reading is known, and cut *)
(* short inside the last element.                                          *)
(***************************************************************************)
EXTENDS PgSplit, SequencesExt

CONSTANT MaxElements    \* bound: elements of a text

(* An element is [chars, tokens, cuts]: so many characters can be left out   *)
(* at the end of it.                                                         *)
Token(kind, first, last) ==
    [kind |-> kind, first |-> first, last |-> last, body |-> first, marks |-> {}, depth |-> <<>>, open |-> FALSE]
Run(kind, chars) == [chars |-> chars, tokens |-> {Token(kind, 1, Len(chars))}, cuts |-> {}]

Enclosed(kind, first, body, chars, marks) ==
    [Token(kind, first, Len(chars)) EXCEPT !.body = body, !.marks = marks]
Quoted(kind, body, chars, marks, cuts) ==
    [chars |-> chars, tokens |-> {Enclosed(kind, 1, body, chars, marks)}, cuts |-> cuts]
Prefixed(size, chars, marks, cuts) ==
    [chars |-> chars, cuts |-> cuts,
     tokens |-> {Token("prefix", 1, size), Enclosed("string", size + 1, size + 2, chars, marks)}]
Nested(chars, marks, depth, cuts) ==
    [chars |-> chars, cuts |-> cuts,
     tokens |-> {[Enclosed("block", 1, 3, chars, marks) EXCEPT !.depth = depth]}]

Elements ==
    {Run("word", <<"a">>), Run("word", <<"e">>), Run("word", <<"a", "e">>), Run("other", <<"-">>),
     Run("other", <<"$", "1">>), Run("blank", <<" ">>), Run("end", <<";">>),
     Quoted("string", 2, <<"'", ";", "'", "'", "'">>, {3}, {1, 3, 4}),
     Quoted("string", 2, <<"'", "\\", "'">>, {}, 1..2),
     Prefixed(1, <<"E", "'", "\\", "'", ";", "'">>, {3}, 1..4),
     Prefixed(2, <<"u", "&", "'", "\\", "\\", "'">>, {4}, 1..3),
     Quoted("name", 2, <<"\"", "'", "\"", "\"", ";", "\"">>, {3}, {1, 2, 4, 5}),
     Quoted("dollar", 3, <<"$", "$", ";", "'", "$", "$">>, {}, 1..4),
     Quoted("dollar", 4, <<"$", "a", "$", "$", "$", ";", "$", "b", "$", "a", "$">>, {}, 1..8),
     Quoted("line", 3, <<"-", "-", "'", ";", "\n">>, {}, 1..3),
     Nested(<<"/", "*", "/", "*", ";", "*", "/", "'", "*", "/">>, {3, 6, 9}, <<1, 1, 2, 2, 2, 1, 1, 1, 0>>, 1..8)}

\* Side by side these are read as something else: a comment, one string or name, one word, a
\* prefix.  And the scanner takes a dollar sign for the rest of a name: one in a word is left
\* out, and so is a prefix right after a dollar quote.
Glue(d, e) ==
    LET last == Last(d.chars)
        next == Head(e.chars)
    IN  \/ last = "-" /\ next = "-"
        \/ last = next /\ last \in {"'", "\""}
        \/ last \in {"a", "e", "1"} /\ next \in {"a", "e", "E", "u", "$"}
        \/ d = Run("word", <<"e">>) /\ next = "'"
        \/ last = "$" /\ next \in {"E", "u"}

-----------------------------------------------------------------------------
Whole(es) == FlattenSeq([i \in DOMAIN es |-> es[i].chars])
Before(es, i) == Len(FlattenSeq([j \in 1..(i - 1) |-> es[j].chars]))

Moved(t, by) ==
    [t EXCEPT !.first = @ + by, !.last = @ + by, !.body = @ + by, !.marks = {m + by : m \in t.marks}]

\* A token that the text ends in.
Shortened(t, length) ==
    [t EXCEPT !.last = length, !.marks = {m \in t.marks : m < length}, !.open = TRUE,
              !.depth = IF t.kind = "block" THEN SubSeq(@, 1, length + 2 - t.body) ELSE @]

\* The elements with "cut" characters of the last left out.
SampleOf(es, cut) ==
    LET length == Len(Whole(es)) - cut IN
    [text |-> SubSeq(Whole(es), 1, length),
     tokens |-> {IF t.last > length THEN Shortened(t, length) ELSE t :
                    t \in UNION {{Moved(u, Before(es, i)) : u \in es[i].tokens} : i \in DOMAIN es}}]

MCSamples ==
    UNION {{SampleOf(es, cut) : cut \in {0} \cup es[Len(es)].cuts} :
        es \in {fs \in UNION {[1..n -> Elements] : n \in 1..MaxElements} :
                    \A i \in 1..(Len(fs) - 1) : ~Glue(fs[i], fs[i + 1])}}
=============================================================================
