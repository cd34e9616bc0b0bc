------------------------------ MODULE PgSplit ------------------------------
(***************************************************************************)
(* split_postgresql_statements (postgresql.rs): the scanner that cuts the  *)
(* SQL of a migration, or of a sync, into the statements that are executed *)
(* one by one.                                                             *)
(*                                                                         *)
(* A sample is a text with PostgreSQL's reading of it (PgLexical).  The    *)
(* scanner sees the characters only.                                       *)
(***************************************************************************)
EXTENDS PgLexical

CONSTANT Samples    \* [text, tokens]: the characters, and what PostgreSQL reads

ASSUME SamplesAssumption == \A s \in Samples : s.text \in Seq(STRING)
ASSUME ReadingsAssumption == \A s \in Samples : IsLexing(s.text, s.tokens)

VARIABLES
    sample,         \* the text that is split
    state,          \* PostgreSqlLexState: [is, escapes, delimiter, depth]
    index,          \* the next character
    start,          \* where the statement begins
    has_code,       \* it has something but blanks and comments
    statements,     \* <<first, last>> of the statements found
    phase

splitVars == <<sample, state, index, start, has_code, statements, phase>>

Blank == {" ", "\n", "\r", "\t"}
IdentifierStart == {"a", "b", "e", "E", "u", "U", "_"}
IdentifierContinue == IdentifierStart \cup {"1", "$"}

Normal == [is |-> "normal", escapes |-> FALSE, delimiter |-> <<>>, depth |-> 0]
In(what) == [Normal EXCEPT !.is = what]

Text == sample.text
At(i) == IF i \in 1..Len(Text) THEN Text[i] ELSE "none"
StartsWith(i, s) == i + Len(s) - 1 <= Len(Text) /\ SubSeq(Text, i, i + Len(s) - 1) = s

\* Mutant: an E that ends a name is taken for a prefix.
EscapesAfterE(quote) == At(quote - 1) \in {"e", "E"}

\* quote_uses_backslash_escapes
EscapesAt(quote) ==
    \/ At(quote - 1) \in {"e", "E"} /\ At(quote - 2) \notin IdentifierContinue
    \/ At(quote - 2) \in {"u", "U"} /\ At(quote - 1) = "&" /\ At(quote - 3) \notin IdentifierContinue

\* dollar_quote_delimiter: the delimiter that begins at i, none or one.
Delimiters(i) ==
    {SubSeq(Text, i, j) : j \in
        {k \in (i + 1)..Len(Text) :
            /\ Text[k] = "$"
            /\ \A l \in (i + 1)..(k - 1) : Text[l] \in IdentifierContinue \ {"$"}
            /\ k > i + 1 => Text[i + 1] \in IdentifierStart}}

-----------------------------------------------------------------------------
Skip(n) == index' = index + n
Stay == UNCHANGED <<sample, phase>>
NoBreak == UNCHANGED <<start, statements>>
Scanning(what) == phase = "scan" /\ state.is = what /\ index <= Len(Text)

\* The statement up to the character before "last", if it is one.
Found(last) == IF has_code THEN Append(statements, <<start, last - 1>>) ELSE statements

ScanNormal ==
    LET c == At(index)
        opens(what) == state' = what
    IN
    /\ Scanning("normal")
    /\ \/ c = "-" /\ At(index + 1) = "-" /\ opens(In("line")) /\ Skip(2) /\ UNCHANGED has_code /\ NoBreak
       \/ c = "/" /\ At(index + 1) = "*" /\ opens([In("block") EXCEPT !.depth = 1]) /\ Skip(2)
          /\ UNCHANGED has_code /\ NoBreak
       \/ c = "'" /\ opens([In("single") EXCEPT !.escapes = EscapesAt(index)]) /\ Skip(1)
          /\ has_code' = TRUE /\ NoBreak
       \/ c = "\"" /\ opens(In("double")) /\ Skip(1) /\ has_code' = TRUE /\ NoBreak
       \/ /\ c = "$" /\ has_code' = TRUE /\ NoBreak
          /\ \/ \E d \in Delimiters(index) : opens([In("dollar") EXCEPT !.delimiter = d]) /\ Skip(Len(d))
             \/ Delimiters(index) = {} /\ UNCHANGED state /\ Skip(1)
       \/ /\ c = ";" /\ statements' = Found(index) /\ start' = index + 1 /\ has_code' = FALSE
          /\ Skip(1) /\ UNCHANGED state
       \/ /\ c \notin {"'", "\"", "$", ";"}
          /\ ~(c = "-" /\ At(index + 1) = "-") /\ ~(c = "/" /\ At(index + 1) = "*")
          /\ has_code' = (has_code \/ c \notin Blank) /\ Skip(1) /\ UNCHANGED state /\ NoBreak
    /\ Stay

\* Mutant: a backslash always takes the next character with it, there or not.
ScanSinglePast ==
    LET c == At(index) IN
    /\ Scanning("single")
    /\ IF state.escapes /\ c = "\\" THEN Skip(2) /\ UNCHANGED state
       ELSE Skip(1) /\ state' = IF c = "'" THEN Normal ELSE state
    /\ UNCHANGED has_code /\ NoBreak /\ Stay

\* A backslash, where it counts, takes the next character with it; a quote is doubled
\* or the end.
ScanSingle ==
    LET c == At(index) IN
    /\ Scanning("single")
    /\ \/ state.escapes /\ c = "\\" /\ Skip(IF index < Len(Text) THEN 2 ELSE 1) /\ UNCHANGED state
       \/ c = "'" /\ At(index + 1) = "'" /\ Skip(2) /\ UNCHANGED state
       \/ c = "'" /\ At(index + 1) # "'" /\ Skip(1) /\ state' = Normal
       \/ c # "'" /\ ~(state.escapes /\ c = "\\") /\ Skip(1) /\ UNCHANGED state
    /\ UNCHANGED has_code /\ NoBreak /\ Stay

ScanDouble ==
    LET c == At(index) IN
    /\ Scanning("double")
    /\ \/ c = "\"" /\ At(index + 1) = "\"" /\ Skip(2) /\ UNCHANGED state
       \/ c = "\"" /\ At(index + 1) # "\"" /\ Skip(1) /\ state' = Normal
       \/ c # "\"" /\ Skip(1) /\ UNCHANGED state
    /\ UNCHANGED has_code /\ NoBreak /\ Stay

\* Mutant: a dollar sign that does not end the string is not passed.
ScanDollarStuck ==
    /\ Scanning("dollar")
    /\ IF StartsWith(index, state.delimiter) THEN Skip(Len(state.delimiter)) /\ state' = Normal
       ELSE Skip(IF At(index) = "$" THEN 0 ELSE 1) /\ UNCHANGED state
    /\ UNCHANGED has_code /\ NoBreak /\ Stay

ScanDollar ==
    /\ Scanning("dollar")
    /\ IF StartsWith(index, state.delimiter)
       THEN Skip(Len(state.delimiter)) /\ state' = Normal
       ELSE Skip(1) /\ UNCHANGED state
    /\ UNCHANGED has_code /\ NoBreak /\ Stay

ScanLine ==
    /\ Scanning("line")
    /\ state' = IF At(index) \in {"\n", "\r"} THEN Normal ELSE state
    /\ Skip(1) /\ UNCHANGED has_code /\ NoBreak /\ Stay

\* Comments nest.
ScanBlock ==
    LET deeper == StartsWith(index, <<"/", "*">>)
        ends == StartsWith(index, <<"*", "/">>)
    IN
    /\ Scanning("block")
    /\ \/ deeper /\ Skip(2) /\ state' = [state EXCEPT !.depth = @ + 1]
       \/ ends /\ Skip(2) /\ state' = IF state.depth = 1 THEN Normal ELSE [state EXCEPT !.depth = @ - 1]
       \/ ~deeper /\ ~ends /\ Skip(1) /\ UNCHANGED state
    /\ UNCHANGED has_code /\ NoBreak /\ Stay

\* The end: an error for what is still open, or the last statement.
Finish ==
    /\ phase = "scan" /\ index > Len(Text)
    /\ IF state.is \in {"normal", "line"}
       THEN phase' = "done" /\ statements' = Found(Len(Text) + 1)
       ELSE phase' = "refused" /\ UNCHANGED statements
    /\ UNCHANGED <<sample, state, index, start, has_code>>

SplitInit ==
    /\ sample \in Samples
    /\ state = Normal /\ index = 1 /\ start = 1
    /\ has_code = FALSE
    /\ statements = <<>>
    /\ phase = "scan"

SplitNext ==
    ScanNormal \/ ScanSingle \/ ScanDouble \/ ScanDollar \/ ScanLine \/ ScanBlock \/ Finish

SplitSpec == SplitInit /\ [][SplitNext]_splitVars /\ WF_splitVars(SplitNext)

-----------------------------------------------------------------------------
(* Properties.                                                               *)

TypeOK ==
    /\ state.is \in {"normal", "single", "double", "dollar", "line", "block"}
    /\ state.is = "block" <=> state.depth > 0
    /\ index \in 1..(Len(Text) + 1)
    /\ start \in 1..index
    /\ has_code \in BOOLEAN
    /\ \A i \in DOMAIN statements : statements[i][1] <= statements[i][2] /\ statements[i][2] <= Len(Text)
    /\ \A i, j \in DOMAIN statements : i < j => statements[i][2] < statements[j][1]
    /\ phase \in {"scan", "done", "refused"}

\* A text that is complete is cut exactly where a semicolon ends a statement: not in
\* strings, quoted names, dollar quotes or comments, whatever stands in them and next
\* to them.  A text that ends inside one of these is refused, and only such a text:
\* nothing of it is executed.
SplitsWhereStatementsEnd ==
    /\ phase # "scan" => (phase = "refused" <=> EndsInside(sample.tokens))
    /\ phase = "done" =>
          /\ {statements[i] : i \in DOMAIN statements} = StatementsOf(Text, sample.tokens)
          /\ Len(statements) = Cardinality(StatementsOf(Text, sample.tokens))

\* The scanner comes to an end.
ScanEnds == <>(phase # "scan")
=============================================================================
