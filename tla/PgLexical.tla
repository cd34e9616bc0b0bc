----------------------------- MODULE PgLexical -----------------------------
(***************************************************************************)
(* How PostgreSQL reads a text, as a condition on a finished reading and   *)
(* not as a scan: a reading divides the text into tokens, and each token   *)
(* is what its characters and those next to it make it.                    *)
(*                                                                         *)
(* A token is [kind, first, last, body, marks, depth, open].  What it      *)
(* encloses begins at "body"; "marks" are the places in it where two       *)
(* characters count as one (a doubled quote, what a backslash takes with   *)
(* it, the beginning or the end of a comment in a comment); "depth" is, in *)
(* a block comment, how many are open before each character from body on;  *)
(* a token that the text ends in is "open".                                *)
(***************************************************************************)
EXTENDS Naturals, Sequences, FiniteSets

Letters == {"a", "b", "e", "E", "u", "U", "_"}
WordCharacters == Letters \cup {"1", "$"}
Blanks == {" ", "\n", "\r", "\t"}

Enclosing == {"string", "name", "dollar", "line", "block"}
Code == {"word", "prefix", "other", "string", "name", "dollar"}

Char(text, i) == IF i \in 1..Len(text) THEN text[i] ELSE "none"
Span(t) == t.first..t.last

\* What a token encloses.
Content(t) == t.body..(IF t.open THEN t.last ELSE t.last - 1)

\* $$ or $tag$, from i to j.
IsTag(text, i, j) ==
    /\ i < j /\ Char(text, i) = "$" /\ Char(text, j) = "$"
    /\ \A l \in (i + 1)..(j - 1) : Char(text, l) \in WordCharacters \ {"$"}
    /\ j > i + 1 => Char(text, i + 1) \in Letters

\* The character at i begins a quote, a comment or a dollar quote, or it ends a statement.
IsSpecial(text, i) ==
    \/ Char(text, i) \in {"'", "\"", ";"}
    \/ Char(text, i) = "-" /\ Char(text, i + 1) = "-"
    \/ Char(text, i) = "/" /\ Char(text, i + 1) = "*"
    \/ Char(text, i) = "$" /\ \E j \in 1..Len(text) : IsTag(text, i, j)

\* E or U& in front of a string.
Introduces(text, i, j) ==
    /\ Char(text, j + 1) = "'"
    /\ \/ i = j /\ Char(text, i) \in {"e", "E"}
       \/ j = i + 1 /\ Char(text, i) \in {"u", "U"} /\ Char(text, j) = "&"

\* A string or a name: it ends at the first quote that is neither doubled nor taken by a
\* backslash.
IsQuoted(text, t, quote, escapes) ==
    LET escape(i) == escapes /\ Char(text, i) = "\\" IN
    /\ Char(text, t.first) = quote /\ t.body = t.first + 1
    /\ t.marks \subseteq Content(t)
    /\ \A m \in t.marks :
          /\ m + 1 \in Content(t) \ t.marks
          /\ escape(m) \/ (Char(text, m) = quote /\ Char(text, m + 1) = quote)
    /\ \A i \in Content(t) : Char(text, i) = quote \/ escape(i) =>
          \/ i \in t.marks \/ i - 1 \in t.marks
          \/ i = Len(text) /\ escape(i)
    /\ t.open \/ (t.body <= t.last /\ Char(text, t.last) = quote /\ Char(text, t.last + 1) # quote)

\* A dollar quote: it ends where its own tag comes again.
IsDollar(text, t) ==
    LET size == t.body - t.first
        again(i) == \A k \in 0..(size - 1) : Char(text, i + k) = Char(text, t.first + k)
        ends == t.last + 1 - size
    IN
    /\ IsTag(text, t.first, t.body - 1)
    /\ \A i \in t.body..t.last : again(i) => ~t.open /\ i >= ends
    /\ t.open \/ (t.body <= ends /\ again(ends))

\* A comment to the end of the line.
IsLine(text, t) ==
    LET newline(i) == Char(text, i) \in {"\n", "\r"} IN
    /\ Char(text, t.first) = "-" /\ Char(text, t.first + 1) = "-" /\ t.body = t.first + 2
    /\ \A i \in t.body..t.last : newline(i) => ~t.open /\ i = t.last
    /\ t.open \/ (t.body <= t.last /\ newline(t.last))

\* A comment with others in it.
Depth(t, i) == t.depth[i - t.body + 1]
IsBlock(text, t) ==
    LET begins(i) == Char(text, i) = "/" /\ Char(text, i + 1) = "*"
        stops(i) == Char(text, i) = "*" /\ Char(text, i + 1) = "/"
    IN
    /\ begins(t.first) /\ t.body = t.first + 2
    /\ t.marks \subseteq t.body..t.last
    /\ \A m \in t.marks :
          /\ m + 1 \in (t.body..t.last) \ t.marks
          /\ \/ begins(m) /\ Depth(t, m + 2) = Depth(t, m) + 1
             \/ stops(m) /\ Depth(t, m) = Depth(t, m + 2) + 1
    /\ \A i \in t.body..t.last :
          /\ Depth(t, i) > 0
          /\ begins(i) \/ stops(i) => i \in t.marks \/ i - 1 \in t.marks
          /\ i \notin t.marks /\ i - 1 \notin t.marks => Depth(t, i + 1) = Depth(t, i)
    /\ t.body <= t.last + 1 /\ \A i \in t.body..(t.last + 1) : Depth(t, i) \in Nat
    /\ Depth(t, t.body) = 1
    /\ t.open <=> Depth(t, t.last + 1) > 0

\* A string has escapes behind a prefix; behind U& they are character codes, which no quote
\* is part of.
Escapes(tokens, t) == \E u \in tokens : u.kind = "prefix" /\ u.last + 1 = t.first
NoQuoteInCode(text, t) ==
    Char(text, t.first - 1) = "&" => \A m \in t.marks : Char(text, m + 1) = "'" => Char(text, m) = "'"

IsToken(text, tokens, t) ==
    LET alone == t.first = t.last IN
    \/ t.kind = "blank" /\ \A i \in Span(t) : Char(text, i) \in Blanks
    \/ t.kind = "end" /\ alone /\ Char(text, t.first) = ";"
    \/ /\ t.kind = "word" /\ Char(text, t.first) \in Letters
       /\ \A i \in Span(t) : Char(text, i) \in WordCharacters \ {"$"}
       /\ Char(text, t.last + 1) \notin WordCharacters
       /\ ~Introduces(text, t.first, t.last) /\ ~(alone /\ Introduces(text, t.first, t.first + 1))
    \/ /\ t.kind = "prefix" /\ Introduces(text, t.first, t.last)
       /\ Char(text, t.first - 1) \notin WordCharacters
    \/ /\ t.kind = "other"
       /\ \A i \in Span(t) : Char(text, i) \notin Blanks \cup Letters /\ ~IsSpecial(text, i)
    \/ /\ t.kind = "string" /\ IsQuoted(text, t, "'", Escapes(tokens, t))
       /\ Escapes(tokens, t) => NoQuoteInCode(text, t)
    \/ t.kind = "name" /\ IsQuoted(text, t, "\"", FALSE)
    \/ t.kind = "dollar" /\ IsDollar(text, t)
    \/ t.kind = "line" /\ IsLine(text, t)
    \/ t.kind = "block" /\ IsBlock(text, t)

IsLexing(text, tokens) ==
    /\ \A t \in tokens :
          /\ t.first \in 1..Len(text) /\ t.last \in t.first..Len(text) /\ t.body \in Nat /\ t.open \in BOOLEAN
          /\ t.open => t.kind \in Enclosing /\ t.last = Len(text)
          /\ IsToken(text, tokens, t)
    /\ \A i \in 1..Len(text) : \E t \in tokens : i \in Span(t)
    /\ \A t, u \in tokens : t.first <= u.last /\ u.first <= t.last => t = u

-----------------------------------------------------------------------------
(* The statements of a text that is read so.                                 *)

EndsOf(tokens) == {t.first : t \in {u \in tokens : u.kind = "end"}}

\* From i to j there is more than blanks and comments.
HasCode(tokens, i, j) == \E t \in tokens : t.kind \in Code /\ i <= t.first /\ t.first <= j

\* <<first, last>> of the statements: what stands between two ends, with code in it.
StatementsOf(text, tokens) ==
    LET ends == EndsOf(tokens)
        parts == {c \in ({0} \cup ends) \X (ends \cup {Len(text) + 1}) :
                      /\ c[1] < c[2] /\ \A e \in ends : ~(c[1] < e /\ e < c[2])
                      /\ HasCode(tokens, c[1] + 1, c[2] - 1)}
    IN  {<<c[1] + 1, c[2] - 1>> : c \in parts}

\* The text ends inside something other than a line.
EndsInside(tokens) == \E t \in tokens : t.open /\ t.kind # "line"
=============================================================================
