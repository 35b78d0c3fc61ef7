---------------------------- MODULE SqlValidator ----------------------------
(***************************************************************************)
(* validate_sql (agent/nodes/sql_validator.py), the guard chain between    *)
(* the generator and the database, against a reading of the statement as   *)
(* SQL.  The guards work on the text, so a statement is a sequence of      *)
(* pieces of text and no more is assumed of it: words may touch, and then  *)
(* they are one word.                                                      *)
(***************************************************************************)
EXTENDS Naturals, SequencesExt

CONSTANT MaxPieces   \* bound on the length of the statements looked at

ASSUME PiecesAssumption == MaxPieces \in Nat

\* keyword: one of _BLOCKED_KEYWORDS; schema: one of _BLOCKED_SCHEMAS; into: the
\* word INTO, which the guards do not know; word: any other; the hidden ones: a literal or a quoted name that has such a word, or a
\* semicolon, between its quotes.  Upper and lower case are the same throughout.
Hidden == {"hidden_semicolon", "hidden_keyword", "hidden_schema"}
WordLike == {"select", "with", "keyword", "schema", "into", "word"}
Pieces == WordLike \cup Hidden \cup {"blank", "open", "semicolon", "other"}

VARIABLE sql

Init == sql = <<>>

\* The model writes its statement from left to right.
Write == \E piece \in Pieces : Len(sql) < MaxPieces /\ sql' = Append(sql, piece)

Spec == Init /\ [][Write]_sql

-----------------------------------------------------------------------------
(* str.lstrip, str.rstrip, str.strip                                        *)

LStrip(text, chars) ==
    LET first == SelectInSeq(text, LAMBDA piece : piece \notin chars)
    IN  IF first = 0 THEN <<>> ELSE SubSeq(text, first, Len(text))

RStrip(text, chars) ==
    SubSeq(text, 1, SelectLastInSeq(text, LAMBDA piece : piece \notin chars))

Strip(text) == LStrip(RStrip(text, {"blank"}), {"blank"})

-----------------------------------------------------------------------------
(* The four guards                                                          *)

(* mutant: the statement has to start with the keyword, parentheses or not *)
MutOpensAsRead(text) ==
    LET normalised == Strip(text)
    IN  normalised # <<>> /\ Head(normalised) \in {"select", "with"}

\* Guard 1: a prefix test, so that a longer word passes too.
OpensAsRead(text) ==
    LET normalised == LStrip(Strip(text), {"open"})
    IN  normalised # <<>> /\ Head(normalised) \in {"select", "with"}

\* Guard 2: a semicolon anywhere but in the trailing run of them.
Stacked(text) ==
    \E i \in DOMAIN RStrip(Strip(text), {"semicolon"}) :
        Strip(text)[i] \in {"semicolon", "hidden_semicolon"}

\* \b on both sides of the word.
Whole(text, i) ==
    /\ i = 1 \/ text[i - 1] \notin WordLike
    /\ i = Len(text) \/ text[i + 1] \notin WordLike

(* mutant: only words followed by a blank are found *)
MutFinds(text, visible, hidden) ==
    \E i \in DOMAIN text :
        (text[i] = visible /\ i < Len(text) /\ text[i + 1] = "blank") \/ text[i] = hidden

\* Guards 3 and 4: re.search, which knows nothing of quotes.
Finds(text, visible, hidden) ==
    \E i \in DOMAIN text : (text[i] = visible /\ Whole(text, i)) \/ text[i] = hidden

\* The first guard that fails names the error.
Verdict(text) ==
    IF ~OpensAsRead(text) THEN "only_select"
    ELSE IF Stacked(text) THEN "multiple_statements"
    ELSE IF Finds(text, "keyword", "hidden_keyword") THEN "blocked_keyword"
    ELSE IF Finds(text, "schema", "hidden_schema") THEN "blocked_schema"
    ELSE "ok"

-----------------------------------------------------------------------------
(* The statement read as SQL: semicolons end statements, blanks and opening *)
(* parentheses come before a statement's first word, quotes hide.           *)

Content(text) == {i \in DOMAIN text : text[i] \notin {"blank", "semicolon"}}

OneStatement(text) ==
    /\ Content(text) # {}
    /\ \A i, k \in Content(text) : \A j \in i .. k : text[j] # "semicolon"

\* The first piece of the first word.
Opening(text) == SelectInSeq(text, LAMBDA piece : piece \notin {"blank", "open"})

\* Wherever it stands: a column or a function may have such a name too.
BlockedWord(text) ==
    \E i \in DOMAIN text : text[i] \in {"keyword", "schema"} /\ Whole(text, i)

IsOneQuery(text) ==
    /\ OneStatement(text)
    /\ Opening(text) # 0 /\ text[Opening(text)] \in {"select", "with"}
    /\ ~BlockedWord(text)

\* SELECT ... INTO name: PostgreSQL creates the table and fills it.
CreatesTable(text) ==
    \E i, j \in DOMAIN text :
        /\ i < j /\ text[i] = "into" /\ Whole(text, i) /\ text[j] = "word"
        /\ \A k \in (i + 1) .. (j - 1) : text[k] = "blank"

IsOneRead(text) == IsOneQuery(text) /\ ~CreatesTable(text)

-----------------------------------------------------------------------------
(* Properties                                                               *)

\* What passes the four guards is one statement, opens as a query does, and
\* mentions no blocked word: the guards look at the text in different ways
\* (stripped, upper-cased, as it is), and none looks at it as SQL.
AcceptedIsOneQuery == Verdict(sql) = "ok" => IsOneQuery(sql)

\* Module docstring, line 13: guard 3 "prevents data modification or schema
\* changes".  Violated: a query that creates a table has no blocked word.
AcceptedIsOneRead == Verdict(sql) = "ok" => IsOneRead(sql)

\* A blank after an opening parenthesis, in front of the first word.
BlankInParentheses(text) ==
    \E i, j \in 1 .. Opening(text) : i < j /\ text[i] = "open" /\ text[j] = "blank"

\* Trailing semicolons with a blank between them.
SplitTrailer(text) ==
    \E i, j, k \in DOMAIN text :
        i < j /\ j < k /\ text[i] = "semicolon" /\ text[j] = "blank" /\ text[k] = "semicolon"

\* The guards refuse a read that is none of the following: hiding a blocked
\* word or a semicolon in quotes, spaced after a parenthesis, or ended by
\* semicolons apart from each other.  "Any doubt" (line 44) is these three, and the
\* blocked words.
RefusedForACause ==
    IsOneRead(sql) /\ Verdict(sql) # "ok" =>
        \/ \E i \in DOMAIN sql : sql[i] \in Hidden
        \/ BlankInParentheses(sql)
        \/ SplitTrailer(sql)

=============================================================================
