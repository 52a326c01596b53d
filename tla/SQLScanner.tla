----------------------------- MODULE SQLScanner -----------------------------
(***************************************************************************)
(* The scanners that take SQL text apart before anything is translated:    *)
(* sqlscanner.go skips quotes and comments, splits lists and statements    *)
(* and finds the end of a parenthesis; prepared.go counts placeholders     *)
(* with an automaton of its own; upsert.go parses the rows of VALUES from  *)
(* both; sql_compat.go puts the body of CREATE TABLE together again.       *)
(*                                                                         *)
(* A text is a sequence of characters and grows by one piece a step; the   *)
(* properties are about every text.  Positions count from 1, the end of a  *)
(* span is the position after it.  A word is the one letter k, the         *)
(* keywords ON DUPLICATE KEY UPDATE.                                       *)
(***************************************************************************)
EXTENDS Naturals, Sequences, FiniteSets, FiniteSetsExt, SequencesExt

CONSTANTS
    Beginnings,  \* texts to start from
    Pieces,      \* sequences of characters that a text grows by
    MaxPieces    \* bound of the model: pieces a text grows by

Characters ==
    {"'", "backtick", "\\", "\n", "\r", " ", "-", "#", "/", "*", "(", ")", ",", ";", "?", "k"}

ASSUME ScannerAssumption ==
    /\ Pieces \cup Beginnings \subseteq Seq(Characters)
    /\ MaxPieces \in Nat

VARIABLES
    text,
    grown    \* bound: pieces so far

ScannerInit == text \in Beginnings /\ grown = 0

Grow ==
    /\ grown < MaxPieces
    /\ \E piece \in Pieces : text' = text \o piece
    /\ grown' = grown + 1

ScannerSpec == ScannerInit /\ [][Grow]_<<text, grown>>

-----------------------------------------------------------------------------
(* Quotes and comments.                                                    *)

\* Double quotes are scanned as single ones are.
Quotes == {"'", "backtick"}
Spaces == {" ", "\n", "\r"}

\* The first of some positions, or the end of the text.
FirstOf(t, positions) == IF positions = {} THEN Len(t) + 1 ELSE Min(positions)

\* What a scan of positions 1 .. Len(next) looks at from each position on, if
\* it goes from i to next[i].
Visited(next) ==
    LET visited[i \in Nat] ==
            IF i \notin DOMAIN next THEN {} ELSE {i} \cup visited[next[i]]
    IN visited

\* In a quote a backslash hides the next character and a doubled quote stands
\* for one, neither of them in backticks.
Escapes(t, quote, i) ==
    /\ quote # "backtick" /\ i < Len(t)
    /\ t[i] = "\\" \/ (t[i] = quote /\ t[i + 1] = quote)

QuoteSteps(t, quote) ==
    [i \in 1 .. Len(t) |-> IF Escapes(t, quote, i) THEN i + 2 ELSE i + 1]

\* The end of the quote that opens at p.
quotedSQLSpan(t, p) ==
    LET closing == {i \in Visited(QuoteSteps(t, t[p]))[p + 1] :
                       t[i] = t[p] /\ ~Escapes(t, t[p], i)}
    IN IF closing = {} THEN Len(t) + 1 ELSE Min(closing) + 1

Pair(t, i, a, b) == i < Len(t) /\ t[i] = a /\ t[i + 1] = b

\* Mutant of sqlCommentSpan: block comments are code.
sqlCommentSpanOfLines(t, p) ==
    LET newlines == {i \in p .. Len(t) : t[i] = "\n"} IN
    IF ~(Pair(t, p, "-", "-") \/ t[p] = "#") THEN p
    ELSE IF newlines = {} THEN Len(t) + 1 ELSE Min(newlines) + 1

\* The end of the comment at p, or p itself where none begins.  A line comment
\* ends with the newline, a block comment with its mark or the text.
sqlCommentSpan(t, p) ==
    IF Pair(t, p, "-", "-") \/ t[p] = "#"
    THEN LET newlines == {i \in p .. Len(t) : t[i] = "\n"} IN
         IF newlines = {} THEN Len(t) + 1 ELSE Min(newlines) + 1
    ELSE IF Pair(t, p, "/", "*")
    THEN LET marks == {i \in p + 2 .. Len(t) : Pair(t, i, "*", "/")} IN
         IF marks = {} THEN Len(t) + 1 ELSE Min(marks) + 2
    ELSE p

Span(t, p) == IF t[p] \in Quotes THEN quotedSQLSpan(t, p) ELSE sqlCommentSpan(t, p)

\* The positions at which a scan from p looks: it passes over quotes and
\* comments at once, over the rest, the code, one by one.
ScanSteps(t) == [i \in 1 .. Len(t) |-> IF Span(t, i) # i THEN Span(t, i) ELSE i + 1]

Stops(t, p) == Visited(ScanSteps(t))[p]

Code(t, p) == {i \in Stops(t, p) : Span(t, i) = i}

-----------------------------------------------------------------------------
(* Parentheses, lists and statements.                                      *)

\* The depth after each position of a scan from p; closing more than is open
\* does nothing.
Nesting(t, p) ==
    LET code == Code(t, p)
        depth[i \in 0 .. Len(t)] ==
            IF i = 0 THEN 0
            ELSE IF i \notin code THEN depth[i - 1]
            ELSE IF t[i] = "(" THEN depth[i - 1] + 1
            ELSE IF t[i] = ")" /\ depth[i - 1] > 0 THEN depth[i - 1] - 1
            ELSE depth[i - 1]
    IN depth

\* Mutant of TopLevel: what is in parentheses counts.
AnyLevel(t, ch) == {i \in Code(t, 1) : t[i] = ch}

TopLevel(t, ch) ==
    LET depth == Nesting(t, 1) IN {i \in Code(t, 1) : t[i] = ch /\ depth[i] = 0}

\* The parts of a text between the positions of cuts.
Ends(t, cuts) ==
    LET end[n \in 0 .. Cardinality(cuts) + 1] ==
            IF n = 0 THEN 0 ELSE FirstOf(t, {i \in cuts : i > end[n - 1]})
    IN end

CutAt(t, cuts) ==
    [n \in 1 .. Cardinality(cuts) + 1 |->
        SubSeq(t, Ends(t, cuts)[n - 1] + 1, Ends(t, cuts)[n] - 1)]

\* strings.TrimSpace.
Trim(t) ==
    LET solid == {i \in 1 .. Len(t) : t[i] \notin Spaces}
    IN IF solid = {} THEN <<>> ELSE SubSeq(t, Min(solid), Max(solid))

\* The parts that are not empty when trimmed.
Trimmed(parts) ==
    LET kept[n \in 0 .. Len(parts)] ==
            IF n = 0 THEN <<>>
            ELSE IF Trim(parts[n]) = <<>> THEN kept[n - 1]
            ELSE Append(kept[n - 1], Trim(parts[n]))
    IN kept[Len(parts)]

splitSQLTopLevelList(t) == CutAt(t, TopLevel(t, ","))

splitSQLStatements(t) == Trimmed(CutAt(t, TopLevel(t, ";")))

\* The end of the parenthesis that opens at p, or 0 if there is none.
parenthesizedSQLSpan(t, p) ==
    LET depth == Nesting(t, p)
        closes == {i \in Code(t, p) : t[i] = ")" /\ depth[i] = 0}
    IN IF p > Len(t) \/ closes = {} THEN 0
       ELSE IF t[p] = "(" THEN Min(closes) + 1 ELSE 0

-----------------------------------------------------------------------------
(* Placeholders and the rows of VALUES.                                    *)

\* The automaton of countPlaceholders.  Its line comments end with a carriage
\* return, too.
Modes == Quotes \cup {"code", "line", "block"}

countPlaceholders(t) ==
    LET count[i \in Nat] ==
            [mode \in Modes |->
                IF i \notin DOMAIN t THEN 0
                ELSE IF mode = "line"
                THEN count[i + 1][IF t[i] \in {"\n", "\r"} THEN "code" ELSE "line"]
                ELSE IF mode = "block"
                THEN IF Pair(t, i, "*", "/") THEN count[i + 2]["code"] ELSE count[i + 1]["block"]
                ELSE IF mode \in Quotes
                THEN IF t[i] = "\\" /\ mode # "backtick" THEN count[i + 2][mode]
                     ELSE count[i + 1][IF t[i] = mode THEN "code" ELSE mode]
                ELSE IF Pair(t, i, "-", "-") THEN count[i + 2]["line"]
                ELSE IF t[i] = "#" THEN count[i + 1]["line"]
                ELSE IF Pair(t, i, "/", "*") THEN count[i + 2]["block"]
                ELSE IF t[i] \in Quotes THEN count[i + 1][t[i]]
                ELSE count[i + 1]["code"] + (IF t[i] = "?" THEN 1 ELSE 0)]
    IN count[1]["code"]

SumOf(numbers) ==
    LET sum[n \in 0 .. Len(numbers)] == IF n = 0 THEN 0 ELSE sum[n - 1] + numbers[n]
    IN sum[Len(numbers)]

CountAll(parts) == SumOf([n \in 1 .. Len(parts) |-> countPlaceholders(parts[n])])

skipSQLSpaces(t, p) == FirstOf(t, {i \in p .. Len(t) : t[i] \notin Spaces})

\* The rows from p on, each as its expressions; none at all if something else
\* is between them or after them.
RowsFrom(t, p) ==
    LET rows[i \in 1 .. Len(t) + 1] ==
            LET open == skipSQLSpaces(t, i)
                end == parenthesizedSQLSpan(t, open)
                next == skipSQLSpaces(t, end)
                row == <<splitSQLTopLevelList(SubSeq(t, open + 1, end - 2))>>
            IN IF open > Len(t) THEN {<<>>}
               ELSE IF end = 0 THEN {}
               ELSE IF next > Len(t) THEN {row}
               ELSE IF t[next] # "," THEN {}
               ELSE {row \o others : others \in rows[next + 1]}
    IN rows[p]

\* parseMySQLUpsertStatementTemplate, from the word VALUES on: the text before
\* the first ON DUPLICATE KEY UPDATE outside parentheses, and that after it.
Keyword(t) == TopLevel(t, "k")
InsertPart(t) == Trim(SubSeq(t, 1, Min(Keyword(t)) - 1))
UpdatePart(t) == Trim(SubSeq(t, Min(Keyword(t)) + 1, Len(t)))

\* bind: how many arguments the rows and the update take between them.
Taken(t, rows) ==
    SumOf([n \in 1 .. Len(rows) |-> CountAll(rows[n])]) + countPlaceholders(UpdatePart(t))

-----------------------------------------------------------------------------
(* The body of CREATE TABLE.                                               *)

Join(parts) ==
    FoldLeft(LAMBDA joined, part :
                 IF joined = <<>> THEN part ELSE joined \o <<",", "\n">> \o part,
             <<>>, parts)

BodyItems(t) == splitSQLTopLevelList(SubSeq(t, 2, parenthesizedSQLSpan(t, 1) - 2))

\* translateCreateTableStatements of a text that opens with its body, when the
\* items need no translation.
Rebuilt(t) ==
    <<"(">> \o Join(Trimmed(BodyItems(t)))
            \o SubSeq(t, parenthesizedSQLSpan(t, 1) - 1, Len(t))

-----------------------------------------------------------------------------
(* Properties.                                                             *)

InLineComments(t, ch) ==
    \E i \in Stops(t, 1) :
        t[i] \in {"-", "#"} /\ \E j \in i .. Span(t, i) - 1 : t[j] = ch

\* The arguments of a prepared INSERT ... ON DUPLICATE KEY UPDATE, which its
\* placeholders ask for, are as many as the rows and the update are handed,
\* although one scan counts and another cuts.  The two see different comments
\* if a carriage return is in a line comment.
ArgumentsReachTheirRows ==
    Keyword(text) # {} /\ ~InLineComments(text, "\r") =>
        \A rows \in RowsFrom(InsertPart(text), 1) :
            countPlaceholders(text) = Taken(text, rows)

\* Parts that are scanned again, alone, are what they were: a statement is one
\* statement, an item of a parenthesized list closes what it opens.
PartsStandAlone ==
    /\ LET statements == splitSQLStatements(text) IN
       \A n \in 1 .. Len(statements) :
           splitSQLStatements(statements[n]) = <<statements[n]>>
    /\ parenthesizedSQLSpan(text, 1) # 0 =>
           LET items == BodyItems(text) IN
           \A n \in 1 .. Len(items) :
               parenthesizedSQLSpan(<<"(">> \o items[n] \o <<")">>, 1) = Len(items[n]) + 3

\* The translated body of CREATE TABLE closes where it did, with the same items.
TranslatedBodyCloses ==
    parenthesizedSQLSpan(text, 1) # 0 =>
        /\ parenthesizedSQLSpan(Rebuilt(text), 1) # 0
        /\ Trimmed(BodyItems(Rebuilt(text))) = Trimmed(BodyItems(text))
=============================================================================
