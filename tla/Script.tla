------------------------------- MODULE Script ------------------------------
(***************************************************************************)
(* The statement scanner of the sqlscript package, as the split function   *)
(* of a bufio.Scanner that hands it the script piece by piece.             *)
(*                                                                         *)
(* A byte is a name: "a" a letter, "s" a space, "n" a line feed, "r" a     *)
(* carriage return, "-" a minus, "q" a single and "d" a double quote, ";"  *)
(* the separator, and "b1" "b2" the two bytes of a non-ASCII letter.       *)
(***************************************************************************)
EXTENDS Integers, Sequences
LOCAL INSTANCE SequencesExt

CONSTANT Scripts    \* [comments, stmts, rest]: see ScriptText

VARIABLES
    script,     \* the script and whether comments are kept
    input8,     \* its bytes
    pos,        \* what the split function has consumed
    tokens,     \* the statements returned
    scanning    \* "on", "end" or "off"

scriptVars == <<script, input8, pos, tokens, scanning>>

Drop(d, k) == SubSeq(d, k + 1, Len(d))

(***************************************************************************)
(* nextRune: a letter of two bytes is one rune, half of it is the end of   *)
(* the data.  The operators below return what is left of the data, the     *)
(* token and whether the data ended first.                                 *)
(***************************************************************************)
RuneWidth(d) == CASE d = <<>> -> 0
                  [] d # <<>> /\ d[1] = "b1" -> IF Len(d) > 1 /\ d[2] = "b2" THEN 2 ELSE 0
                  [] OTHER -> 1

Ends == [eof |-> TRUE, data |-> <<>>, token |-> <<>>]
At(d, t) == [eof |-> FALSE, data |-> d, token |-> t]

RECURSIVE scanWhitespace(_, _)
scanWhitespace(d, t) ==
    CASE RuneWidth(d) = 0 -> Ends
      [] RuneWidth(d) > 0 /\ d[1] \in {"s", "n", "r"} -> scanWhitespace(Drop(d, 1), t)
      [] OTHER -> At(d, t)

\* appendLine cuts off a trailing carriage return.
Line(d) == IF d # <<>> /\ d[Len(d)] = "r" THEN SubSeq(d, 1, Len(d) - 1) ELSE d


scanComment(d, t, atEOF, comments) ==
    LET nl == SelectInSeq(d, LAMBDA b : b = "n")
        found(line, rest) == [ok |-> TRUE, eof |-> FALSE, data |-> rest,
                              token |-> IF comments THEN t \o Line(line) ELSE t]
        none(eof) == [ok |-> FALSE, eof |-> eof, data |-> d, token |-> t]
    IN  CASE Len(d) < 2 -> none(~atEOF)
          [] Len(d) >= 2 /\ SubSeq(d, 1, 2) # <<"-", "-">> -> none(FALSE)
          [] OTHER -> IF nl > 0 THEN found(SubSeq(d, 1, nl - 1), Drop(d, nl))
                      ELSE IF atEOF THEN found(d, <<>>) ELSE none(TRUE)

\* scanString, after the opening quote was appended.
RECURSIVE scanString(_, _, _)
scanString(d, t, quote) ==
    LET w == RuneWidth(d)
        rest == Drop(d, w)
    IN  CASE w = 0 -> Ends
          [] w > 0 /\ d[1] = quote ->
               IF RuneWidth(rest) = 0 THEN Ends
               ELSE IF rest[1] # quote THEN At(rest, Append(t, quote))
               ELSE scanString(rest, Append(t, quote), quote)
          [] w > 0 /\ d[1] \in {"n", "r"} -> scanString(rest, t, quote)
          [] OTHER -> scanString(rest, t \o SubSeq(d, 1, w), quote)

RECURSIVE scanStatement(_, _)
scanStatement(d, t) ==
    LET w == RuneWidth(d)
        rest == Drop(d, w)
        string == scanString(rest, Append(t, d[1]), d[1])
    IN  CASE w = 0 -> Ends
          [] w > 0 /\ d[1] \in {"q", "d"} ->
               IF string.eof THEN Ends ELSE scanStatement(string.data, string.token)
          [] w > 0 /\ d[1] = ";" -> At(rest, t)
          [] w > 0 /\ d[1] \in {"n", "r"} -> scanStatement(rest, t)
          [] OTHER -> scanStatement(rest, t \o SubSeq(d, 1, w))

\* _scan: white space and comments, then the statement.
RECURSIVE ScanLead(_, _, _, _)
ScanLead(d, t, atEOF, comments) ==
    LET ws == scanWhitespace(d, t)
        c == scanComment(ws.data, t, atEOF, comments)
    IN  IF ws.eof \/ c.eof THEN Ends
        ELSE IF ~c.ok THEN scanStatement(c.data, c.token)
        ELSE ScanLead(c.data, IF comments THEN Append(c.token, "n") ELSE c.token, atEOF, comments)

\* scan: no data at the end and too little data both return no token.
scanData(d, atEOF, comments) ==
    IF atEOF /\ d = <<>> THEN Ends ELSE ScanLead(d, <<>>, atEOF, comments)

(***************************************************************************)
(* bufio.Scanner: it calls the split function on what it has read, again   *)
(* with more when there was no token, and stops when there is no token in  *)
(* all that is left.                                                       *)
(***************************************************************************)
ScriptOff == /\ script = [comments |-> FALSE, stmts |-> <<>>, rest |-> <<>>] /\ input8 = <<>>
             /\ pos = 0 /\ tokens = <<>> /\ scanning = "off"

\* A statement is what precedes it and its pieces; a separator ends it.  After
\* the last separator there may be more: white space, a comment, or a statement
\* without a separator, as in example_test.go:28.
ScriptText(s) ==
    FlattenSeq([k \in DOMAIN s.stmts |->
        FlattenSeq(s.stmts[k].lead) \o FlattenSeq(s.stmts[k].body) \o <<";">>]) \o s.rest

ScriptInit == \E s \in Scripts :
    /\ script = s /\ input8 = ScriptText(s)
    /\ pos = 0 /\ tokens = <<>> /\ scanning = "on"

Scan(to, atEOF) ==
    LET r == scanData(SubSeq(input8, pos + 1, to), atEOF, script.comments)
    IN  /\ scanning = "on"
        /\ atEOF => to = Len(input8)
        /\ pos' = IF r.eof THEN pos ELSE to - Len(r.data)
        /\ tokens' = IF r.eof THEN tokens ELSE Append(tokens, r.token)
        /\ scanning' = IF r.eof /\ atEOF THEN "end" ELSE "on"
        /\ UNCHANGED <<script, input8>>

ScriptNext == \E to \in pos..Len(input8), atEOF \in BOOLEAN : Scan(to, atEOF)

-----------------------------------------------------------------------------
\* What a statement is: its pieces without the line ends, after the comments
\* that precede it, each on a line, when comments are kept.
IsComment(p) == Len(p) >= 2 /\ SubSeq(p, 1, 2) = <<"-", "-">>
NoLineEnds(p) == SelectSeq(p, LAMBDA b : b \notin {"n", "r"})
Statement(stmt, comments) ==
    FlattenSeq([k \in DOMAIN stmt.lead |->
        IF comments /\ IsComment(stmt.lead[k])
        THEN Line(SubSeq(stmt.lead[k], 1, Len(stmt.lead[k]) - 1)) \o <<"n">> ELSE <<>>])
    \o NoLineEnds(FlattenSeq(stmt.body))

=============================================================================
