-------------------------------- MODULE Bulk --------------------------------
(***************************************************************************)
(* The bulk execution of a prepared statement (stmt.go, convert.go and     *)
(* session.exec): the rows come as arguments ("many"), from a function     *)
(* ("fct") or from an iterator ("seq"), are gathered into batches of at    *)
(* most BulkSize rows, and every batch is split into packages, such that   *)
(* a row whose LOB data does not fit into the first chunk is the last of   *)
(* its package.  The rest of its data is then written piecewise.           *)
(***************************************************************************)
EXTENDS Naturals, Sequences, SequencesExt

CONSTANTS
  Modes,      \* how the rows may be provided
  BulkSize,   \* connAttrs.bulkSize
  MaxRows,    \* bound: number of rows
  MaxChunks   \* bound: number of LOB chunks of a row after the first one

ASSUME BulkAssumption ==
  /\ Modes \subseteq {"many", "fct", "seq"}
  /\ BulkSize \in Nat \ {0} /\ MaxRows \in Nat /\ MaxChunks \in Nat

\* A row: the chunks of its LOB data to be written piecewise, and what becomes of it.  The
\* function reports an error instead of an "invalid" row, and the iterator gives one with a
\* wrong number of values; an "inconvertible" one fails in convertExecArgs; the server refuses
\* a "refused" one.
Row == [lob : 0 .. MaxChunks, kind : {"good", "invalid", "inconvertible", "refused"}]

\* The rows of an execMany have been counted in execDefault; there is at least one.
Inputs(m) ==
  {s \in UNION {[1 .. k -> Row] : k \in 0 .. MaxRows} :
     m = "many" => s # <<>> /\ \A i \in DOMAIN s : s[i].kind # "invalid"}

VARIABLES
  mode, input,  \* the rows to be executed
  pc,
  next,         \* the next row the function or the iterator gives
  eof,          \* there was none left
  args,         \* the gathered rows, by their number
  n, batch,     \* the rows gathered (counted by execSeq), and the batches executed
  todo,         \* the packages of the batch not yet sent
  lobLeft,      \* chunks of the last row of the package still to be written
  total,        \* totalRowsAffected
  res, stmtNo,  \* the result, and the StmtNo of the error of a refused row
  sent          \* history: the packages given to session.exec

source == <<mode, input>>
vars == <<source, pc, next, eof, args, n, batch, todo, lobLeft, total, res, stmtNo, sent>>

Init ==
  /\ mode \in Modes /\ input \in Inputs(mode)
  /\ pc = "gather" /\ next = 1 /\ eof = FALSE /\ args = <<>> /\ n = 0 /\ batch = 0
  /\ todo = <<>> /\ lobLeft = 0 /\ total = 0 /\ res = "none" /\ stmtNo = 0 /\ sent = <<>>

\* No call: the other operations run alone.
BulkOff ==
  /\ mode = "many" /\ input = <<>>
  /\ pc = "done" /\ next = 1 /\ eof = FALSE /\ args = <<>> /\ n = 0 /\ batch = 0
  /\ todo = <<>> /\ lobLeft = 0 /\ total = 0 /\ res = "none" /\ stmtNo = 0 /\ sent = <<>>

N == Len(input)

Return(r) == pc' = "done" /\ res' = r

-----------------------------------------------------------------------------
(* Gathering a batch.                                                      *)

Range1(i, j) == [k \in 1 .. j - i + 1 |-> i + k - 1]   \* the rows i .. j

\* execMany: the rows of the next batch, or the end.
GatherMany ==
  /\ pc = "gather" /\ mode = "many"
  /\ \/ /\ batch * BulkSize < N
        /\ args' = LET to == (batch + 1) * BulkSize
                   IN  Range1(batch * BulkSize + 1, IF to > N THEN N ELSE to)
        /\ pc' = "exec"
        /\ UNCHANGED res
     \/ /\ batch * BulkSize >= N
        /\ Return("ok")
        /\ UNCHANGED args
  /\ UNCHANGED <<source, next, eof, n, batch, todo, lobLeft, total, stmtNo, sent>>

\* One more row from the function or the iterator; the batch is executed if it is full now.
Take(full) ==
  /\ next <= N
  /\ next' = next + 1
  /\ IF input[next].kind = "invalid"
     THEN /\ Return("err")
          /\ UNCHANGED <<args, n>>
     ELSE /\ args' = Append(args, next) /\ n' = n + 1
          /\ pc' = IF full THEN "exec" ELSE "gather"
          /\ UNCHANGED res
  /\ UNCHANGED eof

\* execFct: one call of the function.  At the end of the rows the batch is executed too, be it
\* empty.
GatherFct ==
  /\ pc = "gather" /\ mode = "fct"
  /\ \/ Take(Len(args) + 1 = BulkSize)
     \/ next > N /\ eof' = TRUE /\ pc' = "exec" /\ UNCHANGED <<next, args, n, res>>
  /\ UNCHANGED <<source, batch, todo, lobLeft, total, stmtNo, sent>>

\* execSeq: one step of the iterator.  n is not reset with the batch: once it has reached
\* BulkSize every further row is a batch of its own.
GatherSeq ==
  /\ pc = "gather" /\ mode = "seq"
  /\ \/ Take(n + 1 >= BulkSize)
     \/ /\ next > N /\ eof' = TRUE
        /\ IF n > 0 THEN pc' = "exec" /\ UNCHANGED res ELSE Return("ok")
        /\ UNCHANGED <<next, args, n>>
  /\ UNCHANGED <<source, batch, todo, lobLeft, total, stmtNo, sent>>

-----------------------------------------------------------------------------
(* stmt.exec: executing a batch.                                           *)

\* Mutant: the batch is not split.
Packages_NoSplit(as) == IF as = <<>> THEN <<>> ELSE <<as>>

\* addLobDataRecs and the loop over it: a package ends with a row that has LOB data left to
\* write, and with the last row of the batch.
Packages(as) ==
  LET ends(i) == i = Len(as) \/ input[as[i]].lob > 0
      cuts == SetToSortSeq({i \in DOMAIN as : ends(i)}, <)
  IN  [k \in DOMAIN cuts |-> SubSeq(as, IF k = 1 THEN 1 ELSE cuts[k - 1] + 1, cuts[k])]

\* convertExecArgs: one inconvertible row fails the whole batch before anything is sent.
Convert ==
  /\ pc = "exec"
  /\ IF \E i \in DOMAIN args : input[args[i]].kind = "inconvertible"
     THEN Return("err") /\ UNCHANGED todo
     ELSE pc' = "send" /\ todo' = Packages(args) /\ UNCHANGED res
  /\ UNCHANGED <<source, next, eof, args, n, batch, lobLeft, total, stmtNo, sent>>

\* Mutant: the statement number is the one inside the package.
StmtNo_NoOfs(p, i) == i - 1

\* IterateParts(ctx, offset, ...): the number of the statement whose row i of package p failed.
\* With a single row the server sends no rows affected and the number stays 0.
StmtNo(p, i) == IF Len(p) = 1 THEN 0 ELSE batch * BulkSize + i - 1

\* session.exec sends a package.  If the server refuses a row the result is nil: nothing of the
\* package is added to the total.
SendPackage ==
  /\ pc = "send" /\ todo # <<>>
  /\ LET p == Head(todo)
         refused == {i \in DOMAIN p : input[p[i]].kind = "refused"}
         l == input[Last(p)].lob
     IN  /\ sent' = Append(sent, p)
         /\ \/ /\ refused # {}
               /\ Return("refused")
               /\ stmtNo' = StmtNo(p, CHOOSE i \in refused : \A j \in refused : i <= j)
               /\ UNCHANGED <<todo, lobLeft, total>>
            \/ /\ refused = {} /\ l > 0
               /\ pc' = "lob" /\ lobLeft' = l
               /\ UNCHANGED <<todo, total, res, stmtNo>>
            \/ /\ refused = {} /\ l = 0
               /\ todo' = Tail(todo) /\ total' = total + Len(p)
               /\ UNCHANGED <<pc, lobLeft, res, stmtNo>>
  /\ UNCHANGED <<source, next, eof, args, n, batch>>

\* The package cannot be written, or its reply not be read.
SendFail ==
  /\ pc = "send" /\ todo # <<>>
  /\ sent' = Append(sent, Head(todo))
  /\ Return("err")
  /\ UNCHANGED <<source, next, eof, args, n, batch, todo, lobLeft, total, stmtNo>>

\* Mutant: the rows of a package with LOB data are counted with every chunk.
WriteLob_Recount ==
  /\ pc = "lob"
  /\ lobLeft' = lobLeft - 1
  /\ total' = total + Len(Head(todo))
  /\ IF lobLeft = 1
     THEN pc' = "send" /\ todo' = Tail(todo)
     ELSE UNCHANGED <<pc, todo>>
  /\ UNCHANGED <<source, next, eof, args, n, batch, res, stmtNo, sent>>

\* session.writeLobs writes the next chunk of the last row; the package counts at the end.
WriteLob ==
  /\ pc = "lob"
  /\ lobLeft' = lobLeft - 1
  /\ IF lobLeft = 1
     THEN pc' = "send" /\ todo' = Tail(todo) /\ total' = total + Len(Head(todo))
     ELSE UNCHANGED <<pc, todo, total>>
  /\ UNCHANGED <<source, next, eof, args, n, batch, res, stmtNo, sent>>

\* Reading the LOB data fails, or the server refuses it.
WriteLobFail ==
  /\ pc = "lob"
  /\ Return("err")
  /\ UNCHANGED <<source, next, eof, args, n, batch, todo, lobLeft, total, stmtNo, sent>>

\* Mutant: the arguments are kept.
NextBatch_Keep ==
  /\ pc = "send" /\ todo = <<>>
  /\ IF eof THEN Return("ok") ELSE pc' = "gather" /\ UNCHANGED res
  /\ batch' = batch + 1
  /\ UNCHANGED <<source, next, eof, args, n, todo, lobLeft, total, stmtNo, sent>>

\* The batch is executed: go on with an empty one, or return.
NextBatch ==
  /\ pc = "send" /\ todo = <<>>
  /\ IF eof THEN Return("ok") ELSE pc' = "gather" /\ UNCHANGED res
  /\ batch' = batch + 1 /\ args' = <<>>
  /\ UNCHANGED <<source, next, eof, n, todo, lobLeft, total, stmtNo, sent>>

-----------------------------------------------------------------------------
Step == GatherMany \/ GatherFct \/ GatherSeq \/ Convert \/ SendPackage \/ SendFail
          \/ WriteLob \/ WriteLobFail \/ NextBatch

\* The statement has returned.
Done == pc = "done" /\ UNCHANGED vars

Next == Step \/ Done

\* The statement is executed in one goroutine, which goes on.
Spec == Init /\ [][Next]_vars /\ WF_vars(Step)

-----------------------------------------------------------------------------
\* The rows reach the server once each and in their order, however they are provided and cut
\* into batches and packages; a statement that returns without an error has sent all of them.
EachRowOnce ==
  LET rows == FlattenSeq(sent)
  IN  /\ rows = Range1(1, Len(rows))
      /\ res = "ok" => Len(rows) = N

\* stmt.exec, package invariant: the server supports piecewise LOB writing only for the last
\* row of a package, so no other row of a package has LOB data left; and only the last package
\* of a batch ends with a complete row.
LobRowsLast ==
  /\ \A k \in DOMAIN sent : \A i \in 1 .. Len(sent[k]) - 1 : input[sent[k][i]].lob = 0
  /\ \A k \in 1 .. Len(todo) - 1 : input[Last(todo[k])].lob > 0

\* RowsAffected counts the rows of the packages that were executed completely, also if the
\* statement fails at a later one; without an error these are all rows.
RowsAffected ==
  LET whole == IF pc = "lob" \/ (pc = "done" /\ todo # <<>>)
               THEN Len(FlattenSeq(Front(sent))) ELSE Len(FlattenSeq(sent))
  IN  total = whole /\ (res = "ok" => total = N)

\* The number of the first row of the last package that the server refused.
FirstRefused ==
  LET p == Last(sent)
  IN  p[SelectInSeq(p, LAMBDA row : input[row].kind = "refused")] - 1

\* error.go: StmtNo "Returns the statement number of the error in multi statement contexts
\* (e.g. bulk insert)": it is the number of the refused row.
StmtNoIsRow == res = "refused" => stmtNo = FirstRefused

\* It is for the rows of a function or of an argument list, without LOB data left to write and
\* unless the row is the only one of its package.
StmtNoOfBatch ==
  res = "refused" /\ mode # "seq" /\ Len(Last(sent)) > 1 /\ (\A i \in DOMAIN input : input[i].lob = 0)
    => stmtNo = FirstRefused

\* The statement returns.
Returns == <>(pc = "done")
============================================================================
