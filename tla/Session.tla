------------------------------ MODULE Session ------------------------------
(***************************************************************************)
(* One driver connection (conn.go, session.go, stmt.go, result.go) between *)
(* database/sql, which calls it, and the server at the other end of its    *)
(* single request / reply stream.                                          *)
(*                                                                         *)
(* A driver call is an operation w \in Ops.  The calls that take a context *)
(* run their database work in a goroutine and select on ctx.Done() and on  *)
(* the end of that goroutine: the goroutine is op[w], the select is the    *)
(* pair of actions Return and Cancel.  A cancelled goroutine is not        *)
(* stopped; it goes on as an orphan on the same session.                   *)
(***************************************************************************)
EXTENDS Integers, Sequences, FiniteSets

CONSTANTS
  MaxOps,         \* bound: number of driver calls
  MaxOrphans,     \* bound: number of cancelled calls
  MaxPackages,    \* bound: number of requests of one stmt.ExecContext
  Kinds,          \* the driver calls the application makes
  Users,          \* values of *SessionUser: records [name, schema]
  NoUser,         \* the nil *SessionUser
  NoSchema,       \* the empty schema name
  DefaultSchema   \* connAttrs.defaultSchema

ASSUME BoundsAssumption ==
  MaxOps \in Nat /\ MaxOrphans \in Nat /\ MaxPackages \in Nat \ {0}

Ops == 1 .. MaxOps

\* Calls that run in a goroutine of their own and can be cancelled.
Spawned == {"Ping", "PrepareContext", "BeginTx", "QueryContext", "ExecContext",
            "DBConnectInfo", "StmtQuery", "StmtExec"}

\* Calls whose goroutine starts with session.switchUser.
Switching == {"PrepareContext", "BeginTx", "QueryContext", "ExecContext"}

\* Calls that run in the caller's goroutine.
Direct == {"ResetSession", "Commit", "Rollback", "Next", "RowsClose", "StmtClose"}

AllKinds == Spawned \cup Direct

\* Mutant: tx.close always rolls back.
FirstRequest_Rollback(k) ==
  CASE k \in {"Ping", "ResetSession"} -> "ping"
    [] k = "PrepareContext"           -> "MtPrepare"
    [] k = "BeginTx"                  -> "isolation"
    [] k = "DBConnectInfo"            -> "MtDBConnectInfo"
    [] k \in {"Commit", "Rollback"}   -> "MtRollback"
    [] k = "Next"                     -> "MtFetchNext"
    [] k = "RowsClose"                -> "MtCloseResultset"
    [] k = "StmtClose"                -> "MtDropStatementID"
    [] OTHER                          -> "statement"

\* The request a call starts with, once the user is the right one.
FirstRequest(k) ==
  CASE k \in {"Ping", "ResetSession"} -> "ping"
    [] k = "PrepareContext"           -> "MtPrepare"
    [] k = "BeginTx"                  -> "isolation"
    [] k = "DBConnectInfo"            -> "MtDBConnectInfo"
    [] k = "Commit"                   -> "MtCommit"
    [] k = "Rollback"                 -> "MtRollback"
    [] k = "Next"                     -> "MtFetchNext"
    [] k = "RowsClose"                -> "MtCloseResultset"
    [] k = "StmtClose"                -> "MtDropStatementID"
    [] OTHER                          -> "statement"

\* Requests whose commit flag is !s.inTx.Load(); the others pass false.
AutoCommit == {"connect", "setSchema", "isolation", "accessMode", "statement", "ping"}

Requests == AutoCommit \cup {"MtPrepare", "MtDBConnectInfo", "MtCommit", "MtRollback",
              "MtFetchNext", "MtCloseResultset", "MtDropStatementID"}

Results == {"none", "ok", "err", "bad"}   \* "bad": an error that wraps driver.ErrBadConn

\* Part attributes of a result set: LastPacket and ResultsetClosed ("none": no result set).
Attrs == {"none", "more", "last", "closed"}

VARIABLES
  \* database/sql
  n,          \* number of driver calls made
  cur,        \* the call database/sql is in (it serialises them), 0 if none
  hold,       \* "pool", "held", "drop" (to be closed) or "closed"
  sqlTx,      \* the BeginTx that opened the sql.Tx in use, 0 if none
  stmts,      \* open driver.Stmt, by the call that prepared them
  rows,       \* what driver.Rows knows of its result set, by the call that queried
  committed,  \* transactions on which the application called Commit
  \* goroutines
  op,         \* every driver call
  orphans,    \* calls cancelled by their context
  \* session
  inTx, cancelled, user,
  wrErr,      \* Writer.HasError: "no", "io" (sticky in bufio) or "enc" (half a message buffered)
  rdErr,      \* the decoder's sticky error
  \* network
  up, reqQ, repQ,
  cut,        \* the decoder stands in the middle of a reply: from then on what it reads is
              \* arbitrary, and the replies are not told apart any more (repQ is empty)
  \* server
  srvUser, srvSchema, pend, durable, srvStmts,
  \* gauges, as the sum of the messages sent
  gConn, gTx, gStmt,
  \* history
  swapped,    \* calls that read the reply to another call's request
  ranAs       \* the user and schema the server ran a call's statement as

sqlVars   == <<n, cur, hold, sqlTx, stmts, rows, committed>>
sessVars  == <<inTx, cancelled, user, wrErr, rdErr>>
netVars   == <<up, reqQ, repQ, cut>>
srvVars   == <<srvUser, srvSchema, pend, durable, srvStmts, ranAs>>
gauges    == <<gConn, gTx, gStmt>>
vars      == <<sqlVars, op, orphans, sessVars, netVars, srvVars, gauges, swapped>>

Schemas   == {u.schema : u \in Users} \cup {NoSchema, DefaultSchema}
Name(u)   == IF u = NoUser THEN NoUser ELSE u.name
Names     == {Name(u) : u \in Users \cup {NoUser}}
Identity  == [user : Names, schema : Schemas]
RowStates == Attrs \cup {"err", "bad"}

Idle == [kind |-> "none", user |-> NoUser, tx |-> 0, arg |-> 0, left |-> 0, pc |-> "idle",
         req |-> "none", commit |-> FALSE, attr |-> "none", res |-> "none"]

Init ==
  /\ n = 0 /\ cur = 0 /\ hold = "held" /\ sqlTx = 0 /\ stmts = {} /\ committed = {}
  /\ rows = [w \in Ops |-> "none"]
  /\ op = [w \in Ops |-> Idle]
  /\ orphans = {}
  /\ inTx = FALSE /\ cancelled = FALSE /\ user = NoUser /\ wrErr = "no" /\ rdErr = FALSE
  /\ up = TRUE /\ reqQ = <<>> /\ repQ = <<>> /\ cut = FALSE
  /\ srvUser = NoUser /\ srvSchema = DefaultSchema
  /\ pend = {} /\ durable = {} /\ srvStmts = {}
  /\ gConn = 1 /\ gTx = 0 /\ gStmt = 0
  /\ swapped = {} /\ ranAs = [w \in Ops |-> {}]

\* Mutant: a cancelled session is not a bad one.
isBad_OnlyWrite == wrErr # "no"

isBad == cancelled \/ wrErr # "no"

SameUser(u, v) == v # NoUser /\ u.name = v.name        \* SessionUser.equal
Settled(u) == u # NoUser => SameUser(u, user)           \* !ok || user.equal(s.user)
Clone(u) == [name |-> u.name, schema |-> NoSchema]      \* SessionUser.clone

\* Where a call goes to send request r: the requests with a commit flag read inTx first.
Sends(o, r) == [o EXCEPT !.req = r, !.commit = FALSE,
                         !.pc = IF r \in AutoCommit THEN "load" ELSE "write"]

Ends(o, r) == [o EXCEPT !.res = r, !.pc = "done", !.req = "none", !.commit = FALSE, !.left = 0]

-----------------------------------------------------------------------------
(* database/sql makes a driver call.  It makes one at a time.              *)

NewOp(k, u, a) == [Idle EXCEPT !.kind = k, !.user = u, !.tx = sqlTx, !.arg = a]

Call(o) ==
  /\ cur = 0 /\ n < MaxOps /\ o.kind \in Kinds
  /\ n' = n + 1 /\ cur' = n + 1
  /\ op' = [op EXCEPT ![n + 1] = o]
  /\ UNCHANGED <<orphans, cancelled, user, wrErr, rdErr, netVars, srvVars, gConn, swapped>>

\* conn.PrepareContext, BeginTx, QueryContext, ExecContext.  A nested BeginTx is refused
\* with ErrNestedTransaction and changes nothing.
ConnCall(k, u) ==
  /\ hold = "held" /\ k \in Switching
  /\ k = "BeginTx" => ~inTx
  /\ Call([NewOp(k, u, 0) EXCEPT !.pc = "switch"])
  /\ UNCHANGED <<hold, sqlTx, stmts, rows, committed, inTx, gTx, gStmt>>

\* conn.Ping and conn.DBConnectInfo.
InfoCall(k) ==
  /\ hold = "held" /\ k \in {"Ping", "DBConnectInfo"}
  /\ Call(Sends(NewOp(k, NoUser, 0), FirstRequest(k)))
  /\ UNCHANGED <<hold, sqlTx, stmts, rows, committed, inTx, gTx, gStmt>>

\* stmt.QueryContext and stmt.ExecContext on an open statement s.  preventSwitchUser
\* refuses a context with another user than the session's.
StmtCall(k, u, s, l) ==
  /\ hold = "held" /\ k \in {"StmtQuery", "StmtExec"}
  /\ Settled(u)
  /\ k = "StmtQuery" => l = 0
  /\ Call([Sends(NewOp(k, u, s), "statement") EXCEPT !.left = l])
  /\ UNCHANGED <<hold, sqlTx, stmts, rows, committed, inTx, gTx, gStmt>>

\* tx.Commit and tx.Rollback.  database/sql ends a transaction once.
TxClose(k) ==
  /\ hold = "held" /\ k \in {"Commit", "Rollback"} /\ sqlTx # 0
  /\ committed' = IF k = "Commit" THEN committed \cup {sqlTx} ELSE committed
  /\ gTx' = gTx - 1
  /\ \/ /\ isBad
        /\ Call(Ends(NewOp(k, NoUser, 0), "bad"))
        /\ inTx' = FALSE
     \/ /\ ~isBad
        /\ Call(Sends(NewOp(k, NoUser, 0), FirstRequest(k)))
        /\ UNCHANGED inTx
  /\ UNCHANGED <<hold, sqlTx, stmts, rows, gStmt>>

\* queryResult.Next at the end of the rows it holds: fetch unless this was the last packet.
RowsNext(q) ==
  /\ hold = "held" /\ rows[q] = "more"
  /\ Call(Sends(NewOp("Next", NoUser, q), "MtFetchNext"))
  /\ UNCHANGED <<hold, sqlTx, stmts, rows, committed, inTx, gTx, gStmt>>

\* queryResult.Close: nothing to send if the server closed the result set or a fetch failed.
RowsClose(q) ==
  /\ hold = "held" /\ rows[q] # "none"
  /\ LET o == NewOp("RowsClose", NoUser, q)
     IN  Call(CASE rows[q] = "closed"         -> Ends(o, "ok")
                [] rows[q] \in {"err", "bad"} -> Ends(o, rows[q])
                [] OTHER                      -> Sends(o, "MtCloseResultset"))
  /\ UNCHANGED <<hold, sqlTx, stmts, rows, committed, inTx, gTx, gStmt>>

\* Mutants: a closed statement remains counted; a closed statement is not dropped.
StmtClose_NoGauge(s) ==
  /\ hold # "closed"
  /\ stmts' = stmts \ {s}
  /\ LET o == NewOp("StmtClose", NoUser, s)
     IN  Call(IF isBad THEN Ends(o, "bad") ELSE Sends(o, "MtDropStatementID"))
  /\ UNCHANGED <<hold, sqlTx, rows, committed, inTx, gTx, gStmt>>

StmtClose_NoDrop(s) ==
  /\ hold # "closed"
  /\ gStmt' = gStmt - 1
  /\ stmts' = stmts \ {s}
  /\ Call(Ends(NewOp("StmtClose", NoUser, s), "ok"))
  /\ UNCHANGED <<hold, sqlTx, rows, committed, inTx, gTx>>

\* stmt.Close, also on a connection in the pool or about to be closed.
StmtClose(s) ==
  /\ hold # "closed"
  /\ gStmt' = gStmt - 1
  /\ stmts' = stmts \ {s}
  /\ LET o == NewOp("StmtClose", NoUser, s)
     IN  Call(IF isBad THEN Ends(o, "bad") ELSE Sends(o, "MtDropStatementID"))
  /\ UNCHANGED <<hold, sqlTx, rows, committed, inTx, gTx>>

\* The pool hands the connection out again: conn.ResetSession, which may ping.
ResetSession ==
  /\ hold = "pool"
  /\ hold' = "held"
  /\ Call(LET o == NewOp("ResetSession", NoUser, 0)
          IN  IF isBad THEN Ends(o, "bad") ELSE Sends(o, "ping"))
  /\ UNCHANGED <<sqlTx, stmts, rows, committed, inTx, gTx, gStmt>>

\* ResetSession when no ping is due.
Reuse ==
  /\ cur = 0 /\ hold = "pool" /\ ~isBad
  /\ hold' = "held"
  /\ UNCHANGED <<n, cur, sqlTx, stmts, rows, committed, op, orphans, sessVars, netVars,
                 srvVars, gauges, swapped>>

-----------------------------------------------------------------------------
(* The select of the caller.                                               *)

\* case <-done: database/sql takes the result.  Outside a transaction ErrBadConn makes it
\* discard the connection; the error of a stmt.Close is ignored, and a query's rows report
\* the error of their last fetch when they are closed.
Return ==
  /\ cur # 0 /\ op[cur].pc = "done"
  /\ LET o  == op[cur]
         ok == o.res = "ok"
         tx == CASE o.kind = "BeginTx" /\ ok             -> cur
                 [] o.kind \in {"Commit", "Rollback"}    -> 0
                 [] OTHER                                -> sqlTx
         drop == \/ o.kind = "ResetSession" /\ ~ok
                 \/ o.res = "bad" /\ tx = 0 /\ o.kind \notin {"StmtClose", "Next"}
     IN  /\ sqlTx' = tx
         /\ stmts' = IF o.kind = "PrepareContext" /\ ok THEN stmts \cup {cur} ELSE stmts
         /\ rows' = CASE o.kind \in {"QueryContext", "StmtQuery"} /\ ok
                           -> [rows EXCEPT ![cur] = o.attr]
                      [] o.kind = "Next"
                           -> [rows EXCEPT ![o.arg] = IF ok THEN o.attr ELSE o.res]
                      [] o.kind = "RowsClose"
                           -> [rows EXCEPT ![o.arg] = "none"]
                      [] OTHER -> rows
         /\ hold' = IF drop THEN "drop" ELSE hold
  /\ cur' = 0
  /\ UNCHANGED <<n, committed, op, orphans, sessVars, netVars, srvVars, gauges, swapped>>

\* case <-ctx.Done(): the goroutine is left behind and the session marked as cancelled.
Cancel ==
  /\ cur # 0 /\ op[cur].kind \in Spawned /\ Cardinality(orphans) < MaxOrphans
  /\ cancelled' = TRUE
  /\ orphans' = orphans \cup {cur}
  /\ cur' = 0
  /\ UNCHANGED <<n, hold, sqlTx, stmts, rows, committed, op, inTx, user, wrErr, rdErr, netVars,
                 srvVars, gauges, swapped>>

-----------------------------------------------------------------------------
(* database/sql gives the connection back or closes it.                    *)

\* The application is done with it: conn.IsValid decides whether it is kept.
Release ==
  /\ cur = 0 /\ hold = "held" /\ sqlTx = 0 /\ \A w \in Ops : rows[w] = "none"
  /\ hold' = IF isBad THEN "drop" ELSE "pool"
  /\ UNCHANGED <<n, cur, sqlTx, stmts, rows, committed, op, orphans, sessVars, netVars,
                 srvVars, gauges, swapped>>

\* conn.Close and session.close, after the open statements have been closed.  The reply to
\* the disconnect is not read.  conn.wg is not waited for.
Close ==
  /\ cur = 0 /\ hold \in {"pool", "drop"} /\ stmts = {}
  /\ hold' = "closed"
  /\ gConn' = gConn - 1
  /\ repQ' = <<>>
  /\ \/ /\ ~isBad /\ up
        /\ reqQ' = Append(reqQ, [op |-> 0, req |-> "MtDisconnect", commit |-> FALSE,
                                 schema |-> NoSchema])
        /\ UNCHANGED wrErr
     \/ /\ wrErr' = IF isBad THEN wrErr ELSE "io"
        /\ UNCHANGED reqQ
  /\ UNCHANGED <<n, cur, sqlTx, stmts, rows, committed, op, orphans, inTx, cancelled, user, rdErr,
                 up, cut, srvVars, gTx, gStmt, swapped>>

-----------------------------------------------------------------------------
(* Steps of the goroutine (or, for a direct call, of the caller).          *)

Goes(w, o) == op' = [op EXCEPT ![w] = o]

\* Mutant: tx.close does not reset inTx.
Finish_KeepInTx(w, o, r) ==
  LET k == o.kind
  IN  /\ Goes(w, Ends(o, r))
      /\ inTx' = IF k = "BeginTx" /\ r = "ok" THEN TRUE ELSE inTx
      /\ gTx' = IF k = "BeginTx" /\ r = "ok" THEN gTx + 1 ELSE gTx
      /\ gStmt' = IF k = "PrepareContext" /\ r = "ok" THEN gStmt + 1 ELSE gStmt

\* The end of call w, in state o, with result r, and what the goroutine does with it: newTx and
\* inTx.Store(true), newStmt, or the deferred inTx.Store(false) of tx.close.
Finish(w, o, r) ==
  LET k == o.kind
  IN  /\ Goes(w, Ends(o, r))
      /\ inTx' = CASE k = "BeginTx" /\ r = "ok"          -> TRUE
                   [] k \in {"Commit", "Rollback"}       -> FALSE
                   [] OTHER                              -> inTx
      /\ gTx' = IF k = "BeginTx" /\ r = "ok" THEN gTx + 1 ELSE gTx
      /\ gStmt' = IF k = "PrepareContext" /\ r = "ok" THEN gStmt + 1 ELSE gStmt

\* Mutant: no check of inTx.
SwitchUser_InTx(w) ==
  /\ op[w].pc = "switch"
  /\ LET u == op[w].user
     IN  \/ /\ Settled(u)
            /\ Goes(w, Sends(op[w], FirstRequest(op[w].kind)))
            /\ UNCHANGED user
         \/ /\ ~Settled(u)
            /\ Goes(w, Sends(op[w], "connect"))
            /\ user' = Clone(u)
  /\ UNCHANGED <<sqlVars, orphans, inTx, cancelled, wrErr, rdErr, netVars, srvVars, gauges, swapped>>

\* session.switchUser up to the "connect" request: the user is recorded before it is sent.
SwitchUser(w) ==
  /\ op[w].pc = "switch"
  /\ LET u == op[w].user
     IN  \/ /\ Settled(u)
            /\ Goes(w, Sends(op[w], FirstRequest(op[w].kind)))
            /\ UNCHANGED user
         \/ /\ ~Settled(u) /\ inTx
            /\ Goes(w, Ends(op[w], "err"))
            /\ UNCHANGED user
         \/ /\ ~Settled(u) /\ ~inTx
            /\ Goes(w, Sends(op[w], "connect"))
            /\ user' = Clone(u)
  /\ UNCHANGED <<sqlVars, orphans, inTx, cancelled, wrErr, rdErr, netVars, srvVars, gauges, swapped>>

\* Mutant: every request commits.
LoadInTx_Always(w) ==
  /\ op[w].pc = "load"
  /\ Goes(w, [op[w] EXCEPT !.commit = TRUE, !.pc = "write"])
  /\ UNCHANGED <<sqlVars, orphans, sessVars, netVars, srvVars, gauges, swapped>>

\* The argument !s.inTx.Load() of pwr.Write.
LoadInTx(w) ==
  /\ op[w].pc = "load"
  /\ Goes(w, [op[w] EXCEPT !.commit = ~inTx, !.pc = "write"])
  /\ UNCHANGED <<sqlVars, orphans, sessVars, netVars, srvVars, gauges, swapped>>

\* The schema of session.setSchema.
WantedSchema == IF user # NoUser /\ user.schema # NoSchema THEN user.schema ELSE DefaultSchema

\* Writer.Write.  Behind half a message the server cannot make out the request.
Write(w) ==
  /\ op[w].pc = "write" /\ up /\ hold # "closed" /\ wrErr # "io"
  /\ reqQ' = Append(reqQ, [op |-> w, req |-> IF wrErr = "enc" THEN "garbage" ELSE op[w].req,
                           commit |-> op[w].commit, schema |-> WantedSchema])
  /\ Goes(w, [op[w] EXCEPT !.pc = "read"])
  /\ UNCHANGED <<sqlVars, orphans, sessVars, up, repQ, cut, srvVars, gauges, swapped>>

\* Writer.Write fails: on the connection (dbConn.Write wraps driver.ErrBadConn) or on
\* encoding a part.
WriteFail(w) ==
  /\ op[w].pc = "write"
  /\ \/ wrErr' = "io" /\ Finish(w, op[w], "bad")
     \/ wrErr # "io" /\ wrErr' = "enc" /\ Finish(w, op[w], "err")
  /\ UNCHANGED <<sqlVars, orphans, cancelled, user, rdErr, netVars, srvVars, gConn, swapped>>

\* Mutant: one package too many.
NextRequest_OneMore(o) ==
  CASE o.req = "connect" /\ WantedSchema # NoSchema   -> "setSchema"
    [] o.req = "connect" /\ WantedSchema = NoSchema   -> FirstRequest(o.kind)
    [] o.req = "setSchema"                            -> FirstRequest(o.kind)
    [] o.req = "isolation"                            -> "accessMode"
    [] o.req = "statement" /\ o.left >= 0             -> "statement"
    [] OTHER                                          -> "none"

\* What a call sends after a good reply, "none" when it is finished: switchUser goes on with
\* setSchema, BeginTx sets isolation level and access mode, stmt.exec sends its packages.
NextRequest(o) ==
  CASE o.req = "connect" /\ WantedSchema # NoSchema   -> "setSchema"
    [] o.req = "connect" /\ WantedSchema = NoSchema   -> FirstRequest(o.kind)
    [] o.req = "setSchema"                            -> FirstRequest(o.kind)
    [] o.req = "isolation"                            -> "accessMode"
    [] o.req = "statement" /\ o.left > 0              -> "statement"
    [] OTHER                                          -> "none"

\* What the next bytes on the stream are decoded to.  Out of step they are taken for the headers
\* of a reply of nobody, which may look good or bad.
Decoded == IF cut THEN [op : {0}, ok : BOOLEAN, attr : {"none"}] ELSE {Head(repQ)}

\* Reader.IterateParts or SkipParts reads the next reply on the stream, whoever asked.
Read(w) ==
  /\ op[w].pc = "read" /\ (repQ = <<>> => cut) /\ ~rdErr /\ hold # "closed"
  /\ repQ' = IF cut THEN repQ ELSE Tail(repQ)
  /\ \E m \in Decoded :
       LET o == [op[w] EXCEPT !.attr = m.attr]
           r == NextRequest(o)
       IN  /\ swapped' = IF m.op = w THEN swapped ELSE swapped \cup {w}
           /\ \/ /\ m.ok /\ r # "none"
                 /\ Goes(w, Sends([o EXCEPT !.left = IF o.req = "statement" THEN @ - 1 ELSE @], r))
                 /\ UNCHANGED <<inTx, gTx, gStmt>>
              \/ /\ m.ok /\ r = "none"
                 /\ Finish(w, o, "ok")
              \/ /\ ~m.ok
                 /\ Finish(w, o, "err")
  /\ UNCHANGED <<sqlVars, orphans, cancelled, user, wrErr, rdErr, up, reqQ, cut, srvVars, gConn>>

\* IterateParts gives up in the middle of a reply and the decoder holds no error afterwards: a
\* part cannot be decoded and the parts behind it are not read, or reading fails in the bytes
\* skipped at the end of the message and that error is reset.
ReadCut(w) ==
  /\ op[w].pc = "read" /\ (repQ = <<>> => cut) /\ ~rdErr /\ hold # "closed"
  /\ cut' = TRUE /\ repQ' = <<>>
  /\ swapped' = IF ~cut /\ Head(repQ).op = w THEN swapped ELSE swapped \cup {w}
  /\ \E r \in {"err", "bad"} : Finish(w, op[w], r)
  /\ UNCHANGED <<sqlVars, orphans, cancelled, user, wrErr, rdErr, up, reqQ, srvVars, gConn>>

\* Mutants: the decoder forgets its error; there is no read deadline.
ReadFail_Forget(w) ==
  /\ op[w].pc = "read"
  /\ Finish(w, op[w], "bad")
  /\ UNCHANGED <<sqlVars, orphans, cancelled, user, wrErr, rdErr, netVars, srvVars, gConn, swapped>>

ReadFail_NoDeadline(w) ==
  /\ op[w].pc = "read" /\ (rdErr \/ ~up \/ hold = "closed")
  /\ rdErr' = TRUE
  /\ Finish(w, op[w], "bad")
  /\ UNCHANGED <<sqlVars, orphans, cancelled, user, wrErr, netVars, srvVars, gConn, swapped>>

\* The read deadline passes, the connection is lost or closed, or the decoder still holds
\* the error of an earlier read: dbConn.Read wraps driver.ErrBadConn, the decoder keeps it.
ReadFail(w) ==
  /\ op[w].pc = "read"
  /\ rdErr' = TRUE
  /\ Finish(w, op[w], "bad")
  /\ UNCHANGED <<sqlVars, orphans, cancelled, user, wrErr, netVars, srvVars, gConn, swapped>>

-----------------------------------------------------------------------------
(* Network and server (external).                                          *)

\* Requests the server may refuse.
Refusable == {"connect", "setSchema", "isolation", "accessMode", "statement", "MtPrepare",
              "MtCommit", "MtFetchNext"}

\* The server serves the next request.  A commit flag makes the statement, and what was
\* pending before it, durable; a refused commit rolls back.
Serve(ok, a) ==
  /\ reqQ # <<>>
  /\ LET m == Head(reqQ)
         o == op[m.op]
         effect == IF m.req = "statement" THEN {m.op} ELSE {}
         isRows == \/ m.req = "MtFetchNext"
                   \/ m.req = "statement" /\ o.kind \in {"QueryContext", "StmtQuery"}
     IN  /\ ~ok => m.req \in Refusable \cup {"garbage"}
         /\ ok => m.req # "garbage"
         /\ (a = "none") = ~(ok /\ isRows)
         /\ repQ' = IF hold = "closed" \/ cut THEN repQ
                    ELSE Append(repQ, [op |-> m.op, ok |-> ok, attr |-> a])
         /\ durable' = IF ok /\ (m.commit \/ m.req = "MtCommit")
                       THEN durable \cup pend \cup effect ELSE durable
         /\ pend' = IF \/ m.req \in {"MtCommit", "MtRollback", "MtDisconnect"}
                       \/ ok /\ m.commit
                    THEN {} ELSE IF ok THEN pend \cup effect ELSE pend
         /\ srvStmts' = CASE ok /\ m.req = "MtPrepare"         -> srvStmts \cup {m.op}
                          [] ok /\ m.req = "MtDropStatementID" -> srvStmts \ {o.arg}
                          [] OTHER                             -> srvStmts
         /\ srvUser' = IF ok /\ m.req = "connect" THEN Name(o.user) ELSE srvUser
         /\ srvSchema' = CASE ok /\ m.req = "connect"   -> NoSchema
                           [] ok /\ m.req = "setSchema" -> m.schema
                           [] OTHER                     -> srvSchema
         /\ ranAs' = IF ok /\ m.req = "statement"
                     THEN [ranAs EXCEPT ![m.op] =
                             @ \cup {[user |-> srvUser, schema |-> srvSchema]}]
                     ELSE ranAs
  /\ reqQ' = Tail(reqQ)
  /\ UNCHANGED <<sqlVars, op, orphans, sessVars, up, cut, gauges, swapped>>

\* The server session ends, because the driver closed the connection or because it is lost:
\* what is not served is dropped and what is pending rolled back.
SessionEnd ==
  /\ up
  /\ up' = FALSE /\ reqQ' = <<>> /\ pend' = {}
  /\ UNCHANGED <<sqlVars, op, orphans, sessVars, repQ, cut, srvUser, srvSchema, durable, srvStmts,
                 ranAs, gauges, swapped>>

-----------------------------------------------------------------------------
Step(w) ==
  SwitchUser(w) \/ LoadInTx(w) \/ Write(w) \/ WriteFail(w) \/ Read(w) \/ ReadCut(w) \/ ReadFail(w)

Next ==
  \/ \E k \in Switching, u \in Users \cup {NoUser} : ConnCall(k, u)
  \/ \E k \in {"Ping", "DBConnectInfo"} : InfoCall(k)
  \/ \E k \in {"StmtQuery", "StmtExec"}, u \in Users \cup {NoUser}, s \in stmts,
        l \in 0 .. MaxPackages - 1 : StmtCall(k, u, s, l)
  \/ \E k \in {"Commit", "Rollback"} : TxClose(k)
  \/ \E q \in Ops : RowsNext(q) \/ RowsClose(q)
  \/ \E s \in stmts : StmtClose(s)
  \/ ResetSession \/ Reuse
  \/ Return \/ Cancel
  \/ Release \/ Close
  \/ \E w \in Ops : Step(w)
  \/ \E ok \in BOOLEAN, a \in Attrs : Serve(ok, a)
  \/ SessionEnd

\* Goroutines run, the select takes one of its ready cases, reads and writes have a deadline.
Fairness == WF_vars(Return) /\ \A w \in Ops : WF_vars(Step(w))

Spec == Init /\ [][Next]_vars
FairSpec == Spec /\ Fairness

-----------------------------------------------------------------------------
Running == {"switch", "load", "write", "read"}
OpRecord ==
  [kind : AllKinds \cup {"none"}, user : Users \cup {NoUser}, tx : Ops \cup {0},
   arg : Ops \cup {0}, left : 0 .. MaxPackages - 1, pc : Running \cup {"idle", "done"},
   req : Requests \cup {"none"}, commit : BOOLEAN, attr : Attrs, res : Results]
OpType == {o \in OpRecord : o.pc \in {"load", "write", "read"} => o.req # "none"}
RequestType ==
  [op : Ops, req : Requests \cup {"garbage"}, commit : BOOLEAN, schema : Schemas] \cup
  [op : {0}, req : {"MtDisconnect"}, commit : {FALSE}, schema : {NoSchema}]
ReplyType == [op : Ops \cup {0}, ok : BOOLEAN, attr : Attrs]

\* Type invariant of the connection, its goroutines, the stream and the server session.
TypeOK ==
  /\ n \in 0 .. MaxOps /\ cur \in 0 .. n /\ hold \in {"pool", "held", "drop", "closed"}
  /\ sqlTx \in 0 .. n /\ stmts \subseteq Ops /\ rows \in [Ops -> RowStates]
  /\ committed \subseteq Ops /\ op \in [Ops -> OpType] /\ orphans \subseteq Ops
  /\ inTx \in BOOLEAN /\ cancelled \in BOOLEAN /\ wrErr \in {"no", "io", "enc"} /\ rdErr \in BOOLEAN
  /\ user \in {Clone(u) : u \in Users} \cup {NoUser}
  /\ up \in BOOLEAN /\ reqQ \in Seq(RequestType) /\ repQ \in Seq(ReplyType) /\ cut \in BOOLEAN
  /\ srvUser \in Names /\ srvSchema \in Schemas
  /\ pend \subseteq Ops /\ durable \subseteq Ops /\ srvStmts \subseteq Ops
  /\ gConn \in Int /\ gTx \in Int /\ gStmt \in Int
  /\ swapped \subseteq Ops /\ ranAs \in [Ops -> SUBSET Identity]

\* As long as no context was cancelled and no reply was left half read, a call is answered by
\* the reply to its own request: a reply that arrives after the read deadline of its call is
\* never taken by a later call.
OwnReply == ~cancelled /\ ~cut => swapped = {}

\* Why that is so: without a cancelled context only the call in progress runs on the session,
\* and the stream carries nothing but its request or the reply to it, unless a read failed
\* (the decoder then refuses to read, or is out of step) or the connection is closed.
OneAtATime ==
  ~cancelled =>
    /\ \A w \in Ops : op[w].pc \in Running => w = cur
    /\ ~cut /\ ~rdErr /\ hold # "closed" =>
         \/ reqQ = <<>> /\ repQ = <<>>
         \/ /\ cur # 0 /\ op[cur].pc = "read"
            /\ \/ Len(reqQ) = 1 /\ reqQ[1].op = cur /\ repQ = <<>>
               \/ reqQ = <<>> /\ Len(repQ) = 1 /\ repQ[1].op = cur

\* As long as no context was cancelled, what a statement did inside a transaction becomes
\* durable only through a Commit of that transaction.
CommitOnly == ~cancelled => \A w \in durable : op[w].tx # 0 => op[w].tx \in committed

Statements == {"QueryContext", "ExecContext", "StmtQuery", "StmtExec"}

\* As long as no context was cancelled and no reply was left half read, a statement that
\* returned without an error outside a transaction is durable: the commit flag is never left
\* off by a stale inTx.
AutoCommitted ==
  ~cancelled /\ ~cut => \A w \in Ops :
     op[w].kind \in Statements /\ op[w].res = "ok" /\ op[w].tx = 0 => w \in durable

\* A connection in the pool is clean whatever happened on it before: no goroutine runs on it,
\* it is not cancelled and not in a transaction; and unless a reply was left half read, the
\* server holds no uncommitted work and no message is under way, or the decoder refuses to
\* read any more.
PoolClean ==
  hold = "pool" /\ cur = 0 =>
    /\ ~cancelled /\ ~inTx /\ sqlTx = 0
    /\ \A w \in Ops : op[w].pc \notin Running
    /\ ~cut => pend = {} /\ (rdErr \/ (reqQ = <<>> /\ repQ = <<>>))

\* Between calls, as long as no context was cancelled, the gauges count what is open, and
\* nothing remains counted for a closed connection.
GaugesExact ==
  ~cancelled /\ cur = 0 =>
    /\ gConn = IF hold = "closed" THEN 0 ELSE 1
    /\ gTx = IF sqlTx = 0 THEN 0 ELSE 1
    /\ gStmt = Cardinality(stmts)

\* Between calls on a working connection the server holds the statements that are open in
\* the driver, no more and no fewer.
StatementsMatch ==
  ~isBad /\ ~rdErr /\ ~cut /\ cur = 0 /\ hold # "closed" => srvStmts = stmts

\* All statements of one transaction run as the same user (ErrSwitchUser), as long as no
\* context was cancelled.
OneUserPerTx ==
  ~cancelled => \A v, w \in Ops : op[v].tx = op[w].tx /\ op[v].tx # 0 =>
    \A i \in ranAs[v], j \in ranAs[w] : i = j

\* Every driver call returns and every goroutine ends, cancelled or not, whether or not the
\* server answers.
EveryCallEnds == \A w \in Ops : n >= w ~> (cur # w /\ op[w].pc = "done")

-----------------------------------------------------------------------------
(* What the documentation and the tests say and the code does not do.      *)

\* protocol.go: "do not return here in case of error -> read stream would be broken".  A
\* connection in the pool is in step with the replies of the server.
PoolInStep == hold = "pool" /\ cur = 0 => ~cut

\* tx_test.go: "rollback - no record expected".
RollbackFinal ==
  \A v, w \in Ops : op[v].kind = "Rollback" /\ op[v].tx = op[w].tx => w \notin durable

\* WithUserSwitch "can be used to switch a user on a new or an existing connection": a call
\* runs as the user of its context.
RunsAsUser ==
  \A w \in Ops : op[w].user # NoUser => \A i \in ranAs[w] : i.user = op[w].user.name

\* ... and in the schema of that SessionUser.
RunsInSchema ==
  \A w \in Ops : op[w].user # NoUser /\ op[w].user.schema # NoSchema =>
    \A i \in ranAs[w] : i.schema = op[w].user.schema
============================================================================
