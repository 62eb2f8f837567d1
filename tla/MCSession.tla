----------------------------- MODULE MCSession -----------------------------
(* Instances of Session for TLC. *)
EXTENDS Session

\* Transactions, statements, rows and the pool.
CoreKinds == {"BeginTx", "ExecContext", "QueryContext", "Commit", "Rollback", "PrepareContext",
              "StmtExec", "StmtQuery", "StmtClose", "Next", "RowsClose", "ResetSession", "Ping"}

\* Transactions under user switches, and a call that never switches.
UserKinds == {"BeginTx", "ExecContext", "Rollback", "DBConnectInfo"}
LiveKinds == {"BeginTx", "ExecContext", "Ping"}

NoUsers == {}
OneUser == {[name |-> "u1", schema |-> "s1"]}
TwoUsers == {[name |-> "u1", schema |-> "s1"], [name |-> "u2", schema |-> ""]}

\* Bound: calls with a user and pings do not meet a cancelled call in one behaviour.  It is a state
\* constraint where only safety is checked.  In LiveSpec it restricts, of the actions, only the
\* calls and Cancel, which are not fair.
UsersOrCancel == orphans = {} \/ \A w \in Ops : op[w].user = NoUser /\ op[w].kind # "Ping"
LiveSpec == Init /\ [][Next /\ UsersOrCancel']_vars /\ Fairness

-----------------------------------------------------------------------------
(* The connection implements Transactions.                                 *)

Effect(w) == [call |-> w, tx |-> op[w].tx]
Effects(S) == {Effect(w) : w \in S}
EndedOk(K) == {w \in Ops : op[w].kind \in K /\ op[w].res = "ok"}
TxOf(S) == {op[w].tx : w \in S}

Tx == INSTANCE Transactions WITH
        asked   <- committed,
        ran     <- Effects({w \in Ops : ranAs[w] # {}}),
        pending <- Effects(pend),
        durable <- Effects(durable),
        told    <- Effects(EndedOk(Statements)),
        kept    <- TxOf(EndedOk({"Commit"})),
        dropped <- TxOf(EndedOk({"Rollback"})),
        void    <- cancelled \/ cut

\* Whatever the interleaving of the goroutines, the stream, the server and the faults, the
\* application sees transactions (conn.go, session.go): statements outside a transaction are
\* durable when they return, those of a transaction become durable together, on its Commit, and
\* what is reported as done is done.
Transactional == Tx!TxSpec
============================================================================
