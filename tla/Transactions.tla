---------------------------- MODULE Transactions ----------------------------
(***************************************************************************)
(* What a connection promises the application of the effects of its        *)
(* statements (the contract of driver.Conn, driver.Tx and driver.ExecerContext *)
(* in database/sql): no sessions, goroutines, messages or commit flags.    *)
(* The connection is shown to implement it in module MCSession.            *)
(*                                                                         *)
(* An effect is a record [call, tx]: the call of the statement, and the    *)
(* transaction it was made in, 0 if in none.                               *)
(***************************************************************************)
VARIABLES
  asked,      \* transactions on which the application called Commit
  ran,        \* effects the server has produced
  pending,    \* those that wait for the end of their transaction
  durable,    \* those that are committed
  told,       \* effects of the statements that returned without an error
  kept,       \* transactions whose Commit returned without an error
  dropped,    \* transactions whose Rollback returned without an error
  void        \* the promise is withdrawn

txVars == <<asked, ran, pending, durable, told, kept, dropped, void>>

TxInit ==
  /\ asked = {} /\ ran = {} /\ pending = {} /\ durable = {}
  /\ told = {} /\ kept = {} /\ dropped = {} /\ void = FALSE

Of(S, t) == {e \in S : e.tx = t}

Ask ==
  /\ asked \subseteq asked'
  /\ UNCHANGED <<ran, pending, durable, told, kept, dropped, void>>

\* A statement outside a transaction is durable at once.
RunAlone(e) ==
  /\ e.tx = 0 /\ pending = {}
  /\ ran' = ran \cup {e} /\ durable' = durable \cup {e}
  /\ UNCHANGED <<asked, pending, told, kept, dropped, void>>

\* A statement of a transaction waits for its end, next to no other's, and never comes late.
RunInTx(e) ==
  /\ e.tx # 0 /\ e.tx \notin kept \cup dropped /\ pending = Of(pending, e.tx)
  /\ ran' = ran \cup {e} /\ pending' = pending \cup {e}
  /\ UNCHANGED <<asked, durable, told, kept, dropped, void>>

\* All of a transaction, if the application asked for it.
CommitTx ==
  /\ \A e \in pending : e.tx \in asked
  /\ durable' = durable \cup pending /\ pending' = {}
  /\ UNCHANGED <<asked, ran, told, kept, dropped, void>>

\* A rollback, a refused commit or the loss of the connection.
Undo ==
  /\ pending' = {}
  /\ UNCHANGED <<asked, ran, durable, told, kept, dropped, void>>

\* Success is reported of what the server has done.
Tell(e) ==
  /\ e \in ran
  /\ told' = told \cup {e}
  /\ UNCHANGED <<asked, ran, pending, durable, kept, dropped, void>>

TellCommit(t) ==
  /\ Of(ran, t) \subseteq durable
  /\ kept' = kept \cup {t}
  /\ UNCHANGED <<asked, ran, pending, durable, told, dropped, void>>

TellRollback(t) ==
  /\ Of(pending \cup durable, t) = {}
  /\ dropped' = dropped \cup {t}
  /\ UNCHANGED <<asked, ran, pending, durable, told, kept, void>>

\* A context was cancelled, or a reply left half read: only what is durable remains so.
Withdrawn == void' /\ durable \subseteq durable'

TxNext ==
  \/ Ask \/ CommitTx \/ Undo \/ Withdrawn
  \/ \E e \in ran' : RunAlone(e) \/ RunInTx(e)
  \/ \E e \in told' : Tell(e)
  \/ \E t \in kept' : TellCommit(t)
  \/ \E t \in dropped' : TellRollback(t)

TxSpec == TxInit /\ [][TxNext]_txVars
=============================================================================
