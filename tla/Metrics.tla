------------------------------ MODULE Metrics ------------------------------
(***************************************************************************)
(* The metrics of the driver (metrics.go) and of every driver.DB: a        *)
(* buffered channel of messages, filled by the connections, and a          *)
(* collector goroutine, which adds every message to its own metrics and    *)
(* then to those of the parent, the driver.  Closing a DB (driver.go)      *)
(* closes its free connections, then the channel, and waits for the        *)
(* collector.  The goroutine of a cancelled call is waited for by nobody:  *)
(* it may outlive its connection and still send.                           *)
(***************************************************************************)
EXTENDS Integers, Sequences, FiniteSets, Functions

CONSTANTS
  DBs,       \* the open driver.DB
  Driver,    \* the driver singleton stdHdbDriver
  Conns,     \* connections
  MetricsOf, \* the metrics of a connection: those of its DB, or (sql.Open) those of the driver
  Cap,       \* numMetricCollectorCh
  MaxMsgs,   \* bound: counter and time messages
  Cancels,   \* bound: the connections whose calls are cancelled
  Orderly    \* the application closes a DB once, and when it uses no connection of it any more

M == DBs \cup {Driver}

ASSUME MetricsAssumption ==
  /\ Cap \in Nat \ {0} /\ MaxMsgs \in Nat /\ Orderly \in BOOLEAN
  /\ Driver \notin DBs /\ MetricsOf \in [Conns -> M] /\ Cancels \subseteq Conns

VARIABLES
  conn,      \* state of a connection
  left,      \* counter and time messages that may still be sent
  call,      \* the cancelled calls of a connection: none, abandoned while it runs, over
  db,        \* progress of DB.Close, or of Unregister for the driver
  ch,        \* msgCh
  chClosed,  \* close(msgCh) was called
  col,       \* the collector goroutine
  held,      \* the message it works on, 0 if none
  sent,      \* number of messages sent on a channel
  own, up,   \* number of messages added by the collector to its metrics, to its parent's
  gauge,     \* gauges[gaugeConn]
  panicked   \* somebody sent on a closed channel: the process dies

connVars == <<conn, left, call>>
colVars == <<col, held, own, up, gauge>>
vars == <<connVars, db, ch, chClosed, colVars, sent, panicked>>

\* A message is its value for the gauge of open connections: 1 or -1, and 0 for all the others.
Messages == {-1, 0, 1}

Of(m) == {c \in Conns : MetricsOf[c] = m}

Init ==
  /\ conn = [c \in Conns |-> "new"] /\ left = MaxMsgs
  /\ call = [c \in Conns |-> "none"]
  /\ db = [m \in M |-> "open"]
  /\ ch = [m \in M |-> <<>>] /\ chClosed = [m \in M |-> FALSE]
  /\ col = [m \in M |-> "off"] /\ held = [m \in M |-> 0]
  /\ sent = [m \in M |-> 0] /\ own = [m \in M |-> 0] /\ up = [m \in M |-> 0]
  /\ gauge = [m \in M |-> 0]
  /\ panicked = FALSE

-----------------------------------------------------------------------------
(* Connections.                                                            *)

\* metrics.msgCh <- v.  It blocks while the channel is full and panics once it is closed.
Send(m, v) ==
  /\ ~chClosed[m] => Len(ch[m]) < Cap
  /\ panicked' = chClosed[m]
  /\ ch' = IF chClosed[m] THEN ch ELSE [ch EXCEPT ![m] = Append(@, v)]
  /\ sent' = IF chClosed[m] THEN sent ELSE [sent EXCEPT ![m] = @ + 1]

Becomes(c, s) == conn' = [conn EXCEPT ![c] = s]

\* Mutant: the collector is not started.
Connect_NoInit(c) ==
  /\ conn[c] = "new" /\ db[MetricsOf[c]] = "open"
  /\ Becomes(c, "dial")
  /\ UNCHANGED <<left, call, db, ch, chClosed, colVars, sent, panicked>>

\* newConn up to newSession: lazyInit starts the collector of these metrics, once.
Connect(c) ==
  /\ conn[c] = "new" /\ db[MetricsOf[c]] = "open"
  /\ Becomes(c, "dial")
  /\ col' = [col EXCEPT ![MetricsOf[c]] = IF @ = "off" THEN "recv" ELSE @]
  /\ UNCHANGED <<left, call, db, ch, chClosed, held, own, up, gauge, sent, panicked>>

\* A counter or time message of a read, a write or a statement.
SendOther(c) ==
  /\ left > 0
  /\ Send(MetricsOf[c], 0)
  /\ left' = left - 1
  /\ UNCHANGED <<conn, call, db, chClosed, colVars>>

\* The session is set up or in use, or it is disconnected, which a cancelled one is not.
Report(c) ==
  /\ conn[c] \in {"dial", "busy"} \/ (conn[c] = "disconnect" /\ call[c] = "none")
  /\ SendOther(c)

\* The context of a call is done before its goroutine: the call returns, the session is bad.
Cancel(c) ==
  /\ conn[c] = "busy" /\ c \in Cancels
  /\ call' = [call EXCEPT ![c] = "abandoned"]
  /\ UNCHANGED <<conn, left, db, ch, chClosed, colVars, sent, panicked>>

\* The goroutine goes on with its reads and writes, which fail at the latest when the socket is
\* closed; also then it sends their times and that of its statement.
AbandonedReport(c) ==
  /\ call[c] = "abandoned"
  /\ SendOther(c)

\* Its end.
AbandonedEnds(c) ==
  /\ call[c] = "abandoned"
  /\ call' = [call EXCEPT ![c] = "over"]
  /\ UNCHANGED <<conn, left, db, ch, chClosed, colVars, sent, panicked>>

\* newSession fails and closes its dbConn: there is no connection to count.
ConnectFail(c) ==
  /\ conn[c] = "dial"
  /\ Becomes(c, "gone")
  /\ UNCHANGED <<left, call, db, ch, chClosed, colVars, sent, panicked>>

\* newConn counts the connection and returns it.
Connected(c) ==
  /\ conn[c] = "dial"
  /\ Send(MetricsOf[c], 1)
  /\ Becomes(c, "busy")
  /\ UNCHANGED <<left, call, db, chClosed, colVars>>

\* database/sql hands out a free connection.
Acquire(c) ==
  /\ conn[c] = "free" /\ db[MetricsOf[c]] = "open"
  /\ Becomes(c, "busy")
  /\ UNCHANGED <<left, call, db, ch, chClosed, colVars, sent, panicked>>

\* database/sql takes a connection back: it closes a bad one, and any once the DB is closed.
Release(c) ==
  /\ conn[c] = "busy"
  /\ \/ db[MetricsOf[c]] = "open" /\ call[c] = "none" /\ Becomes(c, "free")
     \/ Becomes(c, "close")
  /\ UNCHANGED <<left, call, db, ch, chClosed, colVars, sent, panicked>>

\* conn.Close up to session.close.
Close(c) ==
  /\ conn[c] = "close"
  /\ Send(MetricsOf[c], -1)
  /\ Becomes(c, "disconnect")
  /\ UNCHANGED <<left, call, db, chClosed, colVars>>

\* The end of session.close: the socket is closed.  Nobody waits for an abandoned call.
Closed(c) ==
  /\ conn[c] = "disconnect"
  /\ Becomes(c, "gone")
  /\ UNCHANGED <<left, call, db, ch, chClosed, colVars, sent, panicked>>

-----------------------------------------------------------------------------
(* Collectors.                                                             *)

\* Mutant: the collector stops at once when the channel is closed.
Collect_Abandon(m) ==
  /\ col[m] = "recv"
  /\ \/ /\ ~chClosed[m] /\ ch[m] # <<>>
        /\ held' = [held EXCEPT ![m] = Head(ch[m])]
        /\ ch' = [ch EXCEPT ![m] = Tail(@)]
        /\ col' = [col EXCEPT ![m] = "own"]
     \/ /\ chClosed[m]
        /\ col' = [col EXCEPT ![m] = "exit"]
        /\ UNCHANGED <<held, ch>>
  /\ UNCHANGED <<connVars, db, chClosed, own, up, gauge, sent, panicked>>

\* Mutant: the nil (here 2) received from a closed channel is handled as a message.
Collect_NoOk(m) ==
  /\ col[m] = "recv" /\ (ch[m] # <<>> \/ chClosed[m])
  /\ held' = [held EXCEPT ![m] = IF ch[m] = <<>> THEN 2 ELSE Head(ch[m])]
  /\ ch' = [ch EXCEPT ![m] = IF @ = <<>> THEN @ ELSE Tail(@)]
  /\ col' = [col EXCEPT ![m] = "own"]
  /\ UNCHANGED <<connVars, db, chClosed, own, up, gauge, sent, panicked>>

\* for msg := range m.msgCh: it ends when the channel is closed and empty.
Collect(m) ==
  /\ col[m] = "recv"
  /\ \/ /\ ch[m] # <<>>
        /\ held' = [held EXCEPT ![m] = Head(ch[m])]
        /\ ch' = [ch EXCEPT ![m] = Tail(@)]
        /\ col' = [col EXCEPT ![m] = "own"]
     \/ /\ ch[m] = <<>> /\ chClosed[m]
        /\ col' = [col EXCEPT ![m] = "exit"]
        /\ UNCHANGED <<held, ch>>
  /\ UNCHANGED <<connVars, db, chClosed, own, up, gauge, sent, panicked>>

\* Mutant: the parent does not see the gauges.
HandleMsg_NoParent(m) ==
  /\ col[m] = "own"
  /\ own' = [own EXCEPT ![m] = @ + 1]
  /\ gauge' = [gauge EXCEPT ![m] = @ + held[m]]
  /\ col' = [col EXCEPT ![m] = "recv"]
  /\ held' = [held EXCEPT ![m] = 0]
  /\ UNCHANGED <<connVars, db, ch, chClosed, up, sent, panicked>>

\* handleMsg under the lock of m.
HandleMsg(m) ==
  /\ col[m] = "own"
  /\ own' = [own EXCEPT ![m] = @ + 1]
  /\ gauge' = [gauge EXCEPT ![m] = @ + held[m]]
  /\ col' = [col EXCEPT ![m] = IF m = Driver THEN "recv" ELSE "parent"]
  /\ held' = [held EXCEPT ![m] = IF m = Driver THEN 0 ELSE @]
  /\ UNCHANGED <<connVars, db, ch, chClosed, up, sent, panicked>>

\* Mutant: the parent counts a message twice.
HandleParent_Twice(m) ==
  /\ col[m] = "parent"
  /\ up' = [up EXCEPT ![m] = @ + 1]
  /\ gauge' = [gauge EXCEPT ![Driver] = @ + 2 * held[m]]
  /\ col' = [col EXCEPT ![m] = "recv"]
  /\ held' = [held EXCEPT ![m] = 0]
  /\ UNCHANGED <<connVars, db, ch, chClosed, own, sent, panicked>>

\* m.parentMetrics.handleMsg(msg) under the lock of the parent, by the collector of m.
HandleParent(m) ==
  /\ col[m] = "parent"
  /\ up' = [up EXCEPT ![m] = @ + 1]
  /\ gauge' = [gauge EXCEPT ![Driver] = @ + held[m]]
  /\ col' = [col EXCEPT ![m] = "recv"]
  /\ held' = [held EXCEPT ![m] = 0]
  /\ UNCHANGED <<connVars, db, ch, chClosed, own, sent, panicked>>

-----------------------------------------------------------------------------
(* DB.Close and Unregister.                                                *)

\* sql.DB.Close: it takes the free connections out of the pool to close them, and does not
\* wait for the ones in use.
CloseDB(d) ==
  /\ db[d] = "open"
  /\ Orderly => \A c \in Of(d) : conn[c] \notin {"dial", "busy", "close", "disconnect"}
  /\ db' = [db EXCEPT ![d] = "closing"]
  /\ conn' = [c \in Conns |-> IF c \in Of(d) /\ conn[c] = "free" THEN "close" ELSE conn[c]]
  /\ UNCHANGED <<left, call, ch, chClosed, colVars, sent, panicked>>

\* Mutant: the metrics are closed without waiting for the connections.
CloseMetrics_Early(m) ==
  /\ \/ m \in DBs /\ db[m] = "closing"
     \/ /\ m = Driver /\ db[m] = "open"
        /\ Orderly => \A c \in Of(m) : conn[c] \in {"new", "gone"}
  /\ db' = [db EXCEPT ![m] = "waiting"]
  /\ chClosed' = [chClosed EXCEPT ![m] = TRUE]
  /\ UNCHANGED <<connVars, ch, colVars, sent, panicked>>

\* metrics.close up to wg.Wait: once sql.DB.Close has closed the connections that were free
\* (a second, concurrent Close does not wait for that), or right away in Unregister, which
\* forbids any use of the driver after it.
CloseMetrics(m) ==
  /\ \/ /\ m \in DBs /\ db[m] = "closing"
        /\ Orderly => \A c \in Of(m) : conn[c] \notin {"close", "disconnect"}
     \/ /\ m = Driver /\ db[m] = "open"
        /\ Orderly => \A c \in Of(m) : conn[c] \in {"new", "gone"}
  /\ db' = [db EXCEPT ![m] = "waiting"]
  /\ chClosed' = [chClosed EXCEPT ![m] = TRUE]
  /\ UNCHANGED <<connVars, ch, colVars, sent, panicked>>

\* m.wg.Wait() returns when the collector has ended or was never started.
CloseReturns(m) ==
  /\ db[m] = "waiting" /\ col[m] \in {"off", "exit"}
  /\ db' = [db EXCEPT ![m] = "closed"]
  /\ UNCHANGED <<connVars, ch, chClosed, colVars, sent, panicked>>

-----------------------------------------------------------------------------
ConnStep(c) == Report(c) \/ ConnectFail(c) \/ Connected(c) \/ Close(c) \/ Closed(c)
ColStep(m) == Collect(m) \/ HandleMsg(m) \/ HandleParent(m)
CloseStep(m) == CloseMetrics(m) \/ CloseReturns(m)

Next ==
  /\ ~panicked
  /\ \/ \E c \in Conns : ConnStep(c) \/ Connect(c) \/ Acquire(c) \/ Release(c)
     \/ \E c \in Conns : Cancel(c) \/ AbandonedReport(c) \/ AbandonedEnds(c)
     \/ \E m \in M : ColStep(m) \/ CloseStep(m)
     \/ \E d \in DBs : CloseDB(d)

\* Collectors run, a call of the driver goes on, and so does a Close once it was called.  A
\* sender waiting at a full channel is served in turn (Go's channels queue their senders).  An
\* abandoned call may hang for good.
Fairness ==
  /\ \A m \in M : WF_vars(ColStep(m) /\ ~panicked)
  /\ \A c \in Conns : SF_vars(ConnStep(c) /\ ~panicked)
  /\ \A d \in DBs : WF_vars(CloseStep(d) /\ ~panicked)

Spec == Init /\ [][Next]_vars
FairSpec == Spec /\ Fairness

-----------------------------------------------------------------------------
ConnStates == {"new", "dial", "busy", "free", "close", "disconnect", "gone"}

\* Type invariant of the connections, channels, collectors and metrics.
TypeOK ==
  /\ conn \in [Conns -> ConnStates] /\ left \in 0 .. MaxMsgs
  /\ call \in [Conns -> {"none", "abandoned", "over"}]
  /\ db \in [M -> {"open", "closing", "waiting", "closed"}]
  /\ ch \in [M -> Seq(Messages)] /\ chClosed \in [M -> BOOLEAN]
  /\ col \in [M -> {"off", "recv", "own", "parent", "exit"}] /\ held \in [M -> Messages]
  /\ sent \in [M -> Nat] /\ own \in [M -> Nat] /\ up \in [M -> Nat] /\ gauge \in [M -> Int]
  /\ panicked \in BOOLEAN

\* No message is lost or added twice: what was sent on a channel is in the metrics, with the
\* collector or in the channel, and what is in the metrics of a DB is in those of the driver
\* or on its way there.  The channel never holds more than its capacity.
Conservation ==
  \A m \in M :
    /\ sent[m] = own[m] + (IF col[m] = "own" THEN 1 ELSE 0) + Len(ch[m])
    /\ m # Driver => own[m] = up[m] + (IF col[m] = "parent" THEN 1 ELSE 0)
    /\ Len(ch[m]) <= Cap

\* When Close has returned, the metrics of the DB and of the driver account for every message
\* sent: none is left in the channel and the collector has ended.
Drained ==
  \A m \in M : db[m] = "closed" => own[m] = sent[m] /\ (m # Driver => up[m] = sent[m])

Pending(m) == SumFunction(ch[m]) + (IF col[m] = "own" THEN held[m] ELSE 0)
Passing(m) == IF col[m] = "parent" THEN held[m] ELSE 0
Established(cs) == Cardinality({c \in cs : conn[c] \in {"busy", "free", "close"}})

\* stats.go: "The number of current established driver connections."  The gauges of a DB and
\* of the driver, with the messages still under way to them, count the connections that are
\* established on the DB and on all of them; so they are exact once the messages are handled.
GaugeExact ==
  /\ \A d \in DBs : gauge[d] + Pending(d) = Established(Of(d))
  /\ gauge[Driver] + SumFunction([m \in M |-> Pending(m) + Passing(m)]) = Established(Conns)

\* conn.go: "wait for concurrent db calls when closing connections."  So nothing is sent on a
\* channel that Close has closed.
NoSendOnClosed == ~panicked

\* If a DB is closed in an orderly way, only the goroutine of a cancelled call, which has outlived
\* its closed connection, can send on the closed channel: DB.Close closes the channel after the
\* last message of each connection.
OnlyAbandonedSends == panicked => \E c \in Conns : call[c] = "abandoned" /\ conn[c] = "gone"

\* A Close that was called returns, unless the process dies: neither the connections it closes
\* nor the collector it waits for are stuck, however full the channel is.
CloseEnds == \A d \in DBs : db[d] = "closing" ~> (db[d] = "closed" \/ panicked)
============================================================================
