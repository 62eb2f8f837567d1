--------------------------- MODULE MetricsProofs ---------------------------
(***************************************************************************)
(* Theorems about Metrics, for any number of DBs and connections, any      *)
(* capacity of the channels and any number of messages.                    *)
(***************************************************************************)
EXTENDS Metrics, TLAPS

\* The metrics of a connection are the driver's or those of a DB.
LEMMA MetricsOfType == \A c \in Conns : MetricsOf[c] \in M
BY MetricsAssumption DEF MetricsAssumption

-----------------------------------------------------------------------------
(* Type correctness.                                                       *)

\* The initial state is typed.
LEMMA TypeInit == Init => TypeOK
<1> SUFFICES ASSUME Init PROVE TypeOK
  OBVIOUS
<1>1. conn \in [Conns -> ConnStates] /\ db \in [M -> {"open", "closing", "waiting", "closed"}]
  BY DEF Init, ConnStates
<1>2. left \in 0 .. MaxMsgs /\ call \in [Conns -> {"none", "abandoned", "over"}]
  BY MetricsAssumption DEF Init, MetricsAssumption
<1>3. ch \in [M -> Seq(Messages)]
  BY DEF Init
<1>4. chClosed \in [M -> BOOLEAN] /\ panicked \in BOOLEAN
  BY DEF Init
<1>5. col \in [M -> {"off", "recv", "own", "parent", "exit"}] /\ held \in [M -> Messages]
  BY DEF Init, Messages
<1>6. sent \in [M -> Nat] /\ own \in [M -> Nat] /\ up \in [M -> Nat] /\ gauge \in [M -> Int]
  BY DEF Init
<1> QED
  BY <1>1, <1>2, <1>3, <1>4, <1>5, <1>6 DEF TypeOK

\* A send adds one message to the channel or ends the process.
LEMMA SendType ==
  ASSUME TypeOK, NEW m \in M, NEW v \in Messages, Send(m, v)
  PROVE  ch' \in [M -> Seq(Messages)] /\ sent' \in [M -> Nat] /\ panicked' \in BOOLEAN
<1>1. ch' \in [M -> Seq(Messages)]
  BY DEF Send, TypeOK
<1>2. sent' \in [M -> Nat]
  BY DEF Send, TypeOK
<1>3. panicked' \in BOOLEAN
  BY DEF Send, TypeOK
<1> QED
  BY <1>1, <1>2, <1>3

\* Every step keeps the types.
LEMMA TypeStep ==
  ASSUME TypeOK, [Next]_vars
  PROVE  TypeOK'
<1>1. CASE UNCHANGED vars
  BY <1>1 DEF vars, connVars, colVars, TypeOK
<1>2. ASSUME NEW c \in Conns, Connect(c) PROVE TypeOK'
  BY <1>2 DEF Connect, Becomes, TypeOK, ConnStates
<1>3. ASSUME NEW c \in Conns, Report(c) \/ AbandonedReport(c) PROVE TypeOK'
  <2>1. SendOther(c)
    BY <1>3 DEF Report, AbandonedReport
  <2>2. ch' \in [M -> Seq(Messages)] /\ sent' \in [M -> Nat] /\ panicked' \in BOOLEAN
    BY <2>1, SendType, MetricsOfType DEF SendOther, Messages
  <2>3. left' \in 0 .. MaxMsgs
    BY <2>1, MetricsAssumption DEF SendOther, TypeOK, MetricsAssumption
  <2> QED
    BY <2>1, <2>2, <2>3 DEF SendOther, TypeOK, colVars
<1>4. ASSUME NEW c \in Conns, ConnectFail(c) \/ Acquire(c) \/ Release(c) \/ Closed(c) PROVE TypeOK'
  BY <1>4 DEF ConnectFail, Acquire, Release, Closed, Becomes, TypeOK, ConnStates, colVars
<1>10. ASSUME NEW c \in Conns, Cancel(c) \/ AbandonedEnds(c) PROVE TypeOK'
  BY <1>10 DEF Cancel, AbandonedEnds, TypeOK, colVars
<1>5. ASSUME NEW c \in Conns, Connected(c) \/ Close(c) PROVE TypeOK'
  <2>1. ch' \in [M -> Seq(Messages)] /\ sent' \in [M -> Nat] /\ panicked' \in BOOLEAN
    BY <1>5, SendType, MetricsOfType DEF Connected, Close, Messages
  <2> QED
    BY <1>5, <2>1 DEF Connected, Close, Becomes, TypeOK, ConnStates, colVars
<1>6. ASSUME NEW m \in M, Collect(m) PROVE TypeOK'
  <2>1. ch' \in [M -> Seq(Messages)] /\ held' \in [M -> Messages]
    <3>1. CASE ch[m] = <<>>
      BY <1>6, <3>1 DEF Collect, TypeOK
    <3>2. CASE ch[m] # <<>>
      <4>1. ch[m] \in Seq(Messages)
        BY DEF TypeOK
      <4>2. Head(ch[m]) \in Messages /\ Tail(ch[m]) \in Seq(Messages)
        BY <3>2, <4>1
      <4>3. /\ held' = [held EXCEPT ![m] = Head(ch[m])]
            /\ ch' = [ch EXCEPT ![m] = Tail(ch[m])]
        BY <1>6, <3>2 DEF Collect
      <4>4. held' \in [M -> Messages]
        BY <4>2, <4>3 DEF TypeOK
      <4>5. ch' \in [M -> Seq(Messages)]
        BY <4>2, <4>3 DEF TypeOK
      <4> QED
        BY <4>4, <4>5
    <3> QED
      BY <3>1, <3>2
  <2>2. col' \in [M -> {"off", "recv", "own", "parent", "exit"}]
    BY <1>6 DEF Collect, TypeOK
  <2> QED
    BY <1>6, <2>1, <2>2 DEF Collect, TypeOK, connVars
<1>7. ASSUME NEW m \in M, HandleMsg(m) \/ HandleParent(m) PROVE TypeOK'
  <2>1. held[m] \in Int /\ 0 \in Messages
    BY DEF TypeOK, Messages
  <2>2. CASE HandleMsg(m)
    <3>1. own' \in [M -> Nat] /\ up' \in [M -> Nat]
      BY <2>2 DEF HandleMsg, TypeOK
    <3>2. gauge' \in [M -> Int] /\ held' \in [M -> Messages]
      BY <2>1, <2>2 DEF HandleMsg, TypeOK
    <3> QED
      BY <2>2, <3>1, <3>2 DEF HandleMsg, TypeOK, connVars
  <2>3. CASE HandleParent(m)
    <3>1. own' \in [M -> Nat] /\ up' \in [M -> Nat]
      BY <2>3 DEF HandleParent, TypeOK
    <3>2. gauge' \in [M -> Int] /\ held' \in [M -> Messages]
      BY <2>1, <2>3 DEF HandleParent, TypeOK, M
    <3> QED
      BY <2>3, <3>1, <3>2 DEF HandleParent, TypeOK, connVars
  <2> QED
    BY <1>7, <2>2, <2>3
<1>8. ASSUME NEW m \in M, CloseMetrics(m) \/ CloseReturns(m) PROVE TypeOK'
  BY <1>8 DEF CloseMetrics, CloseReturns, TypeOK, connVars, colVars
<1>9. ASSUME NEW d \in DBs, CloseDB(d) PROVE TypeOK'
  BY <1>9 DEF CloseDB, TypeOK, ConnStates, colVars
<1> QED
  BY <1>1, <1>2, <1>3, <1>4, <1>5, <1>6, <1>7, <1>8, <1>9, <1>10 DEF Next, ConnStep, ColStep, CloseStep

\* Type correctness of connections, channels, collectors and metrics.
THEOREM TypeCorrect == Spec => []TypeOK
BY TypeInit, TypeStep, PTL DEF Spec

-----------------------------------------------------------------------------
(* No message is lost or counted twice.                                    *)

\* A collector that was not started has no connection that sends, and a connection not made has
\* no abandoned call; a collector that has ended left an empty, closed channel.  Together with
\* Conservation this gives Drained.
Ended ==
  /\ \A c \in Conns : /\ col[MetricsOf[c]] = "off" => conn[c] = "new"
                      /\ call[c] = "abandoned" => conn[c] # "new"
  /\ \A m \in M : /\ col[m] = "off" => ch[m] = <<>>
                  /\ col[m] = "exit" => ch[m] = <<>> /\ chClosed[m]
                  /\ db[m] \in {"waiting", "closed"} => chClosed[m]
                  /\ db[m] = "closed" => col[m] \in {"off", "exit"}

Kept == TypeOK /\ Conservation

\* Sending keeps the account: one more message sent, one more in the channel.
LEMMA SendKeeps ==
  ASSUME Kept, NEW n \in M, NEW v \in Messages, Send(n, v), UNCHANGED colVars
  PROVE  Conservation'
<1> SUFFICES ASSUME NEW m \in M
             PROVE  /\ sent'[m] = own[m] + (IF col[m] = "own" THEN 1 ELSE 0) + Len(ch'[m])
                    /\ m # Driver => own[m] = up[m] + (IF col[m] = "parent" THEN 1 ELSE 0)
                    /\ Len(ch'[m]) <= Cap
  BY DEF Conservation, colVars
<1>1. /\ sent[m] = own[m] + (IF col[m] = "own" THEN 1 ELSE 0) + Len(ch[m])
      /\ m # Driver => own[m] = up[m] + (IF col[m] = "parent" THEN 1 ELSE 0)
      /\ Len(ch[m]) <= Cap
  BY DEF Kept, Conservation
<1>2. /\ ch[m] \in Seq(Messages) /\ sent[m] \in Nat /\ own[m] \in Nat /\ Len(ch[m]) \in Nat
      /\ Cap \in Nat
  BY MetricsAssumption DEF Kept, TypeOK, MetricsAssumption
<1>3. CASE m = n /\ ~chClosed[n]
  <2>1. ch'[m] = Append(ch[m], v) /\ sent'[m] = sent[m] + 1 /\ Len(ch[m]) < Cap
    <3>1. /\ ch' = [ch EXCEPT ![n] = Append(ch[n], v)] /\ sent' = [sent EXCEPT ![n] = sent[n] + 1]
          /\ Len(ch[n]) < Cap
      BY <1>3 DEF Send
    <3> QED
      BY <1>3, <3>1 DEF Kept, TypeOK
  <2>2. Len(ch'[m]) = Len(ch[m]) + 1
    BY <1>2, <2>1
  <2>3. Len(ch'[m]) <= Cap
    BY <1>2, <2>1, <2>2
  <2>4. sent'[m] = own[m] + (IF col[m] = "own" THEN 1 ELSE 0) + Len(ch'[m])
    <3>1. sent'[m] = sent[m] + 1
      BY <2>1
    <3> DEFINE L == Len(ch[m])
               x == IF col[m] = "own" THEN 1 ELSE 0
    <3>2. sent[m] = own[m] + x + L /\ L \in Nat /\ x \in Nat /\ own[m] \in Nat
      BY <1>1, <1>2
    <3> HIDE DEF L, x
    <3>3. sent[m] + 1 = own[m] + x + (L + 1)
      BY <3>2
    <3> QED
      BY <2>2, <3>1, <3>3 DEF L, x
  <2> QED
    BY <1>1, <2>3, <2>4
<1>4. CASE m # n \/ chClosed[n]
  <2>1. ch'[m] = ch[m] /\ sent'[m] = sent[m]
    BY <1>4 DEF Send, Kept, TypeOK
  <2> QED
    BY <1>1, <2>1
<1> QED
  BY <1>3, <1>4

\* The collector of n keeps the account: a message moves from the channel to its hands, from
\* there into the metrics, and on to the parent.
LEMMA CollectKeeps ==
  ASSUME Kept, NEW n \in M, ColStep(n)
  PROVE  Conservation'
<1> SUFFICES ASSUME NEW m \in M
             PROVE  /\ sent'[m] = own'[m] + (IF col'[m] = "own" THEN 1 ELSE 0) + Len(ch'[m])
                    /\ m # Driver => own'[m] = up'[m] + (IF col'[m] = "parent" THEN 1 ELSE 0)
                    /\ Len(ch'[m]) <= Cap
  BY DEF Conservation
<1>1. /\ sent[m] = own[m] + (IF col[m] = "own" THEN 1 ELSE 0) + Len(ch[m])
      /\ m # Driver => own[m] = up[m] + (IF col[m] = "parent" THEN 1 ELSE 0)
      /\ Len(ch[m]) <= Cap
  BY DEF Kept, Conservation
<1>2. /\ ch[m] \in Seq(Messages) /\ Len(ch[m]) \in Nat
      /\ sent[m] \in Nat /\ own[m] \in Nat /\ up[m] \in Nat /\ Cap \in Nat
  BY MetricsAssumption DEF Kept, TypeOK, MetricsAssumption
<1>3. CASE m # n
  <2>1. /\ sent'[m] = sent[m] /\ own'[m] = own[m] /\ up'[m] = up[m]
        /\ col'[m] = col[m] /\ ch'[m] = ch[m]
    BY <1>3 DEF ColStep, Collect, HandleMsg, HandleParent, Kept, TypeOK
  <2> QED
    BY <1>1, <2>1
<1>4. CASE m = n /\ Collect(n) /\ ch[n] # <<>>
  <2>1. /\ sent'[m] = sent[m] /\ own'[m] = own[m] /\ up'[m] = up[m]
        /\ col[m] = "recv" /\ col'[m] = "own" /\ ch'[m] = Tail(ch[m])
    BY <1>4 DEF Collect, Kept, TypeOK
  <2>2. Len(ch'[m]) = Len(ch[m]) - 1
    BY <1>2, <1>4, <2>1
  <2> QED
    BY <1>1, <1>2, <2>1, <2>2
<1>5. CASE m = n /\ Collect(n) /\ ch[n] = <<>>
  <2>1. /\ sent'[m] = sent[m] /\ own'[m] = own[m] /\ up'[m] = up[m]
        /\ col[m] = "recv" /\ col'[m] = "exit" /\ ch'[m] = ch[m]
    BY <1>5 DEF Collect, Kept, TypeOK
  <2> QED
    BY <1>1, <1>2, <2>1
<1>6. CASE m = n /\ HandleMsg(n)
  <2>1. /\ sent'[m] = sent[m] /\ own'[m] = own[m] + 1 /\ up'[m] = up[m] /\ ch'[m] = ch[m]
        /\ col[m] = "own" /\ col'[m] = IF m = Driver THEN "recv" ELSE "parent"
    BY <1>6 DEF HandleMsg, Kept, TypeOK
  <2> QED
    BY <1>1, <1>2, <2>1
<1>7. CASE m = n /\ HandleParent(n)
  <2>1. /\ sent'[m] = sent[m] /\ own'[m] = own[m] /\ up'[m] = up[m] + 1 /\ ch'[m] = ch[m]
        /\ col[m] = "parent" /\ col'[m] = "recv"
    BY <1>7 DEF HandleParent, Kept, TypeOK
  <2> QED
    BY <1>1, <1>2, <2>1
<1> QED
  BY <1>3, <1>4, <1>5, <1>6, <1>7 DEF ColStep

\* The other steps neither send nor handle a message.
LEMMA Conserved ==
  ASSUME Kept, [Next]_vars
  PROVE  Conservation'
<1>1. CASE UNCHANGED <<ch, sent, own, up, col>>
  BY <1>1 DEF Kept, Conservation
<1>2. ASSUME NEW c \in Conns, Connect(c) PROVE Conservation'
  <2>1. /\ \A m \in M : \/ col'[m] = col[m]
                        \/ col[m] = "off" /\ col'[m] = "recv"
        /\ UNCHANGED <<ch, sent, own, up>>
    BY <1>2, MetricsOfType DEF Connect, Kept, TypeOK
  <2> QED
    BY <2>1 DEF Kept, Conservation
<1>3. ASSUME NEW c \in Conns, SendOther(c) \/ Connected(c) \/ Close(c) PROVE Conservation'
  BY <1>3, SendKeeps, MetricsOfType DEF SendOther, Connected, Close, Messages
<1>4. ASSUME NEW c \in Conns, \/ ConnectFail(c) \/ Acquire(c) \/ Release(c) \/ Closed(c)
                             \/ Cancel(c) \/ AbandonedEnds(c)
      PROVE  UNCHANGED <<ch, sent, own, up, col>>
  BY <1>4 DEF ConnectFail, Acquire, Release, Closed, Cancel, AbandonedEnds, colVars
<1>5. ASSUME NEW m \in M, CloseStep(m) PROVE UNCHANGED <<ch, sent, own, up, col>>
  BY <1>5 DEF CloseStep, CloseMetrics, CloseReturns, colVars
<1>6. ASSUME NEW d \in DBs, CloseDB(d) PROVE UNCHANGED <<ch, sent, own, up, col>>
  BY <1>6 DEF CloseDB, colVars
<1>7. CASE UNCHANGED vars
  BY <1>1, <1>7 DEF vars, colVars
<1> QED
  BY <1>1, <1>2, <1>3, <1>4, <1>5, <1>6, <1>7, CollectKeeps DEF Next, ConnStep, Report, AbandonedReport

\* Every step preserves Ended.
LEMMA EndedStep ==
  ASSUME TypeOK, Ended, [Next]_vars
  PROVE  Ended'
<1>1. CASE UNCHANGED vars
  BY <1>1 DEF vars, connVars, colVars, Ended
<1>2. ASSUME NEW c \in Conns, Connect(c) PROVE Ended'
  BY <1>2, MetricsOfType DEF Connect, Becomes, TypeOK, Ended
<1>3. ASSUME NEW c \in Conns, Report(c) \/ AbandonedReport(c) \/ Connected(c) \/ Close(c)
      PROVE  Ended'
  <2> DEFINE n == MetricsOf[c]
  <2>1. n \in M /\ col[n] # "off" /\ UNCHANGED <<call, col, db, chClosed>>
    BY <1>3, MetricsOfType
       DEF Report, AbandonedReport, SendOther, Connected, Close, colVars, Ended
  <2>2. \A m \in M : ch'[m] = ch[m] \/ (m = n /\ ~chClosed[n])
    BY <1>3, <2>1 DEF Report, AbandonedReport, SendOther, Connected, Close, Send, TypeOK
  <2>3. \A b \in Conns : conn'[b] = conn[b] \/ (b = c /\ conn'[b] # "new")
    BY <1>3 DEF Report, AbandonedReport, SendOther, Connected, Close, Becomes, TypeOK
  <2> QED
    BY <2>1, <2>2, <2>3 DEF Ended
<1>4. ASSUME NEW c \in Conns, ConnectFail(c) \/ Acquire(c) \/ Release(c) \/ Closed(c) PROVE Ended'
  <2>1. col[MetricsOf[c]] # "off" /\ UNCHANGED <<call, col, db, ch, chClosed>>
    BY <1>4 DEF ConnectFail, Acquire, Release, Closed, colVars, Ended
  <2>2. \A b \in Conns : conn'[b] = conn[b] \/ (b = c /\ conn'[b] # "new")
    BY <1>4 DEF ConnectFail, Acquire, Release, Closed, Becomes, TypeOK
  <2> QED
    BY <2>1, <2>2 DEF Ended
<1>8. ASSUME NEW c \in Conns, Cancel(c) \/ AbandonedEnds(c) PROVE Ended'
  <2>1. conn[c] # "new" /\ UNCHANGED <<conn, col, db, ch, chClosed>>
    BY <1>8 DEF Cancel, AbandonedEnds, colVars, Ended
  <2>2. \A b \in Conns : call'[b] = call[b] \/ b = c
    BY <1>8 DEF Cancel, AbandonedEnds, TypeOK
  <2> QED
    BY <2>1, <2>2 DEF Ended
<1>5. ASSUME NEW m \in M, ColStep(m) PROVE Ended'
  <2>1. /\ UNCHANGED <<conn, call, db, chClosed>> /\ col[m] \notin {"off", "exit"} /\ col'[m] # "off"
        /\ \A k \in M : k # m => col'[k] = col[k] /\ ch'[k] = ch[k]
        /\ col'[m] = "exit" => ch'[m] = <<>> /\ chClosed[m]
    BY <1>5 DEF ColStep, Collect, HandleMsg, HandleParent, connVars, TypeOK
  <2> QED
    BY <2>1, MetricsOfType DEF Ended
<1>6. ASSUME NEW m \in M, CloseStep(m) PROVE Ended'
  <2>1. UNCHANGED <<conn, call, col, ch>>
    BY <1>6 DEF CloseStep, CloseMetrics, CloseReturns, connVars, colVars
  <2>2. \A k \in M : k # m => db'[k] = db[k] /\ chClosed'[k] = chClosed[k]
    BY <1>6 DEF CloseStep, CloseMetrics, CloseReturns, TypeOK
  <2>3. \/ db'[m] = "waiting" /\ chClosed'[m]
        \/ /\ db[m] = "waiting" /\ db'[m] = "closed" /\ chClosed'[m] = chClosed[m]
           /\ col[m] \in {"off", "exit"}
    BY <1>6 DEF CloseStep, CloseMetrics, CloseReturns, TypeOK
  <2>4. \A c \in Conns : /\ col'[MetricsOf[c]] = "off" => conn'[c] = "new"
                        /\ call'[c] = "abandoned" => conn'[c] # "new"
    BY <2>1 DEF Ended
  <2> QED
    BY <2>1, <2>2, <2>3, <2>4 DEF Ended
<1>7. ASSUME NEW d \in DBs, CloseDB(d) PROVE Ended'
  <2>1. UNCHANGED <<call, col, ch, chClosed>>
    BY <1>7 DEF CloseDB, colVars
  <2>2. \A c \in Conns : conn[c] = "new" <=> conn'[c] = "new"
    BY <1>7 DEF CloseDB, TypeOK
  <2>3. \A m \in M : db'[m] = db[m] \/ db'[m] = "closing"
    BY <1>7 DEF CloseDB, TypeOK
  <2> QED
    BY <2>1, <2>2, <2>3 DEF Ended
<1> QED
  BY <1>1, <1>2, <1>3, <1>4, <1>5, <1>6, <1>7, <1>8 DEF Next, ConnStep

\* The initial state is conserved and nothing has ended.
LEMMA KeptInit == Init => Kept /\ Ended
<1> SUFFICES ASSUME Init PROVE Kept /\ Ended
  OBVIOUS
<1>1. TypeOK
  BY TypeInit
<1>2. Conservation
  BY MetricsAssumption DEF Init, Conservation, MetricsAssumption
<1>3. Ended
  BY DEF Init, Ended
<1> QED
  BY <1>1, <1>2, <1>3 DEF Kept

\* What follows for a metrics whose Close has returned.
LEMMA KeptDrained == Kept /\ Ended => Drained
<1> SUFFICES ASSUME Kept, Ended, NEW m \in M, db[m] = "closed"
             PROVE  own[m] = sent[m] /\ (m # Driver => up[m] = sent[m])
  BY DEF Drained
<1>1. ch[m] = <<>> /\ col[m] \notin {"own", "parent"}
  BY DEF Ended
<1>2. own[m] \in Nat /\ up[m] \in Nat /\ sent[m] \in Nat
  BY DEF Kept, TypeOK
<1> QED
  BY <1>1, <1>2 DEF Kept, Conservation

\* Whatever connections, collectors and Close do, and in whatever order: no message is lost,
\* none is added twice to the metrics of a DB or of the driver, and the channel keeps to its
\* capacity.
THEOREM MessagesConserved == Spec => []Conservation
<1>1. Init => Kept
  BY KeptInit
<1>2. Kept /\ [Next]_vars => Kept'
  BY TypeStep, Conserved DEF Kept
<1> QED
  BY <1>1, <1>2, PTL DEF Spec, Kept

\* metrics.close returns only after every message sent is in the metrics of the DB and of the
\* driver, also if connections are still in use.
THEOREM CloseDrains == Spec => []Drained
<1>1. Init => Kept /\ Ended
  BY KeptInit
<1>2. Kept /\ Ended /\ [Next]_vars => (Kept /\ Ended)'
  BY TypeStep, Conserved, EndedStep DEF Kept
<1>3. Kept /\ Ended => Drained
  BY KeptDrained
<1> QED
  BY <1>1, <1>2, <1>3, PTL DEF Spec

-----------------------------------------------------------------------------
(* Who can send on a closed channel.                                       *)

\* Once Close was called, the DB has no connection in use, only the ones being closed; once
\* its channel is closed these are gone too.
Quiet ==
  \A c \in Conns :
    /\ db[MetricsOf[c]] # "open" => conn[c] \in {"new", "close", "disconnect", "gone"}
    /\ chClosed[MetricsOf[c]] => db[MetricsOf[c]] # "open" /\ conn[c] \in {"new", "gone"}

\* Every step of an orderly application preserves Quiet.
LEMMA QuietStep ==
  ASSUME Orderly, TypeOK, Quiet, [Next]_vars
  PROVE  Quiet'
<1>1. CASE UNCHANGED <<conn, db, chClosed>>
  BY <1>1 DEF Quiet
<1>2. ASSUME NEW c \in Conns, Connect(c) \/ ConnectFail(c) \/ Acquire(c) \/ Release(c) \/ Closed(c)
      PROVE  Quiet'
  <2>1. UNCHANGED <<db, chClosed>>
    BY <1>2 DEF Connect, ConnectFail, Acquire, Release, Closed
  <2>2. \A b \in Conns : b # c => conn'[b] = conn[b]
    BY <1>2 DEF Connect, ConnectFail, Acquire, Release, Closed, Becomes, TypeOK
  <2>3. \/ db[MetricsOf[c]] = "open"
        \/ conn'[c] \in {"close", "gone"} /\ conn[c] \in {"dial", "busy", "disconnect"}
    BY <1>2 DEF Connect, ConnectFail, Acquire, Release, Closed, Becomes, TypeOK
  <2> QED
    BY <2>1, <2>2, <2>3 DEF Quiet
<1>3. ASSUME NEW c \in Conns, Connected(c) \/ Close(c) PROVE Quiet'
  <2>1. conn[c] \in {"dial", "close"} /\ UNCHANGED <<db, chClosed>>
    BY <1>3 DEF Connected, Close
  <2>2. \A b \in Conns : b # c => conn'[b] = conn[b]
    BY <1>3 DEF Connected, Close, Becomes, TypeOK
  <2>3. conn[c] = "dial" \/ conn'[c] = "disconnect"
    BY <1>3 DEF Connected, Close, Becomes, TypeOK
  <2> QED
    BY <2>1, <2>2, <2>3 DEF Quiet
<1>4. ASSUME NEW c \in Conns, Report(c) \/ AbandonedReport(c) \/ Cancel(c) \/ AbandonedEnds(c)
      PROVE  UNCHANGED <<conn, db, chClosed>>
  BY <1>4 DEF Report, AbandonedReport, SendOther, Cancel, AbandonedEnds
<1>5. ASSUME NEW m \in M, ColStep(m) PROVE UNCHANGED <<conn, db, chClosed>>
  BY <1>5 DEF ColStep, Collect, HandleMsg, HandleParent, connVars
<1>6. ASSUME NEW m \in M, CloseMetrics(m) PROVE Quiet'
  <2>1. UNCHANGED conn
    BY <1>6 DEF CloseMetrics, connVars
  <2>2. \A c \in Of(m) : conn[c] \in {"new", "gone"}
    BY <1>6 DEF CloseMetrics, Quiet, Of
  <2>3. \A k \in M : \/ k = m /\ db'[k] = "waiting"
                     \/ k # m /\ db'[k] = db[k] /\ chClosed'[k] = chClosed[k]
    BY <1>6 DEF CloseMetrics, TypeOK
  <2> QED
    BY <2>1, <2>2, <2>3, MetricsOfType DEF Quiet, Of
<1>7. ASSUME NEW m \in M, CloseReturns(m) PROVE Quiet'
  <2>1. UNCHANGED <<conn, chClosed>>
    BY <1>7 DEF CloseReturns, connVars
  <2>2. \A k \in M : db'[k] = db[k] \/ (db[k] # "open" /\ db'[k] # "open")
    BY <1>7 DEF CloseReturns, TypeOK
  <2> QED
    BY <2>1, <2>2, MetricsOfType DEF Quiet
<1>8. ASSUME NEW d \in DBs, CloseDB(d) PROVE Quiet'
  <2>1. UNCHANGED chClosed /\ db[d] = "open"
    BY <1>8 DEF CloseDB
  <2>2. \A k \in M : db'[k] = IF k = d THEN "closing" ELSE db[k]
    BY <1>8 DEF CloseDB, TypeOK
  <2>3. \A c \in Conns : MetricsOf[c] # d => conn'[c] = conn[c]
    BY <1>8 DEF CloseDB, Of
  <2>4. \A c \in Conns : MetricsOf[c] = d => conn'[c] \in {"new", "close", "gone"}
    BY <1>8 DEF CloseDB, Of, TypeOK, ConnStates
  <2> QED
    BY <2>1, <2>2, <2>3, <2>4, MetricsOfType DEF Quiet
<1>9. CASE UNCHANGED vars
  BY <1>1, <1>9 DEF vars, connVars
<1> QED
  BY <1>1, <1>2, <1>3, <1>4, <1>5, <1>6, <1>7, <1>8, <1>9 DEF Next, ConnStep, CloseStep

\* A step that panics is a send of an abandoned call whose connection is gone: all the other
\* senders have a connection that, by Quiet, keeps the channel open.
LEMMA PanicStep ==
  ASSUME TypeOK, Ended, Quiet, OnlyAbandonedSends, [Next]_vars
  PROVE  OnlyAbandonedSends'
<1>1. CASE UNCHANGED vars
  BY <1>1 DEF vars, connVars, OnlyAbandonedSends
<1>2. CASE Next
  <2>1. ~panicked
    BY <1>2 DEF Next
  <2>2. CASE UNCHANGED panicked
    BY <2>1, <2>2 DEF OnlyAbandonedSends
  <2>3. ASSUME NEW c \in Conns, Report(c) \/ Connected(c) \/ Close(c) PROVE ~panicked'
    <3>1. ~chClosed[MetricsOf[c]]
      BY <2>3 DEF Report, Connected, Close, Quiet
    <3> QED
      BY <2>3, <3>1 DEF Report, SendOther, Connected, Close, Send
  <2>4. ASSUME NEW c \in Conns, AbandonedReport(c), panicked'
        PROVE  call'[c] = "abandoned" /\ conn'[c] = "gone"
    <3>1. chClosed[MetricsOf[c]] /\ call[c] = "abandoned" /\ UNCHANGED <<conn, call>>
      BY <2>4 DEF AbandonedReport, SendOther, Send
    <3> QED
      BY <3>1 DEF Ended, Quiet
  <2>5. ASSUME NEW c \in Conns, \/ Connect(c) \/ ConnectFail(c) \/ Acquire(c) \/ Release(c)
                               \/ Closed(c) \/ Cancel(c) \/ AbandonedEnds(c)
        PROVE  UNCHANGED panicked
    BY <2>5 DEF Connect, ConnectFail, Acquire, Release, Closed, Cancel, AbandonedEnds
  <2>6. ASSUME NEW m \in M, ColStep(m) \/ CloseStep(m) PROVE UNCHANGED panicked
    BY <2>6 DEF ColStep, Collect, HandleMsg, HandleParent, CloseStep, CloseMetrics, CloseReturns
  <2>7. ASSUME NEW d \in DBs, CloseDB(d) PROVE UNCHANGED panicked
    BY <2>7 DEF CloseDB
  <2> QED
    BY <1>2, <2>2, <2>3, <2>4, <2>5, <2>6, <2>7 DEF Next, ConnStep, OnlyAbandonedSends
<1> QED
  BY <1>1, <1>2

\* If the application uses no connection of a DB any more when it closes it, the connections that
\* DB.Close closes send their last messages before it closes the channel.  What is left is the
\* goroutine of a cancelled call, for which neither conn.Close nor DB.Close waits.
THEOREM OnlyAbandonedPanic == Orderly => (Spec => []OnlyAbandonedSends)
<1> SUFFICES ASSUME Orderly PROVE Spec => []OnlyAbandonedSends
  OBVIOUS
<1> DEFINE IInv == TypeOK /\ Ended /\ Quiet /\ OnlyAbandonedSends
<1>1. Init => IInv
  <2>1. Init => Quiet /\ OnlyAbandonedSends
    BY MetricsOfType DEF Init, Quiet, OnlyAbandonedSends
  <2> QED
    BY <2>1, TypeInit, KeptInit
<1>2. IInv /\ [Next]_vars => IInv'
  BY TypeStep, EndedStep, QuietStep, PanicStep
<1>3. IInv => OnlyAbandonedSends
  OBVIOUS
<1> QED
  BY <1>1, <1>2, <1>3, PTL DEF Spec
============================================================================
