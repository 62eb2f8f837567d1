----------------------------- MODULE CallProofs -----------------------------
(***************************************************************************)
(* What the calls of database/sql and the goroutines of the driver do to   *)
(* a connection, step by step: the invariant of the calls, which the       *)
(* proofs about transactions rest on.                                      *)
(***************************************************************************)
EXTENDS SessionProofs

-----------------------------------------------------------------------------
(* Calls and transactions.                                                 *)

\* The requests of a call.
RequestsOf(k) ==
  {FirstRequest(k)} \cup (IF k \in Switching THEN {"connect", "setSchema"} ELSE {})
    \cup (IF k = "BeginTx" THEN {"accessMode"} ELSE {})

\* A call sends requests of its kind; it belongs to a transaction opened before it; the commit of
\* a transaction is recorded, and a transaction is ended by the call in progress only.
Sane(w) ==
  /\ w > n => op[w] = Idle
  /\ op[w].kind = "none" => w > n
  /\ op[w].tx < w
  /\ op[w].pc = "switch" => op[w].kind \in Switching
  /\ op[w].pc \in {"load", "write", "read"} => op[w].req \in RequestsOf(op[w].kind)
  /\ op[w].pc = "load" => op[w].req \in AutoCommit
  /\ op[w].commit => op[w].req \in AutoCommit
  /\ op[w].res # "none" => op[w].pc = "done"
  /\ op[w].kind = "Commit" => op[w].tx \in committed
  /\ op[w].kind \in Ending => op[w].tx # 0 /\ (op[w].tx = sqlTx => w = cur)

\* The stream and the server know only calls that were made.
Known ==
  /\ \A i \in DOMAIN reqQ : reqQ[i].op <= n
  /\ \A w \in pend \cup durable : w <= n
  /\ \A w \in Ops : ranAs[w] # {} => w <= n
  /\ reqQ # <<>> => up

\* database/sql is in the last call it made, on a connection it holds or to close a statement; a
\* connection in the pool is in no transaction.
Caller ==
  /\ cur # 0 => /\ cur = n /\ Now.tx = sqlTx /\ Now.pc # "idle"
                /\ hold = "held" \/ (Now.kind = "StmtClose" /\ hold # "closed")
  /\ hold = "pool" => sqlTx = 0 /\ ~cancelled
  /\ \A t \in committed : t <= n /\ t # cur
  /\ sqlTx # 0 /\ sqlTx \in committed => cur # 0 /\ Now.kind = "Commit"

\* The inductive invariant of the calls.
CallsInv == (\A w \in Ops : Sane(w)) /\ Known /\ Caller

\* database/sql takes the result of a call.
Returned ==
  /\ cur # 0 /\ Now.pc = "done" /\ cur' = 0
  /\ sqlTx' = IF Now.kind = "BeginTx" /\ Now.res = "ok" THEN cur
              ELSE IF Now.kind \in Ending THEN 0 ELSE sqlTx
  /\ stmts' = IF Now.kind = "PrepareContext" /\ Now.res = "ok" THEN stmts \cup {cur} ELSE stmts
  /\ hold' = hold \/ hold' = "drop"
  /\ Now.res = "bad" /\ sqlTx' = 0 /\ Now.kind \notin {"StmtClose", "Next"} => hold' = "drop"
  /\ UNCHANGED <<n, committed, op, orphans, sessVars, netVars, srvVars, gauges, swapped>>

\* Return takes the result of the call in progress.
LEMMA ReturnTakes ==
  ASSUME Return
  PROVE  Returned
<1>1. sqlTx' = CASE Now.kind = "BeginTx" /\ Now.res = "ok" -> cur
                 [] Now.kind \in {"Commit", "Rollback"}    -> 0
                 [] OTHER                                  -> sqlTx
  BY DEF Return, Now
<1>2. sqlTx' = IF Now.kind = "BeginTx" /\ Now.res = "ok" THEN cur
               ELSE IF Now.kind \in Ending THEN 0 ELSE sqlTx
  BY <1>1 DEF Ending
<1>3. hold' = IF \/ Now.kind = "ResetSession" /\ Now.res # "ok"
                 \/ Now.res = "bad" /\ sqlTx' = 0 /\ Now.kind \notin {"StmtClose", "Next"}
              THEN "drop" ELSE hold
  BY <1>1 DEF Return, Now
<1>4. stmts' = IF Now.kind = "PrepareContext" /\ Now.res = "ok" THEN stmts \cup {cur} ELSE stmts
  BY DEF Return, Now
<1> QED
  BY <1>2, <1>3, <1>4 DEF Return, Returned, Now

\* A step that is none of the calls, results, goroutine steps and server steps.
Others == Reuse \/ Release \/ Close \/ Cancel

\* Every step is a call, a result, a step of a goroutine, one of the server or another one.
LEMMA NextMoves ==
  ASSUME TypeOK, Next
  PROVE  \/ Made \/ Returned \/ Others
         \/ \E w \in Ops : Switched(w) \/ Loaded(w) \/ Written(w) \/ Unwritten(w) \/ Answered(w)
                             \/ Unread(w)
         \/ \E ok \in BOOLEAN, a \in Attrs : Serve(ok, a)
         \/ SessionEnd
<1>1. CASE Calling
  BY <1>1, CallingMakes
<1>2. CASE \E w \in Ops : Step(w)
  BY <1>2, StepMoves
<1>3. CASE Return
  BY <1>3, ReturnTakes
<1> QED
  BY <1>1, <1>2, <1>3 DEF Next, Calling, Others

\* A message is one of a call, or the disconnect request.
LEMMA MessageFields ==
  ASSUME NEW m \in RequestType
  PROVE  /\ m.op \in Ops \cup {0} /\ m.commit \in BOOLEAN
         /\ m.op = 0 <=> m.req = "MtDisconnect"
         /\ m.op = 0 => m.commit = FALSE
         /\ m.op \in Ops => m.req \in Requests \cup {"garbage"}
<1>1. CASE m \in [op : Ops, req : Requests \cup {"garbage"}, commit : BOOLEAN, schema : Schemas]
  <2>1. m.op \in Ops /\ m.req \in Requests \cup {"garbage"} /\ m.commit \in BOOLEAN
    BY <1>1
  <2>2. m.op # 0 /\ m.req # "MtDisconnect"
    BY <2>1 DEF Ops, Requests, AutoCommit
  <2> QED
    BY <2>1, <2>2
<1>2. CASE m \in [op : {0}, req : {"MtDisconnect"}, commit : {FALSE}, schema : {NoSchema}]
  <2>1. m.op = 0 /\ m.req = "MtDisconnect" /\ m.commit = FALSE
    BY Zenon, <1>2
  <2>2. m.op \notin Ops
    BY <2>1, BoundsAssumption DEF Ops, BoundsAssumption
  <2>3. m.commit \in BOOLEAN
    BY <2>1, Zenon
  <2> QED
    BY <2>1, <2>2, <2>3
<1> QED
  BY Zenon, <1>1, <1>2 DEF RequestType

\* The queue of requests is a sequence of messages of calls.
LEMMA Messages ==
  ASSUME TypeOK
  PROVE  /\ DOMAIN reqQ = 1 .. Len(reqQ) /\ Len(reqQ) \in Nat
         /\ \A i \in DOMAIN reqQ : reqQ[i] \in RequestType /\ reqQ[i].op \in Ops \cup {0}
<1>1. reqQ \in Seq(RequestType)
  BY DEF TypeOK
<1>2. ASSUME NEW i \in DOMAIN reqQ PROVE reqQ[i] \in RequestType
  BY <1>1
<1>3. DOMAIN reqQ = 1 .. Len(reqQ) /\ Len(reqQ) \in Nat
  BY <1>1
<1> QED
  BY Zenon, <1>2, <1>3, MessageFields

\* A new call is sane, and it is the one in progress.
LEMMA CallsMade ==
  ASSUME TypeOK, CallsInv, Made
  PROVE  CallsInv'
<1> USE DEF CallsInv
<1>1. /\ cur = 0 /\ n' = n + 1 /\ cur' = n + 1 /\ n + 1 \in Ops /\ n \in Nat
      /\ op' = [op EXCEPT ![n + 1] = Now'] /\ Fresh(Now')
      /\ UNCHANGED <<sqlTx, cancelled, netVars, srvVars>>
      /\ op \in [Ops -> OpType] /\ sqlTx \in 0 .. n
  BY DEF Made, TypeOK
<1>2. committed \subseteq committed' /\ committed' \subseteq committed \cup {sqlTx}
      /\ (sqlTx # 0 /\ sqlTx \in committed' => sqlTx \in committed \/ Now'.kind = "Commit")
      /\ (Now'.kind = "Commit" => sqlTx \in committed') /\ (Now'.kind \in Ending => sqlTx # 0)
  BY Zenon DEF Made, Ending
<1>3. ASSUME NEW w \in Ops, w # n + 1 PROVE Sane(w)'
  <2>1. op'[w] = op[w]
    BY <1>1, <1>3
  <2>2. Sane(w) /\ (op[w].kind \in Ending => op[w].tx # sqlTx)
    BY <1>1, <1>3 DEF Sane, Ops
  <2>3. (w > n + 1 => w > n) /\ (w > n => w > n + 1)
    BY <1>1, <1>3 DEF Ops
  <2> QED
    BY <1>1, <1>2, <2>1, <2>2, <2>3 DEF Sane
<1>4. ASSUME NEW w \in Ops, w = n + 1 PROVE Sane(w)'
  <2>1. Now' = op'[w]
    BY <1>1, <1>4 DEF Now
  <2>2. Now'.tx = sqlTx /\ Now'.commit = FALSE /\ Now'.kind # "none"
    BY <1>1 DEF Fresh
  <2>3. Now'.pc = "switch" => Now'.kind \in Switching
    BY <1>1 DEF Fresh, Before
  <2>4. Now'.pc \in {"load", "write", "read"} => Now'.req \in RequestsOf(Now'.kind)
    BY <1>1 DEF Fresh, Before, RequestsOf
  <2>5. (Now'.pc = "load" => Now'.req \in AutoCommit) /\ (Now'.res # "none" => Now'.pc = "done")
    BY <1>1 DEF Fresh, Before
  <2> QED
    BY <1>1, <1>2, <1>4, <2>1, <2>2, <2>3, <2>4, <2>5 DEF Sane
<1>5. Known'
  <2>1. \A i \in DOMAIN reqQ : reqQ[i].op <= n + 1
    BY <1>1, Messages DEF Known, Ops
  <2>2. \A w \in pend \cup durable : w <= n + 1
    BY <1>1 DEF Known, TypeOK, Ops
  <2>3. \A w \in Ops : ranAs[w] # {} => w <= n + 1
    BY <1>1 DEF Known, Ops
  <2> QED
    BY <1>1, <2>1, <2>2, <2>3 DEF Known, netVars, srvVars
<1>6. Caller'
  <2>1. Now'.tx = sqlTx /\ Now'.pc # "idle"
    BY <1>1 DEF Fresh, Before
  <2>2. hold' = "held" \/ (Now'.kind = "StmtClose" /\ hold' # "closed")
    BY DEF Made
  <2>3. hold' = "pool" => hold = "pool"
    BY DEF Made
  <2>4. \A t \in committed' : t <= n' /\ t # cur'
    BY <1>1, <1>2 DEF Caller, TypeOK, Ops
  <2> QED
    BY <1>1, <1>2, <2>1, <2>2, <2>3, <2>4 DEF Caller
<1> QED
  BY <1>1, <1>3, <1>4, <1>5, <1>6

\* Taking a result ends or opens the transaction in use.
LEMMA CallsReturned ==
  ASSUME TypeOK, CallsInv, Returned
  PROVE  CallsInv'
<1> USE DEF CallsInv
<1>1. /\ cur # 0 /\ cur = n /\ cur' = 0 /\ n \in Nat /\ Now.pc = "done" /\ cur \in Ops
      /\ UNCHANGED <<n, committed, op, cancelled, netVars, srvVars>>
      /\ sqlTx' = IF Now.kind = "BeginTx" /\ Now.res = "ok" THEN cur
                  ELSE IF Now.kind \in Ending THEN 0 ELSE sqlTx
      /\ hold' = hold \/ hold' = "drop"
  BY BoundsAssumption DEF Returned, Caller, TypeOK, sessVars, Ops, BoundsAssumption
<1>2. ASSUME NEW w \in Ops PROVE Sane(w)'
  <2>1. ASSUME op[w].kind \in Ending PROVE op[w].tx # sqlTx'
    <3>1. Sane(w) /\ op[w].tx # 0 /\ (op[w].tx = sqlTx => w = cur)
      BY <2>1 DEF Sane
    <3>2. op[w].tx # cur
      <4>1. w <= n
        BY <2>1, <3>1, <1>1 DEF Sane, Idle, Ending, Ops
      <4>2. op[w].tx < w /\ op[w].tx \in Ops \cup {0}
        BY <3>1 DEF Sane, TypeOK, OpType, OpRecord
      <4> QED
        BY <1>1, <4>1, <4>2 DEF Ops
    <3> QED
      BY <1>1, <2>1, <3>1, <3>2 DEF Now
  <2>2. Sane(w)
    OBVIOUS
  <2> QED
    BY <1>1, <2>1, <2>2 DEF Sane
<1>3. Known'
  BY Zenon, <1>1 DEF Known, netVars, srvVars
<1>4. Caller'
  <2>1. hold' = "pool" => sqlTx' = 0
    <3>1. hold = "pool" => Now.kind = "StmtClose" /\ sqlTx = 0
      BY <1>1 DEF Caller
    <3> QED
      BY <1>1, <3>1 DEF Ending
  <2>2. \A t \in committed' : t <= n' /\ t # cur'
    BY <1>1 DEF Caller, TypeOK, Ops
  <2>3. sqlTx' # 0 => sqlTx' \notin committed'
    BY <1>1, <2>2 DEF Caller, Ending
  <2> QED
    BY <1>1, <2>1, <2>2, <2>3 DEF Caller
<1> QED
  BY <1>2, <1>3, <1>4

\* The pool, the end of the connection and a cancelled context change no call.
LEMMA CallsOthers ==
  ASSUME TypeOK, CallsInv, Others
  PROVE  CallsInv'
<1> USE DEF CallsInv
<1>1. UNCHANGED <<n, sqlTx, committed, op, up, srvVars>>
  BY DEF Others, Reuse, Release, Close, Cancel, netVars
<1>2. cur' = cur \/ (cur' = 0 /\ Cancel)
  BY DEF Others, Reuse, Release, Close, Cancel
<1>3. ASSUME NEW w \in Ops PROVE Sane(w)'
  <2>1. op[w].kind \in Ending /\ op[w].tx = sqlTx => w = cur'
    <3>1. CASE Cancel
      BY <3>1 DEF Cancel, Sane, Spawned, Ending
    <3> QED
      BY <1>2, <3>1 DEF Sane
  <2> QED
    BY <1>1, <2>1 DEF Sane
<1>4. Known'
  <2>1. CASE reqQ' = reqQ
    BY <1>1, <2>1 DEF Known, srvVars
  <2>2. CASE Close /\ reqQ' # reqQ
    <3> DEFINE m == [op |-> 0, req |-> "MtDisconnect", commit |-> FALSE, schema |-> NoSchema]
    <3>1. reqQ' = Append(reqQ, m) /\ m.op = 0 /\ reqQ \in Seq(RequestType) /\ n \in Nat /\ up
      BY <2>2 DEF Close, TypeOK
    <3> HIDE DEF m
    <3>2. \A i \in DOMAIN reqQ' : reqQ'[i].op <= n
      BY <3>1 DEF Known
    <3> QED
      BY <1>1, <3>1, <3>2 DEF Known, srvVars
  <2> QED
    BY <2>1, <2>2 DEF Others, Reuse, Release, Cancel, netVars
<1>5. Caller'
  <2>1. CASE Reuse \/ Release \/ Close
    <3>1. cur = 0 /\ cur' = 0 /\ cancelled' = cancelled
      BY <2>1 DEF Reuse, Release, Close, sessVars
    <3>2. hold' = "pool" => sqlTx = 0 /\ ~cancelled
      BY <2>1 DEF Reuse, Release, Close, isBad
    <3> QED
      BY <1>1, <3>1, <3>2 DEF Caller, Now
  <2>2. CASE Cancel
    <3>1. hold # "pool" /\ hold' = hold /\ cur' = 0 /\ cur # 0
      BY <2>2 DEF Cancel, Caller, Spawned, Now
    <3>2. sqlTx # 0 => sqlTx \notin committed
      BY <2>2 DEF Cancel, Caller, Spawned, Now
    <3>3. \A t \in committed : t <= n /\ t # 0
      BY DEF Caller, TypeOK, Ops
    <3> QED
      BY <1>1, <3>1, <3>2, <3>3 DEF Caller
  <2> QED
    BY <2>1, <2>2 DEF Others
<1> QED
  BY <1>3, <1>4, <1>5

\* A goroutine goes on with requests of its call.
LEMMA NextRequestOf ==
  ASSUME NEW o \in OpType, o.req \in RequestsOf(o.kind), NextRequest(o) # "none"
  PROVE  NextRequest(o) \in RequestsOf(o.kind)
<1>1. o.req \in {"connect", "setSchema"} => o.kind \in Switching
  BY DEF RequestsOf, FirstRequest
<1>2. o.req = "isolation" => o.kind = "BeginTx"
  BY DEF RequestsOf, FirstRequest
<1>3. o.req = "statement" => FirstRequest(o.kind) = "statement"
  BY DEF RequestsOf
<1> QED
  BY <1>1, <1>2, <1>3 DEF NextRequest, RequestsOf

\* The steps of a goroutine keep its call sane.
LEMMA CallsStep ==
  ASSUME TypeOK, CallsInv, NEW w \in Ops,
         Switched(w) \/ Loaded(w) \/ Written(w) \/ Unwritten(w) \/ Answered(w) \/ Unread(w)
  PROVE  CallsInv'
<1> USE DEF CallsInv
<1>1. Keeps(w) /\ op[w].pc \in Running /\ op[w] \in OpType
  BY DEF Switched, Loaded, Written, Unwritten, Answered, Unread, Running, TypeOK
<1>2. /\ op' = [op EXCEPT ![w] = op'[w]] /\ op \in [Ops -> OpType] /\ op'[w] \in OpType
      /\ op'[w].kind = op[w].kind /\ op'[w].tx = op[w].tx
      /\ UNCHANGED <<n, cur, hold, sqlTx, committed, cancelled, srvVars, up>>
  BY <1>1 DEF Keeps, sqlVars, TypeOK
<1>3. w <= n /\ op[w].res = "none" /\ Sane(w)
  BY <1>1 DEF Sane, Idle, Running, Ops, TypeOK
<1>4. /\ op'[w].pc = "switch" => op'[w].kind \in Switching
      /\ op'[w].pc \in {"load", "write", "read"} => op'[w].req \in RequestsOf(op'[w].kind)
      /\ op'[w].pc = "load" => op'[w].req \in AutoCommit
      /\ op'[w].commit => op'[w].req \in AutoCommit
      /\ op'[w].res # "none" => op'[w].pc = "done"
      /\ op'[w].pc # "idle"
  <2>1. ASSUME NEW r, On(w, r), r \in RequestsOf(op[w].kind) PROVE <1>4!:
    BY <1>2, <1>3, <2>1 DEF On, Before
  <2>2. ASSUME NEW r, Over(w, r) PROVE <1>4!:
    BY <1>2, <2>2 DEF Over
  <2>3. CASE Switched(w)
    <3>1. FirstRequest(op[w].kind) \in RequestsOf(op[w].kind) /\ "connect" \in RequestsOf(op[w].kind)
      BY <1>3, <2>3 DEF Switched, Sane, RequestsOf
    <3> QED
      BY <2>1, <2>2, <2>3, <3>1 DEF Switched
  <2>4. CASE Loaded(w)
    BY <1>2, <1>3, <2>4 DEF Loaded, Sane
  <2>5. CASE Written(w)
    BY <1>2, <1>3, <2>5 DEF Written, Sane
  <2>6. CASE Unwritten(w) \/ Unread(w)
    BY <2>2, <2>6 DEF Unwritten, Unread, Ended
  <2>7. CASE Answered(w)
    <3>1. NextRequest(op[w]) # "none" => NextRequest(op[w]) \in RequestsOf(op[w].kind)
      BY <1>1, <1>3, <2>7, NextRequestOf DEF Answered, Sane
    <3> QED
      BY Zenon, <2>1, <2>2, <2>7, <3>1 DEF Answered, Ended
  <2> QED
    BY <2>3, <2>4, <2>5, <2>6, <2>7
<1>5. ASSUME NEW v \in Ops PROVE Sane(v)'
  <2>1. CASE v = w
    BY <1>2, <1>3, <1>4, <2>1 DEF Sane, TypeOK, Ops
  <2>2. CASE v # w
    <3>1. op'[v] = op[v] /\ Sane(v)
      BY <1>2, <2>2
    <3> QED
      BY <1>2, <3>1 DEF Sane
  <2> QED
    BY <2>1, <2>2
<1>6. Known'
  <2>1. CASE Written(w)
    <3>1. reqQ' = Append(reqQ, Message(w)) /\ Message(w).op = w /\ reqQ \in Seq(RequestType) /\ up
      BY Zenon, <2>1 DEF Written, Message, TypeOK
    <3>2. \A i \in DOMAIN reqQ' : reqQ'[i].op <= n
      <4> HIDE DEF CallsInv
      <4>1. \A i \in DOMAIN reqQ : reqQ[i].op <= n
        BY DEF Known, CallsInv
      <4> QED
        BY <1>3, <3>1, <4>1
    <3> QED
      BY Zenon, <1>2, <3>1, <3>2 DEF Known, srvVars
  <2>2. CASE reqQ' = reqQ
    BY Zenon, <1>2, <2>2 DEF Known, srvVars
  <2> QED
    BY <2>1, <2>2 DEF Switched, Loaded, Unwritten, Answered, Unread, netVars
<1>7. Caller'
  <2>1. ASSUME cur # 0
        PROVE  Now'.tx = Now.tx /\ Now'.kind = Now.kind /\ (Now.pc # "idle" => Now'.pc # "idle")
    <3>1. CASE cur = w
      BY <1>2, <1>4, <3>1 DEF Now
    <3>2. CASE cur # w
      <4>1. cur \in Ops
        BY <2>1, BoundsAssumption DEF TypeOK, Ops, BoundsAssumption
      <4> QED
        BY <1>2, <3>2, <4>1 DEF Now
    <3> QED
      BY <3>1, <3>2
  <2> QED
    BY <1>2, <2>1 DEF Caller
<1> QED
  BY <1>5, <1>6, <1>7

\* The server adds calls it was sent.
LEMMA CallsServer ==
  ASSUME TypeOK, CallsInv
  PROVE  /\ \A ok \in BOOLEAN, a \in Attrs : Serve(ok, a) => CallsInv'
         /\ SessionEnd => CallsInv'
<1> USE DEF CallsInv
<1>1. ASSUME NEW ok \in BOOLEAN, NEW a \in Attrs, Serve(ok, a) PROVE CallsInv'
  <2>1. /\ reqQ # <<>> /\ reqQ' = Tail(reqQ) /\ reqQ \in Seq(RequestType)
        /\ UNCHANGED <<n, cur, hold, sqlTx, committed, op, cancelled, up>>
    BY <1>1 DEF Serve, TypeOK, sqlVars, sessVars
  <2>2. Head(reqQ).op <= n /\ Head(reqQ) = reqQ[1] /\ Head(reqQ) \in RequestType
    BY <2>1 DEF Known
  <2>3. \A w \in pend' \cup durable' : w \in pend \cup durable \/ w = Head(reqQ).op
    BY <1>1 DEF Serve
  <2>4. \A w \in Ops : ranAs'[w] # {} => ranAs[w] # {} \/ w = Head(reqQ).op
    BY <1>1 DEF Serve, TypeOK
  <2>5. \A i \in DOMAIN reqQ' : reqQ'[i].op <= n
    BY <2>1 DEF Known
  <2>6. Known'
    BY <2>1, <2>2, <2>3, <2>4, <2>5 DEF Known
  <2> QED
    BY <2>1, <2>6 DEF Sane, Caller, Now
<1>2. ASSUME SessionEnd PROVE CallsInv'
  BY <1>2 DEF SessionEnd, Sane, Known, Caller, Now, sqlVars, sessVars
<1> QED
  BY <1>1, <1>2

\* The calls made so far are those up to n.
LEMMA CallsSoFar ==
  ASSUME TypeOK
  PROVE  n \in 0 .. MaxOps /\ \A w \in Ops : w \in 1 .. n <=> w <= n
<1>1. n \in 0 .. MaxOps
  BY DEF TypeOK
<1> QED
  BY <1>1, BoundsAssumption DEF Ops, BoundsAssumption

\* A call keeps its kind and its transaction.
LEMMA Stable ==
  ASSUME TypeOK, Next
  PROVE  \A w \in 1 .. n : op'[w].tx = op[w].tx /\ op'[w].kind = op[w].kind
<1>1. ASSUME NEW w \in 1 .. n PROVE w \in Ops /\ op \in [Ops -> OpType] /\ w # n + 1
  BY <1>1, BoundsAssumption DEF TypeOK, Ops, BoundsAssumption
<1>2. CASE Made
  BY <1>1, <1>2 DEF Made
<1>3. CASE Returned \/ Others \/ SessionEnd
  BY <1>3 DEF Returned, Others, Reuse, Release, Close, Cancel, SessionEnd
<1>4. CASE \E ok \in BOOLEAN, a \in Attrs : Serve(ok, a)
  BY <1>4 DEF Serve
<1>5. ASSUME NEW v \in Ops, Keeps(v) PROVE \A w \in 1 .. n : op'[w].tx = op[w].tx /\ op'[w].kind = op[w].kind
  BY <1>1, <1>5 DEF Keeps
<1> QED
  BY Zenon, <1>2, <1>3, <1>4, <1>5, NextMoves
  DEF Switched, Loaded, Written, Unwritten, Answered, Unread

=============================================================================
