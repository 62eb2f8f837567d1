--------------------------- MODULE OutcomeProofs ----------------------------
(***************************************************************************)
(* What the driver reported is done, and a connection in the pool holds no *)
(* work of an earlier user, for every number of calls and every failure on *)
(* the way.                                                                *)
(***************************************************************************)
EXTENDS CommitProofs

-----------------------------------------------------------------------------
(* What was reported is done, and a connection in the pool is clean.       *)

\* Call w has work at the server or under way to it.
Worked(w) == \E i \in 0 .. Len(reqQ) : At(w, i)

\* What the stream holds while the call in progress waits for its reply: its request, or a reply
\* that tells what the server did.
Answer ==
  cur # 0 /\ Now.pc = "read" /\ ~rdErr /\ hold # "closed" =>
    /\ \A i \in DOMAIN reqQ : /\ reqQ[i].req \in {Now.req, "garbage"}
                              /\ wrErr = "no" => reqQ[i].req # "garbage"
    /\ repQ # <<>> =>
         /\ repQ[1].ok /\ Now.req = "statement" => ranAs[cur] # {} /\ (sqlTx = 0 => cur \in durable)
         /\ Now.req \in {"MtCommit", "MtRollback"} /\ (wrErr = "no" \/ repQ[1].ok) => pend = {}
         /\ repQ[1].ok /\ Now.req = "MtCommit" =>
              \A w \in Ops : ranAs[w] # {} /\ op[w].tx = sqlTx => w \in durable

\* The statements on the stream are the call's in progress, which waits for the reply or gave up.
OwnStatements ==
  \A i \in DOMAIN reqQ : reqQ[i].req = "statement" =>
    cur # 0 /\ reqQ[i].op = cur /\ (Now.pc = "read" \/ (Now.pc = "done" /\ Now.res = "bad"))

\* There is no statement on the stream.
NoStatements == \A i \in DOMAIN reqQ : reqQ[i].req # "statement"

\* The connection can be used again.
Usable == (wrErr = "no" \/ hold = "pool") /\ hold \in {"pool", "held"}

\* A connection that may be used again holds work of the transaction in use only, and none when
\* there is no transaction, or none any more.
Clean ==
  Usable =>
    /\ sqlTx = 0 => pend = {} /\ OwnStatements
    /\ Closing /\ Now.res # "bad" => pend = {} /\ NoStatements
    /\ \A w \in Ops : Worked(w) => op[w].tx = sqlTx

\* What ran in the transaction in use is pending until the end of the transaction is served.
StillPending ==
  up /\ ~rdErr /\ hold # "closed" /\ sqlTx # 0 =>
    \A w \in Ops : ranAs[w] # {} /\ op[w].tx = sqlTx =>
      w \in pend \/ (cur # 0 /\ Now.kind \in Ending /\ (Now.pc = "done" \/ repQ # <<>>))

\* Without a cancelled context and an unread reply there is one message under way at most, and it
\* is one of the call in progress.
LEMMA OneMessage ==
  ASSUME TypeOK, OneAtATime, ~cancelled, ~cut, ~rdErr, hold # "closed"
  PROVE  /\ reqQ # <<>> \/ repQ # <<>> => cur # 0 /\ cur \in Ops /\ Now.pc = "read"
         /\ reqQ # <<>> => repQ = <<>> /\ Len(reqQ) = 1 /\ reqQ[1].op = cur /\ Head(reqQ) = reqQ[1]
         /\ repQ # <<>> => reqQ = <<>> /\ Len(repQ) = 1 /\ Head(repQ) = repQ[1]
<1>1. \/ reqQ = <<>> /\ repQ = <<>>
      \/ /\ cur # 0 /\ op[cur].pc = "read"
         /\ \/ Len(reqQ) = 1 /\ reqQ[1].op = cur /\ repQ = <<>>
            \/ reqQ = <<>> /\ Len(repQ) = 1 /\ repQ[1].op = cur
  BY DEF OneAtATime
<1>2. cur # 0 => cur \in Ops
  BY BoundsAssumption DEF TypeOK, Ops, BoundsAssumption
<1>3. (reqQ # <<>> => Head(reqQ) = reqQ[1]) /\ (repQ # <<>> => Head(repQ) = repQ[1])
  BY DEF TypeOK
<1> QED
  BY <1>1, <1>2, <1>3 DEF Now

\* What the server did when it answers a request.
LEMMA Served ==
  ASSUME TypeOK, NEW ok \in BOOLEAN, NEW a \in Attrs, Serve(ok, a)
  PROVE  /\ reqQ # <<>> /\ reqQ' = Tail(reqQ) /\ Head(reqQ) = reqQ[1] /\ 1 \in DOMAIN reqQ
         /\ UNCHANGED <<n, cur, hold, sqlTx, stmts, committed, op, inTx, cancelled, wrErr, rdErr, up, cut>>
         /\ ok => Head(reqQ).req # "garbage"
         /\ hold # "closed" /\ ~cut => repQ' = Append(repQ, [op |-> Head(reqQ).op, ok |-> ok, attr |-> a])
         /\ ok /\ Head(reqQ).req = "statement" => ranAs'[Head(reqQ).op] # {}
         /\ \A w \in Ops : ranAs'[w] # ranAs[w] => ok /\ Head(reqQ).req = "statement" /\ Head(reqQ).op = w
         /\ durable \subseteq durable'
         /\ ok /\ Commits(Head(reqQ)) => pend \subseteq durable'
         /\ ok /\ Commits(Head(reqQ)) /\ Head(reqQ).req = "statement" => Head(reqQ).op \in durable'
<1>1. reqQ # <<>> /\ reqQ' = Tail(reqQ) /\ Head(reqQ) = reqQ[1] /\ 1 \in DOMAIN reqQ
  BY DEF Serve, TypeOK
<1>2. UNCHANGED <<n, cur, hold, sqlTx, stmts, committed, op, inTx, cancelled, wrErr, rdErr, up, cut>>
  BY DEF Serve, sqlVars, sessVars
<1>3. /\ ok => Head(reqQ).req # "garbage"
      /\ hold # "closed" /\ ~cut => repQ' = Append(repQ, [op |-> Head(reqQ).op, ok |-> ok, attr |-> a])
  BY DEF Serve
<1>4. /\ durable \subseteq durable'
      /\ ok /\ Commits(Head(reqQ)) => pend \subseteq durable'
      /\ ok /\ Commits(Head(reqQ)) /\ Head(reqQ).req = "statement" => Head(reqQ).op \in durable'
  BY DEF Serve, Commits
<1>5. /\ ok /\ Head(reqQ).req = "statement" => ranAs'[Head(reqQ).op] # {}
      /\ \A w \in Ops : ranAs'[w] # ranAs[w] => ok /\ Head(reqQ).req = "statement" /\ Head(reqQ).op = w
  <2>1. ranAs' = IF ok /\ Head(reqQ).req = "statement"
                 THEN [ranAs EXCEPT ![Head(reqQ).op] = @ \cup {[user |-> srvUser, schema |-> srvSchema]}]
                 ELSE ranAs
    BY DEF Serve
  <2>2. Head(reqQ).req = "statement" => Head(reqQ).op \in Ops
    BY Zenon, <1>1, Messages, MessageFields
  <2>3. ranAs \in [Ops -> SUBSET Identity]
    BY DEF TypeOK
  <2> QED
    BY Zenon, <2>1, <2>2, <2>3
<1> QED
  BY <1>1, <1>2, <1>3, <1>4, <1>5

\* What a goroutine's step leaves alone, when no context was cancelled.
LEMMA StepNow ==
  ASSUME TypeOK, OneAtATime, CallsInv, ~cancelled, NEW w \in Ops,
         Switched(w) \/ Loaded(w) \/ Written(w) \/ Unwritten(w) \/ Answered(w) \/ Unread(w)
  PROVE  /\ w = cur /\ cur \in Ops /\ cur # 0 /\ cur = n /\ Now = op[cur] /\ Now' = op'[cur]
         /\ Now'.kind = Now.kind /\ Now'.tx = Now.tx /\ Now.tx = sqlTx
         /\ Now.pc \in Running /\ Now.res = "none" /\ Sane(cur)
         /\ UNCHANGED <<n, cur, hold, sqlTx, committed, cancelled, up, pend, durable, ranAs>>
         /\ \A v \in Ops : v # cur => op'[v] = op[v]
<1>1. Keeps(w) /\ op[w].pc \in Running
  BY DEF Switched, Loaded, Written, Unwritten, Answered, Unread, Running
<1>2. w = cur /\ cur \in Ops /\ cur # 0 /\ Now = op[cur]
  BY <1>1, StepOfCall DEF Now
<1>3. /\ Now' = op'[cur] /\ cur' = cur /\ Now'.kind = Now.kind /\ Now'.tx = Now.tx
      /\ UNCHANGED <<n, hold, sqlTx, committed, cancelled, up, pend, durable, ranAs>>
  BY <1>1, <1>2, NowMoves DEF Keeps, srvVars
<1>4. Now.tx = sqlTx /\ Sane(cur) /\ cur = n
  BY <1>2 DEF CallsInv, Caller
<1>5. Now.res = "none"
  BY <1>1, <1>2, <1>4 DEF Sane, Running
<1>6. \A v \in Ops : v # cur => op'[v] = op[v]
  BY <1>1, <1>2 DEF Keeps, TypeOK
<1> QED
  BY <1>1, <1>2, <1>3, <1>4, <1>5, <1>6

\* Without a cancelled context a connection is not closed under the call in progress, which alone
\* can be waiting for a reply.
LEMMA AnswerStep ==
  ASSUME TypeOK, OneAtATime, CallsInv, InTx, Sound, Answer, StillPending, Next, ~cancelled', ~cut'
  PROVE  Answer'
<1>0. ~cancelled /\ ~cut
  BY Sticky
<1> SUFFICES ASSUME cur' # 0, Now'.pc = "read", ~rdErr', hold' # "closed"
             PROVE  Answer'
  BY DEF Answer
<1>1. CASE Made
  BY <1>1 DEF Made, Fresh, Before
<1>2. CASE Returned
  BY <1>2 DEF Returned
<1>3. CASE Others
  BY <1>0, <1>3 DEF Others, Reuse, Release, Close, Cancel
<1>4. ASSUME NEW w \in Ops,
             Switched(w) \/ Loaded(w) \/ Written(w) \/ Unwritten(w) \/ Answered(w) \/ Unread(w)
      PROVE  Answer'
  <2>1. w = cur /\ cur \in Ops /\ cur # 0 /\ Now = op[cur] /\ Now' = op'[cur] /\ hold' = hold
    BY <1>0, <1>4, StepNow
  <2>2. Written(w)
    <3>1. ~Switched(w) /\ ~Loaded(w)
      BY <2>1 DEF Switched, Loaded, On, Over, Before
    <3>2. ~Unwritten(w) /\ ~Answered(w) /\ ~Unread(w)
      BY <2>1 DEF Unwritten, Answered, Unread, On, Over, Ended, Before
    <3> QED
      BY <1>4, <3>1, <3>2
  <2>3. /\ reqQ' = Append(reqQ, Message(w)) /\ repQ' = repQ /\ rdErr' = rdErr /\ Now.pc = "write"
        /\ wrErr' = wrErr /\ wrErr # "io" /\ Now'.req = Now.req
    BY <2>1, <2>2 DEF Written
  <2>4. reqQ = <<>> /\ repQ = <<>>
    BY <1>0, <2>1, <2>3, OneMessage
  <2>5. Message(w).req = IF wrErr = "enc" THEN "garbage" ELSE Now.req
    BY <2>1 DEF Message
  <2>6. DOMAIN reqQ' = {1} /\ reqQ'[1] = Message(w)
    BY <2>3, <2>4
  <2>7. Now.req # "garbage"
    BY <2>1 DEF TypeOK, OpType, OpRecord, Requests, AutoCommit
  <2> QED
    BY <2>3, <2>4, <2>5, <2>6, <2>7 DEF Answer, TypeOK
<1>5. ASSUME NEW ok \in BOOLEAN, NEW a \in Attrs, Serve(ok, a) PROVE Answer'
  <2> DEFINE m == Head(reqQ)
  <2>1. /\ UNCHANGED <<cur, hold, sqlTx, op, wrErr, rdErr, up>> /\ Now' = Now
        /\ reqQ # <<>> /\ reqQ' = Tail(reqQ) /\ m = reqQ[1] /\ 1 \in DOMAIN reqQ
    BY Zenon, <1>5, Served DEF Now
  <2>2. m.op = cur /\ repQ = <<>> /\ reqQ' = <<>> /\ cur \in Ops
    <3>1. Len(reqQ) = 1 /\ reqQ[1].op = cur /\ repQ = <<>> /\ cur \in Ops
      BY <1>0, <2>1, OneMessage
    <3> QED
      BY <2>1, <3>1 DEF TypeOK
  <2>3. /\ m.req \in {Now.req, "garbage"} /\ (wrErr = "no" => m.req # "garbage")
        /\ ok => m.req # "garbage"
    BY Zenon, <1>5, <2>1, Served DEF Answer
  <2>4. SoundMsg(m) /\ Now.tx = sqlTx /\ cur # 0
    BY <2>1 DEF Sound, CallsInv, Caller
  <2>5. repQ' = <<[op |-> m.op, ok |-> ok, attr |-> a]>>
    BY <1>0, <1>5, <2>1, <2>2, Served
  <2>6. repQ'[1].ok = ok
    BY <2>5
  <2>7. ok /\ Now.req = "statement" => ranAs'[cur] # {} /\ (sqlTx = 0 => cur \in durable')
    <3>1. ok /\ Now.req = "statement" /\ sqlTx = 0 => Commits(m)
      BY <2>2, <2>3, <2>4 DEF SoundMsg, Commits, AutoCommit, Now
    <3> QED
      BY Zenon, <1>5, <2>2, <2>3, <3>1, Served
  <2>8. Now.req \in {"MtCommit", "MtRollback"} /\ (wrErr = "no" \/ ok) => pend' = {}
    BY <1>5, <2>3, ServePending
  <2>9. ASSUME ok, Now.req = "MtCommit", NEW w \in Ops, ranAs'[w] # {}, op[w].tx = sqlTx
        PROVE  w \in durable'
    <3>1. m.req = "MtCommit" /\ Commits(m)
      BY <2>3, <2>9 DEF Commits
    <3>2. ranAs'[w] = ranAs[w]
      BY Zenon, <1>5, <3>1, Served
    <3>3. Now.kind = "Commit" /\ sqlTx # 0
      <4>1. "MtCommit" \in RequestsOf(Now.kind)
        BY <2>2, <2>4, <3>1 DEF SoundMsg, Now
      <4>2. Now.kind = "Commit"
        BY <4>1 DEF RequestsOf, FirstRequest
      <4> QED
        BY <2>2, <2>4, <4>2 DEF CallsInv, Sane, Ending, Now
    <3>4. up
      BY <2>1 DEF CallsInv, Known
    <3>5. w \in pend
      BY <2>1, <2>2, <2>9, <3>2, <3>3, <3>4 DEF StillPending
    <3> QED
      BY Zenon, <1>5, <2>9, <3>1, <3>5, Served
  <2> HIDE DEF m
  <2> QED
    BY <2>1, <2>2, <2>6, <2>7, <2>8, <2>9 DEF Answer
<1>6. CASE SessionEnd
  <2>1. UNCHANGED <<cur, hold, sqlTx, op, wrErr, rdErr, repQ, durable, ranAs>> /\ Now' = Now
        /\ reqQ' = <<>> /\ pend' = {}
    BY <1>6 DEF SessionEnd, sqlVars, sessVars, Now
  <2> QED
    BY <2>1 DEF Answer
<1> QED
  BY <1>1, <1>2, <1>3, <1>4, <1>5, <1>6, NextMoves

\* The server alone changes what is pending.
LEMMA PendingMoves ==
  ASSUME TypeOK, Next
  PROVE  pend' = pend \/ pend' = {} \/ \E ok \in BOOLEAN, a \in Attrs : Serve(ok, a)
<1>1. CASE Made
  BY <1>1 DEF Made, srvVars
<1>2. CASE Returned \/ Others \/ SessionEnd
  BY <1>2 DEF Returned, Others, Reuse, Release, Close, Cancel, SessionEnd, srvVars
<1> QED
  BY <1>1, <1>2, NextMoves
  DEF Switched, Loaded, Written, Unwritten, Answered, Unread, Keeps, srvVars

\* New work comes from a statement that is written.
LEMMA WorkedMoves ==
  ASSUME TypeOK, CallsInv, Next, NEW w \in Ops, Worked(w)'
  PROVE  \/ Worked(w) /\ w \in 1 .. n /\ op'[w].tx = op[w].tx /\ op'[w].kind = op[w].kind
         \/ Written(w) /\ Message(w).req = "statement"
<1>1. ASSUME NEW i, At(w, i), i \in 0 .. Len(reqQ)
      PROVE  Worked(w) /\ w \in 1 .. n /\ op'[w].tx = op[w].tx /\ op'[w].kind = op[w].kind
  BY <1>1, AtKnown, Stable DEF Worked
<1>2. PICK i \in 0 .. Len(reqQ') : At(w, i)'
  BY DEF Worked
<1>3. CASE i = 0 /\ w \in pend'
  <2>1. CASE w \in pend
    <3>1. At(w, 0) /\ 0 \in 0 .. Len(reqQ)
      BY <2>1, Messages DEF At
    <3> QED
      BY <1>1, <3>1
  <2>2. CASE w \notin pend
    <3>1. PICK ok \in BOOLEAN, a \in Attrs : Serve(ok, a)
      BY <1>3, <2>2, PendingMoves
    <3>2. Head(reqQ).req = "statement" /\ Head(reqQ).op = w
      BY <1>3, <2>2, <3>1, ServePending
    <3>3. Head(reqQ) = reqQ[1] /\ 1 \in DOMAIN reqQ
      BY Zenon, <3>1, Served
    <3>4. At(w, 1) /\ 1 \in 0 .. Len(reqQ)
      BY <3>2, <3>3, Messages DEF At
    <3> QED
      BY <1>1, <3>4
  <2> QED
    BY <2>1, <2>2
<1>4. CASE i \in DOMAIN reqQ' /\ reqQ'[i].req = "statement" /\ reqQ'[i].op = w
  <2>1. CASE reqQ' = reqQ
    <3>1. At(w, i) /\ i \in 0 .. Len(reqQ)
      BY <1>4, <2>1 DEF At
    <3> QED
      BY <1>1, <3>1
  <2>2. ASSUME NEW m, reqQ' = Append(reqQ, m), reqQ'[i] # m
        PROVE  Worked(w) /\ w \in 1 .. n /\ op'[w].tx = op[w].tx /\ op'[w].kind = op[w].kind
    <3>1. i \in DOMAIN reqQ /\ reqQ'[i] = reqQ[i]
      BY <1>4, <2>2, AppendMessage
    <3>2. At(w, i) /\ i \in 0 .. Len(reqQ)
      BY <1>4, <3>1, Messages DEF At
    <3> QED
      BY <1>1, <3>2
  <2>3. ASSUME NEW v \in Ops, Written(v), reqQ'[i] = Message(v)
        PROVE  Written(w) /\ Message(w).req = "statement"
    <3>1. Message(v).op = v
      BY DEF Message
    <3> QED
      BY <1>4, <2>3, <3>1
  <2>4. CASE reqQ # <<>> /\ reqQ' = Tail(reqQ)
    <3>1. At(w, i + 1) /\ i + 1 \in 0 .. Len(reqQ)
      BY <1>4, <2>4, TailMessage, Messages DEF At
    <3> QED
      BY <1>1, <3>1
  <2> DEFINE d == [op |-> 0, req |-> "MtDisconnect", commit |-> FALSE, schema |-> NoSchema]
  <2>5. d.req # "statement"
    OBVIOUS
  <2>6. reqQ' # <<>>
    BY <1>4
  <2>7. CASE reqQ' = Append(reqQ, d)
    <3> HIDE DEF d
    <3> QED
      BY <1>4, <2>2, <2>5, <2>7
  <2>8. ASSUME NEW v \in Ops, Written(v) PROVE reqQ' = Append(reqQ, Message(v))
    BY <2>8 DEF Written
  <2> QED
    BY <2>1, <2>2, <2>3, <2>4, <2>6, <2>7, <2>8, NextQueue DEF QueueMoves
<1> QED
  BY <1>2, <1>3, <1>4 DEF At

\* The call of a statement on the stream is one of a statement.
LEMMA StatementOf ==
  ASSUME TypeOK, CallsInv, Sound, NEW i \in DOMAIN reqQ, reqQ[i].req = "statement"
  PROVE  /\ reqQ[i].op \in Ops /\ op[reqQ[i].op].kind \in Statements
         /\ reqQ[i].commit <=> op[reqQ[i].op].tx = 0
<1>1. reqQ[i].op \in Ops
  BY Zenon, Messages, MessageFields
<1>2. SoundMsg(reqQ[i])
  BY DEF Sound
<1>3. "statement" \in RequestsOf(op[reqQ[i].op].kind) /\ (reqQ[i].commit <=> op[reqQ[i].op].tx = 0)
  BY <1>1, <1>2 DEF SoundMsg, AutoCommit, Ops
<1>4. op[reqQ[i].op].kind \in AllKinds
  BY <1>1 DEF TypeOK, OpType, OpRecord, CallsInv, Known, Sane, Ops
<1> QED
  BY <1>1, <1>3, <1>4 DEF RequestsOf, FirstRequest, Statements, AllKinds, Spawned, Direct

\* A connection does not become usable again.
LEMMA UsableBefore ==
  ASSUME TypeOK, Next, Usable'
  PROVE  Usable
<1>1. CASE Made
  <2>1. wrErr' = wrErr /\ (hold' = hold \/ hold = "pool")
    BY <1>1 DEF Made
  <2> QED
    BY <2>1 DEF Usable
<1>2. CASE Returned \/ SessionEnd \/ \E ok \in BOOLEAN, a \in Attrs : Serve(ok, a)
  <2>1. wrErr' = wrErr /\ (hold' = hold \/ hold' = "drop")
    BY Zenon, <1>2 DEF Returned, SessionEnd, Serve, sqlVars, sessVars
  <2> QED
    BY <2>1 DEF Usable
<1>3. CASE Others
  BY <1>3 DEF Others, Reuse, Release, Close, Cancel, sessVars, isBad, Usable
<1>4. ASSUME NEW w \in Ops,
             Switched(w) \/ Loaded(w) \/ Written(w) \/ Unwritten(w) \/ Answered(w) \/ Unread(w)
      PROVE  Usable
  <2>1. hold' = hold /\ (wrErr' = wrErr \/ wrErr' \in {"io", "enc"})
    BY <1>4 DEF Switched, Loaded, Written, Unwritten, Answered, Unread, Keeps, sqlVars
  <2> QED
    BY <2>1 DEF Usable
<1> QED
  BY <1>1, <1>2, <1>3, <1>4, NextMoves

\* What is pending on a usable connection, and under way to it.
LEMMA CleanStep ==
  ASSUME TypeOK, OneAtATime, CallsInv, InTx, Sound, Answer, Clean, Next, ~cancelled', ~cut'
  PROVE  Clean'
<1>0. ~cancelled /\ ~cut
  BY Sticky
<1> SUFFICES ASSUME Usable' PROVE Clean'
  BY Zenon DEF Clean
<1>1. /\ sqlTx = 0 => pend = {} /\ OwnStatements
      /\ Closing /\ Now.res # "bad" => pend = {} /\ NoStatements
      /\ \A w \in Ops : Worked(w) => op[w].tx = sqlTx
  BY UsableBefore DEF Clean
<1>2. CASE Made
  <2>1. cur = 0 /\ reqQ' = reqQ /\ pend' = pend /\ sqlTx' = sqlTx /\ Fresh(Now')
    BY <1>2 DEF Made, netVars, srvVars
  <2>2. sqlTx' = 0 => pend' = {} /\ OwnStatements'
    BY <1>1, <2>1 DEF OwnStatements
  <2>3. ~(Closing' /\ Now'.res # "bad")
    BY <2>1 DEF Closing, Fresh, Before, Ending
  <2>4. ASSUME NEW w \in Ops, Worked(w)' PROVE op'[w].tx = sqlTx'
    <3>1. ~Written(w)
      BY <2>1, StepOfCall, <1>0 DEF Written, Running
    <3> QED
      BY <1>1, <2>1, <2>4, <3>1, WorkedMoves
  <2> QED
    BY <2>2, <2>3, <2>4 DEF Clean
<1>3. CASE Returned
  <2>1. /\ cur # 0 /\ cur' = 0 /\ reqQ' = reqQ /\ pend' = pend /\ op' = op /\ Now.pc = "done"
        /\ sqlTx' = IF Now.kind = "BeginTx" /\ Now.res = "ok" THEN cur
                    ELSE IF Now.kind \in Ending THEN 0 ELSE sqlTx
        /\ Now.res = "bad" /\ sqlTx' = 0 /\ Now.kind \notin {"StmtClose", "Next"} => hold' = "drop"
    BY <1>3 DEF Returned, netVars, srvVars
  <2>2. ~Closing' /\ hold' # "drop"
    BY <2>1 DEF Closing, Usable
  <2>3. OwnStatements /\ (sqlTx' = 0 \/ (Now.kind = "BeginTx" /\ Now.res = "ok")) => NoStatements
    <3> SUFFICES ASSUME OwnStatements, sqlTx' = 0 \/ (Now.kind = "BeginTx" /\ Now.res = "ok"),
                        NEW i \in DOMAIN reqQ, reqQ[i].req = "statement"
                 PROVE  FALSE
      BY DEF NoStatements
    <3>1. reqQ[i].op = cur /\ Now.res = "bad"
      BY <2>1 DEF OwnStatements
    <3>2. Now.kind \in Statements
      BY <3>1, StatementOf DEF Now
    <3> QED
      BY <2>1, <2>2, <3>1, <3>2 DEF Statements
  <2>4. sqlTx' = 0 => pend' = {} /\ NoStatements'
    <3>1. CASE Now.kind \in Ending
      <4>1. (Closing /\ Now.res # "bad") \/ sqlTx' # 0
        BY <2>1, <2>2, <3>1 DEF Closing, Ending
      <4> QED
        BY <1>1, <2>1, <4>1 DEF NoStatements
    <3>2. CASE Now.kind \notin Ending
      <4>1. sqlTx' = 0 => sqlTx = 0
        BY <2>1, <3>2
      <4> QED
        BY <1>1, <2>1, <2>3, <4>1 DEF NoStatements
    <3> QED
      BY <3>1, <3>2
  <2>5. ASSUME NEW w \in Ops, Worked(w)' PROVE op'[w].tx = sqlTx'
    <3>1. Worked(w)
      BY <2>1, <2>5 DEF Worked, At
    <3>2. sqlTx' # 0
      BY <2>4, <2>5 DEF Worked, At, NoStatements
    <3>3. CASE Now.kind = "BeginTx" /\ Now.res = "ok"
      <4>1. sqlTx = 0
        BY <2>1, <3>3 DEF InTx
      <4>2. pend = {} /\ NoStatements
        BY <1>1, <2>3, <3>3, <4>1
      <4> QED
        BY <3>1, <4>2 DEF Worked, At, NoStatements
    <3> QED
      BY <1>1, <2>1, <3>1, <3>2, <3>3
  <2> QED
    BY <2>2, <2>4, <2>5 DEF Clean, OwnStatements, NoStatements
<1>4. CASE Others
  <2>1. Reuse \/ Release
    BY <1>0, <1>4 DEF Others, Close, Cancel, Usable
  <2>2. cur = 0 /\ cur' = 0 /\ UNCHANGED <<reqQ, pend, op, sqlTx>>
    BY <2>1 DEF Reuse, Release, netVars, srvVars
  <2>3. ~Closing' /\ (OwnStatements' <=> OwnStatements) /\ \A w \in Ops : Worked(w)' <=> Worked(w)
    BY <2>2 DEF Closing, OwnStatements, Worked, At
  <2> QED
    BY <1>1, <2>2, <2>3 DEF Clean
<1>5. ASSUME NEW v \in Ops,
             Switched(v) \/ Loaded(v) \/ Written(v) \/ Unwritten(v) \/ Answered(v) \/ Unread(v)
      PROVE  Clean'
  <2>1. /\ v = cur /\ cur \in Ops /\ cur # 0 /\ Now = op[cur] /\ Now' = op'[cur]
        /\ Now'.kind = Now.kind /\ Now'.tx = Now.tx /\ Now.tx = sqlTx
        /\ Now.pc \in Running /\ Now.res = "none" /\ Sane(cur)
        /\ UNCHANGED <<n, cur, hold, sqlTx, pend>>
    BY <1>0, <1>5, StepNow
  <2>2. ASSUME NEW w \in Ops, Worked(w)' PROVE op'[w].tx = sqlTx'
    <3>1. CASE Worked(w) /\ op'[w].tx = op[w].tx
      BY <1>1, <2>1, <3>1
    <3>2. CASE Written(w)
      <4>1. w = cur
        BY <1>0, <3>2, StepOfCall DEF Written, Running
      <4> QED
        BY <2>1, <4>1
    <3> QED
      BY <2>2, <3>1, <3>2, WorkedMoves
  <2>3. Answered(v) => reqQ = <<>> /\ repQ # <<>> /\ ~rdErr /\ hold # "closed" /\ Now.pc = "read"
    BY <1>0, <2>1, OneMessage DEF Answered
  <2>4. ASSUME sqlTx = 0 PROVE OwnStatements'
    <3>1. CASE Written(v)
      <4>1. /\ reqQ' = Append(reqQ, Message(v)) /\ Message(v).op = cur /\ Now'.pc = "read"
            /\ Now.pc = "write"
        BY Zenon, <2>1, <3>1 DEF Written, Message
      <4>2. NoStatements
        BY Zenon, <1>1, <2>4, <4>1 DEF OwnStatements, NoStatements
      <4>3. ASSUME NEW i \in DOMAIN reqQ', reqQ'[i].req = "statement" PROVE reqQ'[i].op = cur
        BY <4>1, <4>2, <4>3, AppendMessage DEF NoStatements
      <4> QED
        BY <2>1, <4>1, <4>3 DEF OwnStatements
    <3>2. CASE ~Written(v) /\ NoStatements
      <4>1. reqQ' = reqQ
        BY Zenon, <1>5, <3>2 DEF Switched, Loaded, Unwritten, Answered, Unread, netVars
      <4> QED
        BY <3>2, <4>1 DEF OwnStatements, NoStatements
    <3>3. CASE ~Written(v) /\ ~NoStatements
      <4>1. Now.pc = "read" /\ ~Answered(v)
        <5>1. Now.pc = "read" \/ (Now.pc = "done" /\ Now.res = "bad")
          BY Zenon, <1>1, <2>4, <3>3 DEF OwnStatements, NoStatements
        <5>2. Now.pc = "read"
          BY <2>1, <5>1
        <5>3. Answered(v) => reqQ = <<>>
          BY Zenon, <2>3
        <5>4. reqQ # <<>>
          BY <3>3 DEF NoStatements
        <5> QED
          BY Zenon, <5>2, <5>3, <5>4
      <4>2. Unread(v)
        BY Zenon, <1>5, <2>1, <3>3, <4>1 DEF Switched, Loaded, Unwritten
      <4>3. reqQ' = reqQ /\ Now'.pc = "done" /\ Now'.res = "bad"
        BY Zenon, <2>1, <4>2 DEF Unread, Ended, Over
      <4> QED
        BY Zenon, <1>1, <2>1, <2>4, <4>3 DEF OwnStatements
    <3> QED
      BY <3>1, <3>2, <3>3
  <2>5. ASSUME Closing', Now'.res # "bad" PROVE pend' = {} /\ NoStatements'
    <3>1. Now.kind \in Ending /\ Now'.pc = "done"
      BY <2>1, <2>5 DEF Closing
    <3>2. hold = "held"
      BY Zenon, <2>1, <3>1 DEF CallsInv, Caller, Ending
    <3>3. Answered(v)
      <4>1. ~Switched(v)
        BY <2>1, <3>1 DEF Switched, Sane, Switching, Ending
      <4>2. ~Loaded(v) /\ ~Written(v)
        BY <2>1, <3>1 DEF Loaded, Written
      <4>3. ~Unwritten(v)
        BY Zenon, <2>1, <3>2 DEF Unwritten, Usable
      <4>4. ~Unread(v)
        BY Zenon, <2>1, <2>5 DEF Unread, Ended, Over
      <4> QED
        BY <1>5, <4>1, <4>2, <4>3, <4>4
    <3>4. Now.req \in {"MtCommit", "MtRollback"}
      BY <2>1, <2>3, <3>1, <3>3 DEF Sane, RequestsOf, FirstRequest, Ending, Switching
    <3>5. wrErr = "no" /\ reqQ' = reqQ
      BY Zenon, <2>1, <3>2, <3>3 DEF Answered, Usable
    <3>6. pend = {}
      BY Zenon, <2>1, <2>3, <3>3, <3>4, <3>5 DEF Answer
    <3> QED
      BY <2>1, <2>3, <3>3, <3>5, <3>6 DEF NoStatements
  <2> QED
    BY <1>1, <2>1, <2>2, <2>4, <2>5 DEF Clean
<1>6. ASSUME NEW ok \in BOOLEAN, NEW a \in Attrs, Serve(ok, a) PROVE Clean'
  <2>1. /\ UNCHANGED <<cur, sqlTx, op>> /\ Now' = Now /\ reqQ # <<>> /\ reqQ' = Tail(reqQ)
        /\ Head(reqQ) = reqQ[1] /\ 1 \in DOMAIN reqQ /\ (ok => Head(reqQ).req # "garbage")
    BY Zenon, <1>6, Served DEF Now
  <2>2. \A i \in DOMAIN reqQ' : \E k \in DOMAIN reqQ : reqQ'[i] = reqQ[k]
    BY <2>1, TailMessage
  <2>3. (OwnStatements => OwnStatements') /\ (NoStatements => NoStatements')
    BY <2>1, <2>2 DEF OwnStatements, NoStatements
  <2>4. NoStatements /\ pend = {} => pend' = {}
    BY <1>6, <2>1, ServePending DEF NoStatements
  <2>5. sqlTx = 0 /\ OwnStatements /\ pend = {} => pend' = {}
    <3>1. ASSUME sqlTx = 0, OwnStatements, Head(reqQ).req = "statement" PROVE Head(reqQ).commit
      <4>1. Head(reqQ).op = cur /\ cur # 0 /\ Now.tx = sqlTx
        BY <2>1, <3>1 DEF OwnStatements, CallsInv, Caller
      <4> QED
        BY <2>1, <3>1, <4>1, StatementOf DEF Now
    <3> QED
      BY <1>6, <3>1, ServePending
  <2>6. ASSUME NEW w \in Ops, Worked(w)' PROVE op'[w].tx = sqlTx'
    <3>1. ~Written(w)
      <4>1. op'[w] = op[w]
        BY <2>1
      <4> QED
        BY <4>1 DEF Written
    <3> QED
      BY <1>1, <2>1, <2>6, <3>1, WorkedMoves
  <2> QED
    BY Zenon, <1>1, <2>1, <2>3, <2>4, <2>5, <2>6 DEF Clean, Closing
<1>7. CASE SessionEnd
  <2>1. reqQ' = <<>> /\ pend' = {}
    BY <1>7 DEF SessionEnd
  <2> QED
    BY <2>1 DEF Clean, OwnStatements, NoStatements, Worked, At
<1> QED
  BY <1>2, <1>3, <1>4, <1>5, <1>6, <1>7, NextMoves

\* What ran in a transaction stays pending until its end is served.
LEMMA StillPendingStep ==
  ASSUME TypeOK, OneAtATime, CallsInv, InTx, Sound, StillPending, Next, ~cancelled', ~cut'
  PROVE  StillPending'
<1>0. ~cancelled /\ ~cut
  BY Sticky
<1> SUFFICES ASSUME up', ~rdErr', hold' # "closed", sqlTx' # 0,
                    NEW w \in Ops, ranAs'[w] # {}, op'[w].tx = sqlTx'
             PROVE  \/ w \in pend'
                    \/ cur' # 0 /\ Now'.kind \in Ending /\ (Now'.pc = "done" \/ repQ' # <<>>)
  BY Zenon DEF StillPending
<1>1. ranAs[w] # {} => w \in 1 .. n /\ op'[w].tx = op[w].tx
  BY Zenon, CallsSoFar, Stable DEF CallsInv, Known
<1>2. CASE Made
  <2>1. cur = 0 /\ UNCHANGED <<sqlTx, up, rdErr, ranAs, pend>>
    BY Zenon, <1>2 DEF Made, netVars, srvVars
  <2>2. hold # "closed"
    BY Zenon, <1>2 DEF Made
  <2> QED
    BY Zenon, <1>1, <2>1, <2>2 DEF StillPending
<1>3. CASE Returned
  <2>1. /\ cur # 0 /\ UNCHANGED <<n, op, up, rdErr, ranAs, pend>> /\ (hold' = hold \/ hold' = "drop")
        /\ sqlTx' = IF Now.kind = "BeginTx" /\ Now.res = "ok" THEN cur
                    ELSE IF Now.kind \in Ending THEN 0 ELSE sqlTx
    BY Zenon, <1>3 DEF Returned, netVars, srvVars, sessVars
  <2>2. w \in 1 .. n /\ cur = n /\ op[w].tx < w /\ op[w].tx \in Nat /\ n \in Nat /\ hold # "closed"
    BY <1>1, <2>1 DEF CallsInv, Caller, Sane, TypeOK, OpType, OpRecord, Ops
  <2>3. sqlTx' = sqlTx /\ Now.kind \notin Ending
    BY <2>1, <2>2
  <2> QED
    BY <2>1, <2>2, <2>3 DEF StillPending
<1>4. CASE Others
  <2>1. Reuse \/ Release
    BY Zenon, <1>0, <1>4 DEF Others, Close, Cancel
  <2>2. cur = 0 /\ UNCHANGED <<sqlTx, op, up, rdErr, ranAs, pend>> /\ hold # "closed"
    BY Zenon, <2>1 DEF Reuse, Release, netVars, srvVars, sessVars
  <2> QED
    BY <2>2 DEF StillPending
<1>5. ASSUME NEW v \in Ops,
             Switched(v) \/ Loaded(v) \/ Written(v) \/ Unwritten(v) \/ Answered(v) \/ Unread(v)
      PROVE  \/ w \in pend'
             \/ cur' # 0 /\ Now'.kind \in Ending /\ (Now'.pc = "done" \/ repQ' # <<>>)
  <2>1. /\ v = cur /\ cur \in Ops /\ cur # 0 /\ Now = op[cur] /\ Now' = op'[cur]
        /\ Now'.kind = Now.kind /\ Now.pc \in Running /\ Sane(cur)
        /\ UNCHANGED <<n, cur, hold, sqlTx, up, pend, ranAs>>
    BY Zenon, <1>0, <1>5, StepNow
  <2>2. ~rdErr
    BY Zenon, <1>5 DEF Switched, Loaded, Written, Unwritten, Answered, Unread
  <2>3. \/ w \in pend
        \/ Now.kind \in Ending /\ repQ # <<>> /\ Now.pc = "read"
    <3>1. w \in pend \/ (Now.kind \in Ending /\ (Now.pc = "done" \/ repQ # <<>>))
      BY Zenon, <1>1, <2>1, <2>2 DEF StillPending
    <3> QED
      BY Zenon, <1>0, <2>1, <2>2, <3>1, OneMessage DEF Running
  <2>4. ASSUME Now.kind \in Ending, Now.pc = "read" PROVE Now'.pc = "done"
    <3>1. Now.req \in {"MtCommit", "MtRollback"}
      BY <2>1, <2>4 DEF Sane, RequestsOf, FirstRequest, Ending, Switching
    <3>2. NextRequest(op[v]) = "none"
      BY <2>1, <3>1 DEF NextRequest
    <3>3. Answered(v) \/ Unread(v)
      BY Zenon, <1>5, <2>1, <2>4 DEF Switched, Loaded, Written, Unwritten
    <3> QED
      BY Zenon, <2>1, <3>2, <3>3 DEF Answered, Unread, Ended, Over
  <2> QED
    BY Zenon, <2>1, <2>3, <2>4
<1>6. ASSUME NEW ok \in BOOLEAN, NEW a \in Attrs, Serve(ok, a)
      PROVE  \/ w \in pend'
             \/ cur' # 0 /\ Now'.kind \in Ending /\ (Now'.pc = "done" \/ repQ' # <<>>)
  <2> DEFINE m == Head(reqQ)
  <2>1. /\ UNCHANGED <<cur, hold, sqlTx, op, rdErr, up>> /\ Now' = Now
        /\ reqQ # <<>> /\ m = reqQ[1] /\ 1 \in DOMAIN reqQ /\ (ok => m.req # "garbage")
    BY Zenon, <1>6, Served DEF Now
  <2>2. m.op = cur /\ repQ = <<>> /\ cur \in Ops /\ cur # 0 /\ Now.pc = "read"
    BY Zenon, <1>0, <2>1, OneMessage
  <2>3. SoundMsg(m) /\ Now.tx = sqlTx
    BY <2>1, <2>2 DEF Sound, CallsInv, Caller
  <2>4. repQ' # <<>>
    <3>1. repQ' = Append(repQ, [op |-> m.op, ok |-> ok, attr |-> a])
      BY Zenon, <1>0, <1>6, <2>1, Served
    <3> QED
      BY <2>2, <3>1
  <2>5. m \in RequestType /\ m.req # "MtDisconnect"
    BY Zenon, <2>1, <2>2, Messages, MessageFields
  <2>6. ok => ~m.commit
    BY <2>1, <2>2, <2>3 DEF SoundMsg, Now
  <2>7. w \in pend \/ (ok /\ m.req = "statement" /\ w = cur)
    <3>1. CASE ranAs'[w] # ranAs[w]
      BY Zenon, <1>6, <2>2, <3>1, Served
    <3>2. CASE ranAs'[w] = ranAs[w]
      BY <2>1, <2>2, <3>2 DEF StillPending
    <3> QED
      BY <3>1, <3>2
  <2>8. CASE m.req \in {"MtCommit", "MtRollback"}
    <3>1. m.req \in RequestsOf(Now.kind)
      BY Zenon, <2>2, <2>3, <2>8 DEF SoundMsg, Now
    <3>2. Now.kind \in Ending
      BY <2>8, <3>1 DEF RequestsOf, FirstRequest, Ending
    <3> QED
      BY <2>1, <2>2, <2>4, <3>2
  <2>9. CASE m.req \notin {"MtCommit", "MtRollback"}
    <3>1. pend' = IF ok THEN pend \cup (IF m.req = "statement" THEN {m.op} ELSE {}) ELSE pend
      BY <1>6, <2>5, <2>6, <2>9 DEF Serve
    <3> QED
      BY <2>2, <2>7, <3>1
  <2> QED
    BY <2>8, <2>9
<1>7. CASE SessionEnd
  BY <1>7 DEF SessionEnd
<1> QED
  BY Zenon, <1>2, <1>3, <1>4, <1>5, <1>6, <1>7, NextMoves

\* The requests of a call that ends well: the last one was the call's own.
LEMMA EndsWell ==
  ASSUME TypeOK, CallsInv, NEW w \in Ops, Answered(w), NextRequest(op[w]) = "none"
  PROVE  /\ op[w].kind \in Statements => op[w].req = "statement"
         /\ op[w].kind = "Commit" => op[w].req = "MtCommit"
         /\ op[w].kind = "Rollback" => op[w].req = "MtRollback"
<1>1. op[w].req \in RequestsOf(op[w].kind)
  BY Zenon DEF Answered, CallsInv, Sane
<1>2. op[w].req \notin {"connect", "setSchema"}
  <2>1. FirstRequest(op[w].kind) # "none"
    BY FirstRequestType DEF Requests, AutoCommit
  <2> QED
    BY <2>1 DEF NextRequest
<1>3. /\ op[w].kind \in Statements => FirstRequest(op[w].kind) = "statement" /\ op[w].kind # "BeginTx"
      /\ FirstRequest("Commit") = "MtCommit" /\ FirstRequest("Rollback") = "MtRollback"
  BY FirstRequests DEF Statements
<1> QED
  BY <1>1, <1>2, <1>3 DEF RequestsOf, Switching

\* Which calls become successful.
LEMMA OkMoves ==
  ASSUME TypeOK, OneAtATime, CallsInv, Next, ~cancelled', ~cut',
         NEW w \in Ops, op'[w].res = "ok", op'[w].kind \in Statements \cup Ending
  PROVE  \/ w \in 1 .. n /\ op[w].res = "ok" /\ op'[w].kind = op[w].kind /\ op'[w].tx = op[w].tx
         \/ /\ Answered(w) /\ NextRequest(op[w]) = "none" /\ Head(repQ).ok /\ ~cut
            /\ w = cur /\ op'[w].kind = op[w].kind /\ op'[w].tx = op[w].tx
<1>0. ~cancelled /\ ~cut
  BY Sticky
<1>1. ASSUME op'[w] = op[w]
      PROVE  w \in 1 .. n /\ op[w].res = "ok" /\ op'[w].kind = op[w].kind /\ op'[w].tx = op[w].tx
  <2>1. w > n => op[w] = Idle
    BY Zenon DEF CallsInv, Sane
  <2>2. op[w].res = "ok" => op[w] # Idle
    BY DEF Idle
  <2>3. ~(w > n) => w <= n
    BY CallsSoFar DEF Ops
  <2> QED
    BY Zenon, <1>1, <2>1, <2>2, <2>3, CallsSoFar
<1>2. CASE Made
  <2>1. CASE w = n + 1
    <3>1. Fresh(op'[w])
      BY <1>2, <2>1 DEF Made, Now
    <3> QED
      BY Zenon, <3>1 DEF Fresh, Statements, Ending
  <2>2. CASE w # n + 1
    BY <1>1, <1>2, <2>2 DEF Made, TypeOK
  <2> QED
    BY Zenon, <2>1, <2>2
<1>3. CASE Returned \/ Others \/ SessionEnd \/ \E ok \in BOOLEAN, a \in Attrs : Serve(ok, a)
  <2>1. op' = op
    BY Zenon, <1>3 DEF Returned, Others, Reuse, Release, Close, Cancel, SessionEnd, Serve
  <2> QED
    BY Zenon, <1>1, <2>1
<1>4. ASSUME NEW v \in Ops,
             Switched(v) \/ Loaded(v) \/ Written(v) \/ Unwritten(v) \/ Answered(v) \/ Unread(v)
      PROVE  \/ w \in 1 .. n /\ op[w].res = "ok" /\ op'[w].kind = op[w].kind /\ op'[w].tx = op[w].tx
             \/ /\ Answered(w) /\ NextRequest(op[w]) = "none" /\ Head(repQ).ok /\ ~cut
                /\ w = cur /\ op'[w].kind = op[w].kind /\ op'[w].tx = op[w].tx
  <2>1. /\ v = cur /\ cur \in Ops /\ Now = op[cur] /\ Now' = op'[cur] /\ Now.res = "none"
        /\ Now'.kind = Now.kind /\ Now'.tx = Now.tx
        /\ \A x \in Ops : x # cur => op'[x] = op[x]
    BY Zenon, <1>0, <1>4, StepNow
  <2>2. CASE w # cur
    BY Zenon, <1>1, <2>1, <2>2
  <2>3. CASE w = cur
    <3>1. op'[v].res = "ok" /\ op[v].res = "none"
      BY Zenon, <2>1, <2>3
    <3>2. ~Switched(v) /\ ~Loaded(v) /\ ~Written(v)
      BY Zenon, <3>1 DEF Switched, Loaded, Written, On, Over
    <3>3. ~Unwritten(v) /\ ~Unread(v)
      BY Zenon, <3>1 DEF Unwritten, Unread, Ended, Over
    <3>4. NextRequest(op[v]) = "none" /\ Head(repQ).ok
      BY Zenon, <1>0, <1>4, <3>1, <3>2, <3>3 DEF Answered, On, Ended, Over
    <3> QED
      BY Zenon, <1>0, <1>4, <2>1, <2>3, <3>2, <3>3, <3>4
  <2> QED
    BY Zenon, <2>2, <2>3
<1> QED
  BY Zenon, <1>2, <1>3, <1>4, NextMoves

\* AutoCommitted survives: a good reply to a statement outside a transaction tells that it is durable.
LEMMA AutoCommittedStep ==
  ASSUME TypeOK, OneAtATime, CallsInv, Answer, AutoCommitted, Next, ~cancelled', ~cut'
  PROVE  AutoCommitted'
<1>0. ~cancelled /\ ~cut /\ durable \subseteq durable'
  <2>1. \A ok \in BOOLEAN, a \in Attrs : Serve(ok, a) => durable \subseteq durable'
    BY DEF Serve
  <2> QED
    BY <2>1, Sticky, DurableMoves
<1> SUFFICES ASSUME NEW w \in Ops, op'[w].kind \in Statements, op'[w].res = "ok", op'[w].tx = 0
             PROVE  w \in durable'
  BY DEF AutoCommitted
<1>1. CASE op[w].res = "ok" /\ op'[w].kind = op[w].kind /\ op'[w].tx = op[w].tx
  BY <1>0, <1>1 DEF AutoCommitted
<1>2. CASE /\ Answered(w) /\ NextRequest(op[w]) = "none" /\ Head(repQ).ok /\ ~cut
           /\ w = cur /\ op'[w].kind = op[w].kind /\ op'[w].tx = op[w].tx
  <2>1. op[w].req = "statement" /\ op[w].pc = "read" /\ ~rdErr /\ hold # "closed" /\ repQ # <<>>
    BY Zenon, <1>2, EndsWell DEF Answered
  <2>2. cur # 0 /\ Now = op[w] /\ Now.tx = sqlTx /\ repQ[1] = Head(repQ)
    BY <1>2, <2>1 DEF CallsInv, Caller, Now, Ops, TypeOK
  <2> QED
    BY <1>0, <1>2, <2>1, <2>2 DEF Answer
<1> QED
  BY Zenon, <1>1, <1>2, OkMoves

\* The inductive invariant behind AutoCommitted and PoolClean.
DoneInv == CommitInv /\ (~cancelled /\ ~cut => Answer /\ Clean /\ StillPending /\ AutoCommitted)

\* Every step keeps the invariant behind AutoCommitted and PoolClean.
LEMMA DoneNext ==
  ASSUME DoneInv, [Next]_vars
  PROVE  DoneInv'
<1>1. TypeOK /\ OneAtATime /\ CallsInv /\ CommitInv' /\ (~cancelled => InTx /\ Sound)
  BY CommitNext DEF DoneInv, CommitInv, OneInv, One
<1>2. CASE Next
  <2>1. ASSUME ~cancelled', ~cut' PROVE (Answer /\ Clean /\ StillPending /\ AutoCommitted)'
    <3>1. ~cancelled /\ ~cut
      BY <1>1, <1>2, <2>1, Sticky
    <3> QED
      BY <1>1, <1>2, <2>1, <3>1, AnswerStep, CleanStep, StillPendingStep, AutoCommittedStep DEF DoneInv
  <2> QED
    BY <1>1, <2>1 DEF DoneInv
<1>3. CASE UNCHANGED vars
  <2>1. UNCHANGED <<cur, hold, sqlTx, op, cancelled, wrErr, rdErr, up, reqQ, repQ, cut, pend, durable,
                    ranAs>>
    BY <1>3 DEF vars, sqlVars, sessVars, netVars, srvVars
  <2>2. (Answer' <=> Answer) /\ (StillPending' <=> StillPending) /\ (AutoCommitted' <=> AutoCommitted)
    BY Zenon, <2>1 DEF Answer, StillPending, AutoCommitted, Now
  <2>3. Clean' <=> Clean
    BY Zenon, <2>1 DEF Clean, Usable, OwnStatements, NoStatements, Closing, Worked, At, Now
  <2> QED
    BY <1>1, <2>1, <2>2, <2>3 DEF DoneInv
<1> QED
  BY <1>2, <1>3

\* It holds at first.
LEMMA DoneInit == Init => DoneInv
<1> SUFFICES ASSUME Init PROVE DoneInv
  OBVIOUS
<1>1. CommitInv
  BY CommitInit
<1>2. /\ cur = 0 /\ hold = "held" /\ sqlTx = 0 /\ op = [w \in Ops |-> Idle]
      /\ reqQ = <<>> /\ pend = {}
  BY DEF Init
<1>3. Answer /\ StillPending /\ AutoCommitted
  BY <1>2 DEF Answer, StillPending, AutoCommitted, Idle
<1>4. Clean
  BY <1>2 DEF Clean, OwnStatements, Closing, Worked, At
<1> QED
  BY <1>1, <1>3, <1>4 DEF DoneInv

\* As long as no context was cancelled and no reply was left half read, a statement that returned
\* without an error outside a transaction is durable.
THEOREM AutoCommitIsDurable == Spec => []AutoCommitted
<1>1. DoneInv => AutoCommitted
  BY DEF DoneInv, AutoCommitted
<1> QED
  BY <1>1, DoneInit, DoneNext, PTL DEF Spec

\* A connection in the pool is clean, whatever happened on it before: IsValid and ErrBadConn keep
\* every other one out.
THEOREM PoolIsClean == Spec => []PoolClean
<1>1. ASSUME DoneInv PROVE PoolClean
  <2> SUFFICES ASSUME hold = "pool", cur = 0 PROVE PoolClean
    BY DEF PoolClean
  <2>1. TypeOK /\ OneAtATime /\ sqlTx = 0 /\ ~cancelled
    BY <1>1 DEF DoneInv, CommitInv, OneInv, One, CallsInv, Caller
  <2>2. ~inTx
    BY <1>1, <2>1 DEF DoneInv, CommitInv, InTx, Closing, Begun
  <2>3. \A w \in Ops : op[w].pc \notin Running
    BY <2>1 DEF OneAtATime, Ops
  <2>4. ~cut => pend = {}
    BY <1>1, <2>1 DEF DoneInv, Clean, Usable
  <2>5. ~cut => rdErr \/ (reqQ = <<>> /\ repQ = <<>>)
    BY <2>1 DEF OneAtATime
  <2> QED
    BY <2>1, <2>2, <2>3, <2>4, <2>5 DEF PoolClean
<1> QED
  BY <1>1, DoneInit, DoneNext, PTL DEF Spec

=============================================================================
