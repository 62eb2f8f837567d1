---------------------------- MODULE CommitProofs ----------------------------
(***************************************************************************)
(* A transaction becomes durable by its Commit only, for every number of   *)
(* calls, every choice of them and every failure on the way.               *)
(***************************************************************************)
EXTENDS CallProofs

-----------------------------------------------------------------------------
(* A transaction is committed by its Commit only.                          *)

\* The call in progress has ended the transaction in use.
Closing == cur # 0 /\ Now.kind \in Ending /\ Now.pc = "done"
\* ... has opened one.
Begun == cur # 0 /\ Now.kind = "BeginTx" /\ Now.res = "ok"

\* session.inTx tells whether there is a transaction, and a request of a transaction does not
\* carry the commit flag.
InTx ==
  /\ inTx <=> (sqlTx # 0 /\ ~Closing) \/ Begun
  /\ cur # 0 /\ Now.kind = "BeginTx" => sqlTx = 0
  /\ cur # 0 /\ Now.pc \in {"write", "read"} => (Now.commit <=> Now.req \in AutoCommit /\ sqlTx = 0)

\* A session never forgets that it was cancelled, nor the decoder that it is out of step.
LEMMA Sticky ==
  ASSUME TypeOK, Next
  PROVE  (cancelled => cancelled') /\ (cut => cut')
<1>1. CASE Made
  BY <1>1 DEF Made, netVars
<1>2. CASE Returned \/ Others \/ SessionEnd
  BY <1>2 DEF Returned, Others, Reuse, Release, Close, Cancel, SessionEnd, sessVars, netVars
<1>3. CASE \E ok \in BOOLEAN, a \in Attrs : Serve(ok, a)
  BY <1>3 DEF Serve, sessVars
<1> QED
  BY <1>1, <1>2, <1>3, NextMoves
  DEF Switched, Loaded, Written, Unwritten, Answered, Unread, Keeps, netVars

\* Without a cancelled context a step of a goroutine is one of the call in progress.
LEMMA StepOfCall ==
  ASSUME TypeOK, OneAtATime, ~cancelled, NEW w \in Ops, op[w].pc \in Running
  PROVE  w = cur /\ cur \in Ops /\ cur # 0 /\ Now = op[w]
BY DEF OneAtATime, Now, Ops

\* What a step of the call in progress does to it.
LEMMA NowMoves ==
  ASSUME TypeOK, cur \in Ops, Keeps(cur)
  PROVE  /\ Now' = op'[cur] /\ cur' = cur /\ Now'.kind = Now.kind /\ Now'.tx = Now.tx
         /\ Now'.arg = Now.arg /\ UNCHANGED <<n, sqlTx, hold, committed, cancelled>>
BY DEF Keeps, Now, sqlVars

\* Every step keeps session.inTx in line with database/sql.
LEMMA InTxStep ==
  ASSUME TypeOK, OneAtATime, CallsInv, InTx, Next, ~cancelled'
  PROVE  InTx'
<1>0. ~cancelled
  BY Sticky
<1>1. CASE Made
  <2>1. Fresh(Now') /\ cur = 0 /\ cur' # 0 /\ sqlTx' = sqlTx /\ (inTx <=> sqlTx # 0)
    BY <1>1 DEF Made, InTx, Closing, Begun, Ops
  <2>2. Now'.pc \in {"write", "read"} => Now'.req \notin AutoCommit
    BY <2>1 DEF Fresh, Before
  <2>3. Now'.commit = FALSE
    BY <2>1 DEF Fresh
  <2>4. ~Begun' /\ (Closing' <=> Now'.kind \in Ending /\ Now'.pc = "done")
    BY <2>1 DEF Fresh, Begun, Closing, Switching
  <2>5. inTx' <=> inTx /\ ~Closing'
    <3>1. CASE Now'.kind \in Ending
      <4>1. inTx' = IF Now'.pc = "done" THEN FALSE ELSE inTx
        BY Zenon, <1>1, <3>1 DEF Made
      <4> QED
        BY <2>4, <3>1, <4>1
    <3>2. CASE Now'.kind \notin Ending
      <4>1. inTx' = inTx
        BY <1>1, <3>2 DEF Made
      <4> QED
        BY <2>4, <3>2, <4>1
    <3> QED
      BY <3>1, <3>2
  <2>6. Now'.kind = "BeginTx" => sqlTx = 0
    BY <1>1, <2>1 DEF Made
  <2>7. Closing' => sqlTx # 0
    BY Zenon, <1>1, <2>4 DEF Made
  <2> QED
    BY <2>1, <2>2, <2>3, <2>4, <2>5, <2>6, <2>7 DEF InTx
<1>2. CASE Returned
  <2>1. cur' = 0 /\ inTx' = inTx /\ cur # 0 /\ Now.pc = "done"
    BY <1>2 DEF Returned, sessVars
  <2>2. inTx <=> sqlTx' # 0
    BY <1>2, <2>1 DEF Returned, InTx, Closing, Begun, Ending
  <2> QED
    BY <2>1, <2>2 DEF InTx, Closing, Begun
<1>3. CASE Others
  <2>1. ~Cancel
    BY <1>0 DEF Cancel
  <2>2. cur = 0 /\ cur' = 0 /\ sqlTx' = sqlTx /\ inTx' = inTx
    BY <1>3, <2>1 DEF Others, Reuse, Release, Close, sessVars
  <2> QED
    BY <2>2 DEF InTx, Closing, Begun
<1>4. ASSUME NEW w \in Ops,
             Switched(w) \/ Loaded(w) \/ Written(w) \/ Unwritten(w) \/ Answered(w) \/ Unread(w)
      PROVE  InTx'
  <2>1. Keeps(w) /\ op[w].pc \in Running
    BY <1>4 DEF Switched, Loaded, Written, Unwritten, Answered, Unread, Running
  <2>2. w = cur /\ cur \in Ops /\ cur # 0 /\ Now = op[cur]
    BY <1>0, <2>1, StepOfCall
  <2>3. /\ Now' = op'[cur] /\ cur' = cur /\ Now'.kind = Now.kind /\ sqlTx' = sqlTx
        /\ Now.pc # "done" /\ ~Closing /\ ~Begun
    BY <2>1, <2>2, NowMoves DEF Running, Closing, Begun, CallsInv, Sane
  <2>4. ASSUME NEW r, Over(cur, r), Outcome(cur, r) PROVE InTx'
    BY <2>2, <2>3, <2>4 DEF InTx, Over, Outcome, Closing, Begun, Ending
  <2>5. ASSUME NEW r, On(cur, r) PROVE InTx'
    BY <2>2, <2>3, <2>5 DEF InTx, On, Before, Closing, Begun
  <2>6. CASE Switched(w)
    <3>1. CASE Over(w, "err")
      <4>1. Now.kind \notin Ending /\ inTx' = inTx
        BY <2>2, <2>6 DEF Switched, CallsInv, Sane, Switching, Ending
      <4> QED
        BY <2>2, <2>3, <3>1, <4>1 DEF InTx, Over, Closing, Begun
    <3> QED
      BY <2>2, <2>5, <2>6, <3>1 DEF Switched
  <2>7. CASE Loaded(w)
    <3>1. Now.kind \notin Ending /\ Now.req \in AutoCommit
      BY <2>2, <2>7 DEF Loaded, CallsInv, Sane, RequestsOf, FirstRequest, Switching, AutoCommit, Ending
    <3>2. Now'.pc = "write" /\ (Now'.commit <=> ~inTx) /\ Now'.req = Now.req /\ inTx' = inTx
          /\ Now'.res = Now.res
      BY Zenon, <2>2, <2>3, <2>7 DEF Loaded
    <3> QED
      BY <2>2, <2>3, <3>1, <3>2 DEF InTx, Closing, Begun
  <2>8. CASE Written(w)
    <3>1. /\ Now.pc = "write" /\ Now'.pc = "read" /\ Now'.commit = Now.commit
          /\ Now'.req = Now.req /\ inTx' = inTx /\ Now'.res = Now.res
      BY <2>2, <2>3, <2>8 DEF Written
    <3> QED
      BY <2>2, <2>3, <3>1 DEF InTx, Closing, Begun
  <2>9. CASE Unwritten(w) \/ Answered(w) \/ Unread(w)
    BY <2>2, <2>4, <2>5, <2>9 DEF Unwritten, Answered, Unread, Ended
  <2> QED
    BY <1>4, <2>6, <2>7, <2>8, <2>9
<1>5. CASE (\E ok \in BOOLEAN, a \in Attrs : Serve(ok, a)) \/ SessionEnd
  <2>1. UNCHANGED <<cur, op, sqlTx, inTx>>
    BY Zenon, <1>5 DEF Serve, SessionEnd, sqlVars, sessVars
  <2> QED
    BY <2>1 DEF InTx, Closing, Begun, Now
<1> QED
  BY <1>1, <1>2, <1>3, <1>4, <1>5, NextMoves

\* A message on the stream is a request of its call, with the commit flag of a call outside a
\* transaction, or recognisably broken.
SoundMsg(m) ==
  m.op # 0 /\ m.req # "garbage" =>
    /\ m.commit <=> m.req \in AutoCommit /\ op[m.op].tx = 0
    /\ m.req \in RequestsOf(op[m.op].kind)
\* All messages on the stream are.
Sound == \A i \in DOMAIN reqQ : SoundMsg(reqQ[i])

\* How a step changes the requests on the stream.
QueueMoves ==
  \/ reqQ' = reqQ
  \/ \E w \in Ops : Written(w)
  \/ /\ Close /\ hold' = "closed"
     /\ reqQ' = Append(reqQ, [op |-> 0, req |-> "MtDisconnect", commit |-> FALSE,
                              schema |-> NoSchema])
  \/ reqQ # <<>> /\ reqQ' = Tail(reqQ)
  \/ reqQ' = <<>>

\* Every step changes the stream in one of these ways.
LEMMA NextQueue ==
  ASSUME TypeOK, Next
  PROVE  QueueMoves
<1>1. CASE Made \/ Returned
  BY Zenon, <1>1 DEF Made, Returned, QueueMoves, netVars
<1>2. CASE Others
  BY <1>2 DEF Others, Reuse, Release, Close, Cancel, QueueMoves, netVars
<1>3. CASE (\E ok \in BOOLEAN, a \in Attrs : Serve(ok, a)) \/ SessionEnd
  BY Zenon, <1>3 DEF Serve, SessionEnd, QueueMoves
<1>4. ASSUME NEW w \in Ops, Switched(w) \/ Loaded(w) \/ Unwritten(w) \/ Answered(w) \/ Unread(w)
      PROVE  QueueMoves
  BY <1>4 DEF Switched, Loaded, Unwritten, Answered, Unread, QueueMoves, netVars
<1> QED
  BY Zenon, <1>1, <1>2, <1>3, <1>4, NextMoves DEF QueueMoves

\* Message i of a queue that has lost its head.
LEMMA TailMessage ==
  ASSUME TypeOK, reqQ # <<>>, reqQ' = Tail(reqQ)
  PROVE  /\ Len(reqQ') = Len(reqQ) - 1 /\ 1 \in DOMAIN reqQ /\ Head(reqQ) = reqQ[1]
         /\ DOMAIN reqQ' = 1 .. Len(reqQ) - 1 /\ DOMAIN reqQ = 1 .. Len(reqQ)
         /\ \A i \in DOMAIN reqQ' : i + 1 \in DOMAIN reqQ /\ reqQ'[i] = reqQ[i + 1]
BY DEF TypeOK

\* Message i of a queue to which m was added.
LEMMA AppendMessage ==
  ASSUME TypeOK, NEW m, reqQ' = Append(reqQ, m)
  PROVE  /\ Len(reqQ') = Len(reqQ) + 1
         /\ DOMAIN reqQ' = 1 .. Len(reqQ) + 1 /\ DOMAIN reqQ = 1 .. Len(reqQ)
         /\ \A i \in DOMAIN reqQ : i \in DOMAIN reqQ' /\ reqQ'[i] = reqQ[i]
         /\ reqQ'[Len(reqQ) + 1] = m
BY DEF TypeOK

\* Every step keeps the messages sound.
LEMMA SoundStep ==
  ASSUME TypeOK, OneAtATime, CallsInv, InTx, Sound, Next, ~cancelled'
  PROVE  Sound'
<1>0. ~cancelled
  BY Sticky
<1>1. ASSUME NEW i \in DOMAIN reqQ
      PROVE  /\ reqQ[i].op # 0 /\ reqQ[i].req # "garbage" =>
                  /\ reqQ[i].commit <=> reqQ[i].req \in AutoCommit /\ op'[reqQ[i].op].tx = 0
                  /\ reqQ[i].req \in RequestsOf(op'[reqQ[i].op].kind)
  <2>1. reqQ[i].op \in Ops \cup {0} /\ reqQ[i].op <= n
    BY <1>1, Messages DEF CallsInv, Known
  <2>2. reqQ[i].op # 0 => reqQ[i].op \in 1 .. n
    BY <2>1 DEF Ops, TypeOK
  <2>3. SoundMsg(reqQ[i])
    BY <1>1 DEF Sound
  <2> QED
    BY <2>2, <2>3, Stable DEF SoundMsg
<1>2. CASE reqQ' = reqQ
  BY <1>1, <1>2 DEF Sound, SoundMsg
<1>3. ASSUME NEW w \in Ops, Written(w) PROVE Sound'
  <2>1. w = cur /\ Now = op[cur] /\ Keeps(w) /\ Now.pc = "write"
    BY <1>0, <1>3, StepOfCall DEF Written, Running
  <2>2. op'[w].tx = sqlTx /\ op'[w].kind = op[w].kind
    BY <2>1 DEF Keeps, CallsInv, Caller, Ops
  <2>3. Message(w).op = w /\ Message(w).req \in {op[w].req, "garbage"} /\ Message(w).commit = op[w].commit
    BY DEF Message
  <2>4. op[w].commit <=> op[w].req \in AutoCommit /\ sqlTx = 0
    BY <2>1 DEF InTx, Ops
  <2>5. op[w].req \in RequestsOf(op[w].kind)
    BY <2>1 DEF CallsInv, Sane
  <2>6. reqQ' = Append(reqQ, Message(w))
    BY <1>3 DEF Written
  <2>7. ASSUME NEW i \in DOMAIN reqQ' PROVE (i \in DOMAIN reqQ /\ reqQ'[i] = reqQ[i]) \/ reqQ'[i] = Message(w)
    BY <2>6, <2>7, AppendMessage
  <2> QED
    BY <1>1, <2>2, <2>3, <2>4, <2>5, <2>7 DEF Sound, SoundMsg
<1>4. ASSUME NEW m, m.op = 0, reqQ' = Append(reqQ, m) PROVE Sound'
  <2>1. ASSUME NEW i \in DOMAIN reqQ' PROVE (i \in DOMAIN reqQ /\ reqQ'[i] = reqQ[i]) \/ reqQ'[i] = m
    BY <1>4, <2>1, AppendMessage
  <2> QED
    BY <1>1, <1>4, <2>1 DEF Sound, SoundMsg
<1>5. CASE reqQ # <<>> /\ reqQ' = Tail(reqQ)
  BY <1>1, <1>5, TailMessage DEF Sound, SoundMsg
<1>6. CASE reqQ' = <<>>
  BY <1>6 DEF Sound
<1> QED
  <2> DEFINE m == [op |-> 0, req |-> "MtDisconnect", commit |-> FALSE, schema |-> NoSchema]
  <2>1. m.op = 0
    OBVIOUS
  <2>2. reqQ' = Append(reqQ, m) => Sound'
    <3> HIDE DEF m
    <3> QED
      BY <1>4, <2>1
  <2> QED
    BY <1>2, <1>3, <1>5, <1>6, <2>2, NextQueue DEF QueueMoves

\* Work of a transaction the application has not asked to commit.
Dirty(w) == op[w].tx # 0 /\ op[w].tx \notin committed

\* Call w has work at the server (i = 0), or its statement is request i on the stream.
At(w, i) == \/ i = 0 /\ w \in pend
            \/ i \in DOMAIN reqQ /\ reqQ[i].req = "statement" /\ reqQ[i].op = w

\* The server commits what is pending when it serves m.
Commits(m) == m.req # "garbage" /\ (m.commit \/ m.req = "MtCommit")

\* A rollback follows request i, not later than request j.
Rolled(i, j) == \E k \in DOMAIN reqQ : i < k /\ k <= j /\ reqQ[k].req = "MtRollback"

\* The end of the transaction in use is on its way.
Shut == cur # 0 /\ Now.kind \in Ending /\ Now.pc \in {"read", "done"}

\* Dirty work is rolled back before a request on the stream can commit it.
NotCommitted(w, i, j) == At(w, i) /\ Dirty(w) /\ i <= j /\ Commits(reqQ[j]) => Rolled(i, j - 1)

\* It is of the transaction in use or rolled back, or nothing is written any more.
RolledBack(w, i) ==
  At(w, i) /\ Dirty(w) /\ wrErr = "no" => (op[w].tx = sqlTx /\ ~Shut) \/ Rolled(i, Len(reqQ))

\* The order of the requests on the stream protects all dirty work.
Order ==
  \A w \in Ops, i \in 0 .. Len(reqQ) :
    RolledBack(w, i) /\ \A j \in DOMAIN reqQ : NotCommitted(w, i, j)

\* Only calls that were made have work at the server or on the stream.
LEMMA AtKnown ==
  ASSUME TypeOK, CallsInv, NEW w \in Ops, NEW i, At(w, i)
  PROVE  w \in 1 .. n
BY DEF At, CallsInv, Known, TypeOK, Ops

\* What was dirty stays so as long as the stream does, unless the application asks to commit it.
LEMMA OrderFrame ==
  ASSUME TypeOK, CallsInv, Order, Next, reqQ' = reqQ, pend' = pend, committed \subseteq committed',
         \A w \in Ops : op[w].tx = sqlTx /\ ~Shut /\ Dirty(w) /\ ~(op[w].tx \in committed')
                          /\ wrErr' = "no" => sqlTx' = sqlTx /\ ~Shut',
         wrErr' = "no" => wrErr = "no"
  PROVE  Order'
<1> SUFFICES ASSUME NEW w \in Ops, NEW i \in 0 .. Len(reqQ)
             PROVE  RolledBack(w, i)' /\ \A j \in DOMAIN reqQ : NotCommitted(w, i, j)'
  BY DEF Order
<1>1. At(w, i)' => At(w, i) /\ w \in 1 .. n
  BY AtKnown DEF At
<1>2. w \in 1 .. n => op'[w].tx = op[w].tx
  BY Stable
<1>3. At(w, i)' /\ Dirty(w)' => At(w, i) /\ Dirty(w)
  BY <1>1, <1>2 DEF Dirty
<1>4. \A a, b : Rolled(a, b)' <=> Rolled(a, b)
  BY DEF Rolled
<1>5. ASSUME NEW j \in DOMAIN reqQ PROVE NotCommitted(w, i, j)'
  <2>1. NotCommitted(w, i, j)
    BY DEF Order
  <2> QED
    BY <1>3, <2>1 DEF NotCommitted, Commits, Rolled
<1>6. RolledBack(w, i)'
  <2>1. RolledBack(w, i)
    BY DEF Order
  <2> QED
    BY <1>1, <1>2, <1>3, <2>1 DEF RolledBack, Rolled, Dirty
<1> QED
  BY <1>5, <1>6

\* The same for a step that puts message m on the stream.
LEMMA OrderAppend ==
  ASSUME TypeOK, CallsInv, Order, Next, NEW m, reqQ' = Append(reqQ, m),
         pend' = pend, committed' = committed, sqlTx' = sqlTx, wrErr' = wrErr,
         Commits(m) => wrErr = "no" /\ \A w \in Ops : op[w].tx = sqlTx => ~Dirty(w),
         m.req = "statement" => m.op \in 1 .. n /\ op[m.op].tx = sqlTx /\ ~Shut',
         \A w \in Ops : op[w].tx = sqlTx /\ Dirty(w) /\ ~Shut /\ wrErr = "no" =>
                          ~Shut' \/ m.req = "MtRollback"
  PROVE  Order'
<1> SUFFICES ASSUME NEW w \in Ops, NEW i \in 0 .. Len(reqQ) + 1
             PROVE  RolledBack(w, i)' /\ \A j \in 1 .. Len(reqQ) + 1 : NotCommitted(w, i, j)'
  BY AppendMessage DEF Order
<1>9. PICK L \in Nat : L = Len(reqQ)
  BY Zenon, Messages
<1>0. /\ L = Len(reqQ) /\ Len(reqQ') = L + 1 /\ DOMAIN reqQ' = 1 .. L + 1 /\ DOMAIN reqQ = 1 .. L
      /\ (\A k \in 1 .. L : reqQ'[k] = reqQ[k]) /\ reqQ'[L + 1] = m
  BY <1>9, AppendMessage
<1>1. w \in 1 .. n => op'[w].tx = op[w].tx /\ (Dirty(w)' <=> Dirty(w))
  BY Stable DEF Dirty
<1>2. \A b \in 0 .. L : Rolled(i, b) => Rolled(i, b)' /\ Rolled(i, L + 1)'
  BY <1>0 DEF Rolled
<1>3. CASE i \in 0 .. L
  <2>1. At(w, i)' /\ Dirty(w)' => At(w, i) /\ w \in 1 .. n /\ Dirty(w)
    BY <1>0, <1>1, <1>3, AtKnown DEF At
  <2>2. RolledBack(w, i) /\ \A j \in 1 .. L : NotCommitted(w, i, j)
    BY <1>0, <1>3 DEF Order
  <2>3. RolledBack(w, i)'
    <3> SUFFICES ASSUME At(w, i)', Dirty(w)', wrErr' = "no"
                 PROVE  (op[w].tx = sqlTx /\ ~Shut') \/ Rolled(i, L + 1)'
      BY <1>0, <1>1, <2>1 DEF RolledBack
    <3>1. (op[w].tx = sqlTx /\ ~Shut) \/ Rolled(i, L)
      BY <1>0, <2>1, <2>2 DEF RolledBack
    <3>2. m.req = "MtRollback" => Rolled(i, L + 1)'
      BY <1>0, <1>3 DEF Rolled
    <3> QED
      BY <1>0, <1>2, <2>1, <3>1, <3>2
  <2>4. ASSUME NEW j \in 1 .. L PROVE NotCommitted(w, i, j)'
    BY <1>0, <1>2, <2>1, <2>2 DEF NotCommitted, Commits
  <2>5. NotCommitted(w, i, L + 1)'
    <3> SUFFICES ASSUME At(w, i)', Dirty(w)', Commits(m) PROVE Rolled(i, L)'
      BY <1>0 DEF NotCommitted, Commits
    <3> QED
      BY <1>0, <1>2, <2>1, <2>2 DEF RolledBack
  <2> QED
    BY <1>0, <2>3, <2>4, <2>5
<1>4. CASE i = L + 1
  <2>1. At(w, i)' => m.req = "statement" /\ m.op = w
    BY <1>0, <1>4 DEF At
  <2>2. RolledBack(w, i)'
    BY <1>1, <2>1 DEF RolledBack
  <2>3. ASSUME NEW j \in 1 .. L + 1 PROVE NotCommitted(w, i, j)'
    BY <1>0, <1>1, <1>4, <2>1, <2>3 DEF NotCommitted, Commits
  <2> QED
    BY <1>0, <2>2, <2>3
<1> QED
  BY <1>0, <1>3, <1>4

\* ... and for one that takes the first message off the stream, as the server does.
LEMMA OrderTail ==
  ASSUME TypeOK, CallsInv, Order, Next, reqQ # <<>>, reqQ' = Tail(reqQ),
         committed' = committed, sqlTx' = sqlTx, wrErr' = wrErr, Shut' <=> Shut,
         Head(reqQ).req = "MtRollback" => pend' = {},
         \A w \in pend' : w \in pend \/ (Head(reqQ).req = "statement" /\ Head(reqQ).op = w)
  PROVE  Order'
<1>0. PICK L \in Nat : L = Len(reqQ)
  BY Zenon, Messages
<1>1. /\ Len(reqQ') = L - 1 /\ DOMAIN reqQ' = 1 .. L - 1 /\ DOMAIN reqQ = 1 .. L /\ L > 0
      /\ (\A k \in 1 .. L - 1 : reqQ'[k] = reqQ[k + 1]) /\ Head(reqQ) = reqQ[1]
  BY <1>0, TailMessage
<1> SUFFICES ASSUME NEW w \in Ops, NEW i \in 0 .. L - 1, At(w, i)', Dirty(w)'
             PROVE  RolledBack(w, i)' /\ \A j \in 1 .. L - 1 : NotCommitted(w, i, j)'
  BY <1>1 DEF Order, RolledBack, NotCommitted
<1>2. PICK h \in 0 .. L : /\ At(w, h) /\ h <= i + 1
                          /\ \A b \in 1 .. L : Rolled(h, b) => Rolled(i, b - 1)'
  <2>1. CASE i # 0 \/ w \notin pend'
    <3>1. At(w, i + 1)
      BY <1>1, <2>1 DEF At
    <3>2. ASSUME NEW b \in 1 .. L, Rolled(i + 1, b) PROVE Rolled(i, b - 1)'
      <4>1. PICK k \in 1 .. L : i + 1 < k /\ k <= b /\ reqQ[k].req = "MtRollback"
        BY <1>1, <3>2 DEF Rolled
      <4>2. k - 1 \in 1 .. L - 1 /\ i < k - 1 /\ k - 1 <= b - 1 /\ reqQ'[k - 1] = reqQ[k]
        BY <1>1, <4>1
      <4> QED
        BY Zenon, <1>1, <4>1, <4>2 DEF Rolled
    <3> QED
      BY <3>1, <3>2
  <2>2. CASE i = 0 /\ w \in pend'
    <3>1. reqQ[1].req # "MtRollback"
      BY <1>1, <2>2
    <3>2. ASSUME NEW h \in {0, 1}, NEW b \in 1 .. L, Rolled(h, b) PROVE Rolled(i, b - 1)'
      <4>1. PICK k \in 1 .. L : 1 < k /\ k <= b /\ reqQ[k].req = "MtRollback"
        BY <1>1, <3>1, <3>2 DEF Rolled
      <4>2. k - 1 \in 1 .. L - 1 /\ 0 < k - 1 /\ k - 1 <= b - 1 /\ reqQ'[k - 1] = reqQ[k]
        BY <1>1, <4>1
      <4> QED
        BY Zenon, <1>1, <2>2, <4>1, <4>2 DEF Rolled
    <3>3. At(w, 0) \/ At(w, 1)
      BY <1>1, <2>2 DEF At
    <3> QED
      BY <1>1, <2>2, <3>2, <3>3
  <2> QED
    BY <2>1, <2>2
<1>3. w \in 1 .. n /\ op'[w].tx = op[w].tx /\ Dirty(w)
  BY <1>2, AtKnown, Stable DEF Dirty
<1>4. RolledBack(w, h) /\ \A j \in 1 .. L : NotCommitted(w, h, j)
  BY <1>0, <1>1 DEF Order
<1>5. RolledBack(w, i)'
  BY <1>0, <1>1, <1>2, <1>3, <1>4 DEF RolledBack
<1>6. ASSUME NEW j \in 1 .. L - 1 PROVE NotCommitted(w, i, j)'
  <2>1. j + 1 \in 1 .. L /\ (i <= j => h <= j + 1) /\ reqQ'[j] = reqQ[j + 1] /\ j \in 1 .. L
    BY <1>1, <1>2, <1>6
  <2>2. NotCommitted(w, h, j + 1)
    BY <1>4, <2>1
  <2>3. i <= j /\ Commits(reqQ[j + 1]) => Rolled(h, j)
    BY <1>2, <1>3, <2>1, <2>2 DEF NotCommitted
  <2>4. Rolled(h, j) => Rolled(i, j - 1)'
    BY <1>2, <2>1
  <2> QED
    BY Zenon, <2>1, <2>3, <2>4 DEF NotCommitted, Commits
<1> QED
  BY <1>5, <1>6

\* The server adds no work but that of the statement it serves, and a request that ends the
\* transaction, or carries the commit flag, leaves none.
LEMMA ServePending ==
  ASSUME NEW ok \in BOOLEAN, NEW a \in Attrs, Serve(ok, a)
  PROVE  /\ pend' = {} \/ pend' = pend \/ (Head(reqQ).req = "statement" /\ pend' = pend \cup {Head(reqQ).op})
         /\ Head(reqQ).req \in {"MtCommit", "MtRollback", "MtDisconnect"} => pend' = {}
         /\ ok /\ Head(reqQ).commit => pend' = {}
         /\ ~ok => pend' \subseteq pend
<1>1. PICK e : /\ e = IF Head(reqQ).req = "statement" THEN {Head(reqQ).op} ELSE {}
               /\ pend' = IF \/ Head(reqQ).req \in {"MtCommit", "MtRollback", "MtDisconnect"}
                             \/ ok /\ Head(reqQ).commit
                          THEN {} ELSE IF ok THEN pend \cup e ELSE pend
  BY Zenon DEF Serve
<1> QED
  BY <1>1

\* Order is kept, whoever takes the step, as long as no context was cancelled.
LEMMA OrderStep ==
  ASSUME TypeOK, OneAtATime, CallsInv, InTx, Order, Next, ~cancelled'
  PROVE  Order'
<1>0. ~cancelled
  BY Sticky
<1>1. CASE Made
  <2>1. /\ cur = 0 /\ reqQ' = reqQ /\ pend' = pend /\ committed \subseteq committed'
        /\ sqlTx' = sqlTx /\ wrErr' = wrErr /\ Fresh(Now')
    BY Zenon, <1>1 DEF Made, netVars, srvVars
  <2>2. wrErr' = "no" => ~Shut'
    BY <1>0, <2>1 DEF Shut, Fresh, Before, Ending, isBad
  <2> QED
    BY <2>1, <2>2, OrderFrame
<1>2. CASE Returned
  <2>1. /\ reqQ' = reqQ /\ pend' = pend /\ committed' = committed /\ wrErr' = wrErr
        /\ cur' = 0 /\ cur # 0 /\ Now.pc = "done"
    BY <1>2 DEF Returned, netVars, srvVars, sessVars
  <2>2. ~Shut'
    BY <2>1 DEF Shut
  <2>3. ASSUME NEW w \in Ops, op[w].tx = sqlTx, ~Shut, Dirty(w) PROVE sqlTx' = sqlTx
    BY <1>2, <2>1, <2>3 DEF Returned, Shut, Dirty, InTx
  <2> QED
    BY <2>1, <2>2, <2>3, OrderFrame
<1>3. CASE Others
  <2>1. Reuse \/ Release \/ Close
    BY <1>0, <1>3 DEF Others, Cancel
  <2>2. /\ cur = 0 /\ cur' = 0 /\ pend' = pend /\ committed' = committed /\ sqlTx' = sqlTx
    BY <2>1 DEF Reuse, Release, Close, srvVars
  <2>3. ~Shut /\ ~Shut'
    BY <2>2 DEF Shut
  <2>4. CASE reqQ' = reqQ
    <3>1. wrErr' = "no" => wrErr = "no"
      BY <2>1 DEF Reuse, Release, Close, sessVars, isBad
    <3> QED
      BY <2>2, <2>3, <2>4, <3>1, OrderFrame
  <2>5. CASE Close /\ reqQ' # reqQ
    <3> DEFINE m == [op |-> 0, req |-> "MtDisconnect", commit |-> FALSE, schema |-> NoSchema]
    <3>1. /\ reqQ' = Append(reqQ, m) /\ wrErr' = wrErr
          /\ m.req # "statement" /\ m.req # "MtCommit" /\ m.commit = FALSE
      BY <2>5 DEF Close
    <3> HIDE DEF m
    <3>2. ~Commits(m)
      BY <3>1 DEF Commits
    <3> QED
      BY <2>2, <2>3, <3>1, <3>2, OrderAppend
  <2> QED
    BY <2>1, <2>4, <2>5 DEF Reuse, Release, netVars
<1>4. ASSUME NEW w \in Ops,
             Switched(w) \/ Loaded(w) \/ Written(w) \/ Unwritten(w) \/ Answered(w) \/ Unread(w)
      PROVE  Order'
  <2>1. Keeps(w) /\ op[w].pc \in Running
    BY Zenon, <1>4 DEF Switched, Loaded, Written, Unwritten, Answered, Unread, Running
  <2>2. w = cur /\ cur \in Ops /\ cur # 0 /\ Now = op[cur]
    BY <1>0, <2>1, StepOfCall
  <2>3. /\ Now' = op'[cur] /\ cur' = cur /\ Now'.kind = Now.kind /\ sqlTx' = sqlTx
        /\ committed' = committed /\ pend' = pend
    BY <2>1, <2>2, NowMoves DEF Keeps, srvVars
  <2>4. Now.tx = sqlTx /\ cur = n
    BY <2>2 DEF CallsInv, Caller
  <2>5. CASE Written(w)
    <3> DEFINE m == Message(w)
    <3>1. /\ reqQ' = Append(reqQ, m) /\ wrErr' = wrErr /\ Now.pc = "write" /\ wrErr # "io"
      BY Zenon, <2>2, <2>5 DEF Written
    <3>2. m.op = cur /\ m.req = (IF wrErr = "enc" THEN "garbage" ELSE Now.req) /\ m.commit = Now.commit
      BY <2>2 DEF Message
    <3>3. Now.req \in RequestsOf(Now.kind)
      BY <2>2, <3>1 DEF CallsInv, Sane
    <3>4. /\ Now.req = "MtCommit" => Now.kind = "Commit"
          /\ Now.kind \in Ending => Now.req \in {"MtCommit", "MtRollback"}
          /\ Now.req = "statement" => Now.kind \notin Ending
          /\ Now.kind = "Commit" => Now.req = "MtCommit"
      BY <3>3 DEF RequestsOf, FirstRequest, Ending, Switching
    <3>5. Now.kind = "Commit" => sqlTx \in committed
      BY <2>2, <2>4 DEF CallsInv, Sane
    <3>6. Now.commit => sqlTx = 0
      BY <2>2, <3>1 DEF InTx
    <3> HIDE DEF m
    <3>7. Commits(m) => wrErr = "no" /\ \A v \in Ops : op[v].tx = sqlTx => ~Dirty(v)
      BY <3>1, <3>2, <3>4, <3>5, <3>6 DEF Commits, Dirty, TypeOK
    <3>8. m.req = "statement" => ~Shut'
      BY <2>3, <3>2, <3>4 DEF Shut
    <3>9. ASSUME NEW v \in Ops, op[v].tx = sqlTx, Dirty(v), wrErr = "no", Shut'
          PROVE  m.req = "MtRollback"
      <4>1. Now.kind = "Rollback"
        BY <2>3, <3>5, <3>9 DEF Shut, Ending, Dirty
      <4> QED
        BY <3>2, <3>4, <3>9, <4>1 DEF Ending
    <3> QED
      BY <2>2, <2>3, <2>4, <3>1, <3>2, <3>7, <3>8, <3>9, OrderAppend DEF Ops
  <2>6. CASE ~Written(w)
    <3>1. reqQ' = reqQ /\ (wrErr' = "no" => wrErr = "no" /\ ~Unwritten(w))
      BY Zenon, <1>4, <2>6 DEF Switched, Loaded, Unwritten, Answered, Unread, netVars
    <3>2. wrErr' = "no" /\ ~Shut => ~Shut'
      <4>1. CASE Switched(w)
        BY Zenon, <2>2, <2>3, <4>1 DEF Switched, Shut, CallsInv, Sane, Switching, Ending
      <4>2. CASE Loaded(w)
        BY <2>2, <2>3, <4>2 DEF Loaded, Shut
      <4>3. CASE Answered(w) \/ Unread(w)
        BY <2>2, <2>3, <4>3 DEF Answered, Unread, Shut
      <4> QED
        BY <1>4, <2>6, <3>1, <4>1, <4>2, <4>3
    <3> QED
      BY <2>3, <3>1, <3>2, OrderFrame
  <2> QED
    BY <2>5, <2>6
<1>5. ASSUME NEW ok \in BOOLEAN, NEW a \in Attrs, Serve(ok, a) PROVE Order'
  <2>1. UNCHANGED <<cur, op, sqlTx, committed, wrErr>> /\ reqQ # <<>> /\ reqQ' = Tail(reqQ)
    BY <1>5 DEF Serve, sqlVars, sessVars
  <2>2. Head(reqQ).req = "MtRollback" => pend' = {}
    BY <1>5, ServePending
  <2>3. \A w \in pend' : w \in pend \/ (Head(reqQ).req = "statement" /\ Head(reqQ).op = w)
    BY <1>5, ServePending
  <2> QED
    BY Zenon, <2>1, <2>2, <2>3, OrderTail DEF Shut, Now
<1>6. CASE SessionEnd
  <2>1. pend' = {} /\ reqQ' = <<>>
    BY <1>6 DEF SessionEnd
  <2> QED
    BY <2>1 DEF Order, RolledBack, NotCommitted, At
<1> QED
  BY <1>1, <1>2, <1>3, <1>4, <1>5, <1>6, NextMoves

\* Which requests make work durable, and whose.
LEMMA ServeDurable ==
  ASSUME NEW ok \in BOOLEAN, NEW a \in Attrs, Serve(ok, a)
  PROVE  /\ durable' # durable => ok /\ Commits(Head(reqQ))
         /\ \A w \in durable' : \/ w \in durable \cup pend
                                \/ Head(reqQ).req = "statement" /\ Head(reqQ).op = w
BY DEF Serve, Commits

\* Only the server makes anything durable, and the application's request to commit is not forgotten.
LEMMA DurableMoves ==
  ASSUME TypeOK, Next
  PROVE  /\ durable' = durable \/ \E ok \in BOOLEAN, a \in Attrs : Serve(ok, a)
         /\ committed \subseteq committed'
<1>1. CASE Made
  BY Zenon, <1>1 DEF Made, srvVars
<1>2. CASE Returned \/ Others \/ SessionEnd
  BY <1>2 DEF Returned, Others, Reuse, Release, Close, Cancel, SessionEnd, sqlVars, srvVars
<1>3. CASE \E ok \in BOOLEAN, a \in Attrs : Serve(ok, a)
  BY <1>3 DEF Serve, sqlVars
<1> QED
  BY Zenon, <1>1, <1>2, <1>3, NextMoves
  DEF Switched, Loaded, Written, Unwritten, Answered, Unread, Keeps, sqlVars, srvVars

\* CommitOnly survives: what the server commits is not dirty.
LEMMA CommitOnlyStep ==
  ASSUME TypeOK, CallsInv, Order, CommitOnly, Next, ~cancelled'
  PROVE  CommitOnly'
<1>0. ~cancelled /\ committed \subseteq committed'
  BY Sticky, DurableMoves
<1> SUFFICES ASSUME NEW w \in durable', op'[w].tx # 0 PROVE op'[w].tx \in committed'
  BY DEF CommitOnly
<1>1. CASE w \in durable
  <2>1. w \in Ops /\ w <= n
    BY Zenon, <1>1 DEF CallsInv, Known, TypeOK
  <2>2. w \in 1 .. n
    BY Zenon, <2>1, CallsSoFar
  <2> QED
    BY <1>0, <1>1, <2>2, Stable DEF CommitOnly
<1>2. CASE w \notin durable
  <2>1. PICK ok \in BOOLEAN, a \in Attrs : Serve(ok, a)
    BY <1>2, DurableMoves
  <2>2. /\ reqQ # <<>> /\ Commits(Head(reqQ)) /\ op' = op
        /\ w \in pend \/ (Head(reqQ).req = "statement" /\ Head(reqQ).op = w)
    BY <1>2, <2>1, ServeDurable DEF Serve
  <2>3. 1 \in DOMAIN reqQ /\ Head(reqQ) = reqQ[1] /\ Len(reqQ) \in Nat /\ Len(reqQ) >= 1
    BY <2>2 DEF TypeOK
  <2>4. At(w, 0) \/ At(w, 1)
    BY <2>2, <2>3 DEF At
  <2>5. w \in Ops
    <3>1. reqQ[1] \in RequestType
      BY <2>3, Messages
    <3>2. w \in pend \/ (reqQ[1].op = w /\ reqQ[1].req # "MtDisconnect")
      BY <2>2, <2>3
    <3> QED
      BY Zenon, <3>1, <3>2, MessageFields DEF TypeOK
  <2>6. \A i \in {0, 1} : NotCommitted(w, i, 1)
    BY <2>3, <2>5 DEF Order
  <2>7. ~Rolled(0, 1 - 1) /\ ~Rolled(1, 1 - 1)
    BY <2>3, Messages DEF Rolled
  <2>8. ~Dirty(w)
    BY <2>2, <2>3, <2>4, <2>6, <2>7 DEF NotCommitted
  <2> QED
    BY <1>0, <2>2, <2>8 DEF Dirty
<1> QED
  BY <1>1, <1>2

\* The inductive invariant behind CommitOnly.
CommitInv == OneInv /\ CallsInv /\ (~cancelled => InTx /\ Sound /\ Order /\ CommitOnly)

\* Every step keeps the invariant of the calls.
LEMMA CallsNext ==
  ASSUME TypeOK, CallsInv, Next
  PROVE  CallsInv'
BY NextMoves, CallsMade, CallsReturned, CallsOthers, CallsStep, CallsServer

\* Every step keeps the invariant behind CommitOnly.
LEMMA CommitNext ==
  ASSUME CommitInv, [Next]_vars
  PROVE  CommitInv'
<1>1. TypeOK /\ OneAtATime /\ OneInv'
  BY OneNext DEF CommitInv, OneInv, One
<1>2. CASE Next
  <2>1. CallsInv'
    BY <1>1, <1>2, CallsNext DEF CommitInv
  <2>2. ASSUME ~cancelled' PROVE (InTx /\ Sound /\ Order /\ CommitOnly)'
    <3>1. ~cancelled
      BY <1>1, <1>2, <2>2, Sticky
    <3> QED
      BY <1>1, <1>2, <2>2, <3>1, InTxStep, SoundStep, OrderStep, CommitOnlyStep DEF CommitInv
  <2> QED
    BY <1>1, <2>1, <2>2 DEF CommitInv
<1>3. CASE UNCHANGED vars
  <2>1. UNCHANGED <<n, cur, hold, sqlTx, committed, op, inTx, cancelled, wrErr, up, reqQ, pend, durable,
                    ranAs>>
    BY <1>3 DEF vars, sqlVars, sessVars, netVars, srvVars
  <2>2. CallsInv'
    BY <2>1 DEF CommitInv, CallsInv, Sane, Known, Caller, Now
  <2>3. (InTx' <=> InTx) /\ (Sound' <=> Sound) /\ (CommitOnly' <=> CommitOnly)
    BY Zenon, <2>1 DEF InTx, Closing, Begun, Now, Sound, SoundMsg, CommitOnly
  <2>4. Order' <=> Order
    BY <2>1 DEF Order, RolledBack, NotCommitted, At, Dirty, Commits, Rolled, Shut, Now
  <2> QED
    BY <1>1, <2>1, <2>2, <2>3, <2>4 DEF CommitInv
<1> QED
  BY <1>2, <1>3

\* It holds at first.
LEMMA CommitInit == Init => CommitInv
<1> SUFFICES ASSUME Init PROVE CommitInv
  OBVIOUS
<1>1. OneInv
  BY OneInit
<1>2. /\ n = 0 /\ cur = 0 /\ hold = "held" /\ sqlTx = 0 /\ committed = {} /\ op = [w \in Ops |-> Idle]
      /\ inTx = FALSE /\ reqQ = <<>> /\ pend = {} /\ durable = {} /\ ranAs = [w \in Ops |-> {}]
  BY DEF Init
<1>3. \A w \in Ops : Sane(w)
  BY <1>2 DEF Sane, Idle, Ending, Ops
<1>4. Known /\ Caller
  BY <1>2 DEF Known, Caller
<1>5. InTx /\ Sound /\ CommitOnly
  BY <1>2 DEF InTx, Closing, Begun, Sound, CommitOnly
<1>6. Order
  BY <1>2 DEF Order, RolledBack, NotCommitted, At
<1> QED
  BY <1>1, <1>3, <1>4, <1>5, <1>6 DEF CommitInv, CallsInv

\* As long as no context was cancelled, the work of a transaction becomes durable only after the
\* application called Commit on it: whatever fails on the way, no later request of the session
\* carries it along.
THEOREM CommitOnlyAsked == Spec => []CommitOnly
BY CommitInit, CommitNext, PTL DEF Spec, CommitInv, CommitOnly

=============================================================================
