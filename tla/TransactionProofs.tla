------------------------- MODULE TransactionProofs --------------------------
(***************************************************************************)
(* The connection implements the abstract transactions of the module       *)
(* Transactions, for every number of calls and every failure on the way.   *)
(***************************************************************************)
EXTENDS OutcomeProofs, MCSession

-----------------------------------------------------------------------------
(* The connection implements Transactions.                                 *)

\* The work at the server and under way to it is of one transaction, which has not ended, or of
\* one statement outside a transaction.
OneTx ==
  /\ \A w \in pend : op[w].tx # 0
  /\ \A v, w \in Ops : Worked(v) /\ Worked(w) => op[v].tx = op[w].tx
  /\ \A w, c \in Ops : Worked(w) /\ op[w].tx # 0 /\ op[c].kind \in Ending /\ op[c].res = "ok" =>
       op[c].tx # op[w].tx

\* The call that writes a statement is in the transaction in use, on a usable connection.
LEMMA StatementWritten ==
  ASSUME TypeOK, OneAtATime, CallsInv, ~cancelled, NEW w \in Ops, Written(w),
         Message(w).req = "statement"
  PROVE  /\ w = cur /\ w = n /\ op'[w].tx = sqlTx /\ op[w].kind \in Statements /\ op[w].tx = sqlTx
         /\ Usable /\ sqlTx' = sqlTx
<1>1. /\ w = cur /\ cur = n /\ Now = op[cur] /\ Now' = op'[cur] /\ Now'.tx = Now.tx /\ Now.tx = sqlTx
      /\ Sane(cur) /\ sqlTx' = sqlTx /\ cur # 0
  BY StepNow
<1>2. op[w].req = "statement" /\ wrErr # "enc" /\ op[w].pc = "write" /\ wrErr # "io"
  BY DEF Message, Written
<1>3. "statement" \in RequestsOf(op[w].kind) /\ op[w].kind \in AllKinds
  BY <1>1, <1>2 DEF Sane, TypeOK, OpType, OpRecord, Ops
<1>4. op[w].kind \in Statements
  BY <1>3 DEF RequestsOf, FirstRequest, Statements, AllKinds, Spawned, Direct
<1>5. hold = "held"
  BY <1>1, <1>4 DEF CallsInv, Caller, Statements
<1> QED
  BY <1>1, <1>2, <1>4, <1>5 DEF Usable, TypeOK

\* Every step keeps the work of one transaction together.
LEMMA OneTxStep ==
  ASSUME TypeOK, OneAtATime, CallsInv, Sound, Answer, Clean, OneTx, Next, ~cancelled', ~cut'
  PROVE  OneTx'
<1>0. ~cancelled /\ ~cut
  BY Sticky
<1>1. ASSUME NEW w \in pend' PROVE op'[w].tx # 0
  <2>1. w \in pend => w \in 1 .. n
    BY DEF CallsInv, Known, TypeOK, Ops
  <2>2. CASE w \in pend
    BY <2>1, <2>2, Stable DEF OneTx
  <2>3. CASE w \notin pend
    <3>1. PICK ok \in BOOLEAN, a \in Attrs : Serve(ok, a)
      BY <1>1, <2>3, PendingMoves
    <3>2. /\ Head(reqQ).req = "statement" /\ Head(reqQ).op = w /\ Head(reqQ) = reqQ[1]
          /\ 1 \in DOMAIN reqQ /\ op' = op
      BY Zenon, <1>1, <2>3, <3>1, ServePending, Served
    <3>3. ok /\ ~Head(reqQ).commit
      BY <1>1, <2>3, <3>1, ServePending
    <3> QED
      BY <3>2, <3>3, StatementOf
  <2> QED
    BY <2>2, <2>3
<1>2. ASSUME NEW v \in Ops, NEW w \in Ops, Worked(v)', Worked(w)' PROVE op'[v].tx = op'[w].tx
  <2>1. ASSUME NEW x \in Ops, NEW y \in Ops, Written(x), Message(x).req = "statement", Worked(y)'
        PROVE  op'[y].tx = op'[x].tx
    <3>1. Usable /\ op'[x].tx = sqlTx /\ x = cur
      BY <1>0, <2>1, StatementWritten
    <3>2. CASE Worked(y) /\ op'[y].tx = op[y].tx
      BY <3>1, <3>2 DEF Clean
    <3>3. CASE Written(y)
      <4>1. y = cur
        BY <1>0, <3>3, StepNow
      <4> QED
        BY <3>1, <4>1
    <3> QED
      BY <2>1, <3>2, <3>3, WorkedMoves
  <2> QED
    BY <1>2, <2>1, WorkedMoves DEF OneTx
<1>3. ASSUME NEW w \in Ops, NEW c \in Ops, Worked(w)', op'[w].tx # 0,
             op'[c].kind \in Ending, op'[c].res = "ok"
      PROVE  op'[c].tx # op'[w].tx
  <2>1. CASE c \in 1 .. n /\ op[c].res = "ok" /\ op'[c].kind = op[c].kind /\ op'[c].tx = op[c].tx
    <3>1. CASE Worked(w) /\ op'[w].tx = op[w].tx
      BY <1>3, <2>1, <3>1 DEF OneTx
    <3>2. CASE Written(w) /\ Message(w).req = "statement"
      <4>1. w = cur /\ op'[w].tx = sqlTx /\ op[w].kind \in Statements
        BY <1>0, <3>2, StatementWritten
      <4>2. op[c].tx = sqlTx => c = cur
        BY <1>3, <2>1 DEF CallsInv, Sane
      <4> QED
        BY <1>3, <2>1, <4>1, <4>2 DEF Statements, Ending
    <3> QED
      BY <1>3, <3>1, <3>2, WorkedMoves
  <2>2. CASE /\ Answered(c) /\ NextRequest(op[c]) = "none" /\ Head(repQ).ok /\ ~cut
             /\ c = cur /\ op'[c].kind = op[c].kind
    <3>1. op[c].req \in {"MtCommit", "MtRollback"}
      BY <1>3, <2>2, EndsWell DEF Ending
    <3>2. /\ op[c].pc = "read" /\ ~rdErr /\ hold # "closed" /\ repQ # <<>> /\ repQ[1] = Head(repQ)
          /\ cur # 0 /\ Now = op[c]
      BY <2>2 DEF Answered, TypeOK, Now, Ops
    <3>3. pend = {} /\ reqQ = <<>>
      BY <1>0, <2>2, <3>1, <3>2, OneMessage DEF Answer
    <3>4. ~Worked(w)
      BY <3>3 DEF Worked, At
    <3>5. ~Written(w)
      <4>1. Written(w) => w = cur
        BY <1>0, StepNow
      <4> QED
        BY <2>2, <3>2, <4>1 DEF Written
    <3> QED
      BY <1>3, <3>4, <3>5, WorkedMoves
  <2> QED
    BY <1>3, <2>1, <2>2, OkMoves
<1> QED
  BY <1>1, <1>2, <1>3 DEF OneTx

\* The inductive invariant behind the refinement.
TxInv == DoneInv /\ (~cancelled /\ ~cut => OneTx)

\* Every step keeps the invariant behind the refinement.
LEMMA TxInvNext ==
  ASSUME TxInv, [Next]_vars
  PROVE  TxInv'
<1>1. DoneInv'
  BY DoneNext DEF TxInv
<1>2. CASE Next
  <2>1. ASSUME ~cancelled', ~cut' PROVE OneTx'
    <3>1. TypeOK /\ OneAtATime /\ CallsInv
      BY DEF TxInv, DoneInv, CommitInv, OneInv, One
    <3>2. ~cancelled /\ ~cut
      BY <1>2, <2>1, <3>1, Sticky
    <3>3. Sound /\ Answer /\ Clean /\ OneTx
      BY <3>2 DEF TxInv, DoneInv, CommitInv
    <3> QED
      BY <1>2, <2>1, <3>1, <3>3, OneTxStep
  <2> QED
    BY <1>1, <2>1 DEF TxInv
<1>3. CASE UNCHANGED vars
  <2>1. UNCHANGED <<op, cancelled, reqQ, cut, pend>>
    BY <1>3 DEF vars, sqlVars, sessVars, netVars, srvVars
  <2> QED
    BY <1>1, <2>1 DEF TxInv, OneTx, Worked, At
<1> QED
  BY <1>2, <1>3

\* It holds at first.
LEMMA TxInvInit == Init => TxInv
<1>1. Init => OneTx
  BY DEF Init, OneTx, Worked, At
<1> QED
  BY <1>1, DoneInit DEF TxInv

\* A call keeps its good result.
LEMMA OkStays ==
  ASSUME TypeOK, OneAtATime, CallsInv, Next, ~cancelled, NEW w \in Ops, op[w].res = "ok"
  PROVE  op'[w] = op[w] /\ w \in 1 .. n
<1>1. w \in 1 .. n
  BY DEF CallsInv, Sane, Idle, Ops, TypeOK
<1>2. CASE Made
  BY <1>1, <1>2 DEF Made, TypeOK
<1>3. CASE Returned \/ Others \/ SessionEnd \/ \E ok \in BOOLEAN, a \in Attrs : Serve(ok, a)
  BY Zenon, <1>1, <1>3 DEF Returned, Others, Reuse, Release, Close, Cancel, SessionEnd, Serve
<1>4. ASSUME NEW v \in Ops,
             Switched(v) \/ Loaded(v) \/ Written(v) \/ Unwritten(v) \/ Answered(v) \/ Unread(v)
      PROVE  op'[w] = op[w]
  <2>1. op[cur].res = "none" /\ \A x \in Ops : x # cur => op'[x] = op[x]
    BY <1>4, StepNow DEF Now
  <2> QED
    BY <2>1
<1> QED
  BY <1>1, <1>2, <1>3, <1>4, NextMoves

\* What a step that changes no set of calls leaves of the effects.
LEMMA EffectsKept ==
  ASSUME TypeOK, CallsInv, Next
  PROVE  /\ ranAs' = ranAs => Effects({w \in Ops : ranAs[w] # {}})' = Effects({w \in Ops : ranAs[w] # {}})
         /\ pend' = pend => Effects(pend)' = Effects(pend)
         /\ pend' = {} => Effects(pend)' = {}
         /\ durable' = durable => Effects(durable)' = Effects(durable)
         /\ durable \subseteq durable' => Effects(durable) \subseteq Effects(durable)'
<1>1. \A w \in Ops : w \in pend \cup durable \/ ranAs[w] # {} => w \in 1 .. n
  BY DEF CallsInv, Known, TypeOK, Ops
<1>2. \A w \in Ops : w \in pend \cup durable \/ ranAs[w] # {} => op'[w].tx = op[w].tx
  BY <1>1, Stable
<1>3. pend \subseteq Ops /\ durable \subseteq Ops
  BY DEF TypeOK
<1> QED
  BY <1>2, <1>3 DEF Effects, Effect

\* ... and of what was reported.
LEMMA ReportsKept ==
  ASSUME TypeOK, OneAtATime, CallsInv, Next, ~cancelled', ~cut', NEW K \in SUBSET (Statements \cup Ending)
  PROVE  /\ EndedOk(K) \subseteq EndedOk(K)'
         /\ \A w \in EndedOk(K) : op'[w] = op[w]
         /\ \A w \in EndedOk(K)' \ EndedOk(K) :
              /\ Answered(w) /\ NextRequest(op[w]) = "none" /\ Head(repQ).ok
              /\ w = cur /\ op[w].kind \in K /\ op'[w].kind = op[w].kind /\ op'[w].tx = op[w].tx
<1>0. ~cancelled /\ ~cut
  BY Sticky
<1>1. ASSUME NEW w \in EndedOk(K) PROVE op'[w] = op[w] /\ w \in EndedOk(K)'
  BY <1>0, <1>1, OkStays DEF EndedOk
<1>2. ASSUME NEW w \in EndedOk(K)', w \notin EndedOk(K)
      PROVE  /\ Answered(w) /\ NextRequest(op[w]) = "none" /\ Head(repQ).ok
             /\ w = cur /\ op[w].kind \in K /\ op'[w].kind = op[w].kind /\ op'[w].tx = op[w].tx
  <2>1. w \in Ops /\ op'[w].res = "ok" /\ op'[w].kind \in K /\ ~(op[w].res = "ok" /\ op[w].kind \in K)
    BY <1>2 DEF EndedOk
  <2> QED
    BY <2>1, OkMoves
<1> QED
  BY <1>1, <1>2

\* A cancelled context or an unread reply: what is durable remains so.
LEMMA StepWithdrawn ==
  ASSUME TypeOK, CallsInv, Next, cancelled' \/ cut'
  PROVE  Tx!TxNext
<1>1. durable \subseteq durable'
  <2>1. \A ok \in BOOLEAN, a \in Attrs : Serve(ok, a) => durable \subseteq durable'
    BY DEF Serve
  <2> QED
    BY <2>1, DurableMoves
<1>2. Tx!Withdrawn
  BY <1>1, EffectsKept DEF Tx!Withdrawn
<1> QED
  BY <1>2 DEF Tx!TxNext

\* No step but Made changes what the application asked for, and Made changes nothing else.
LEMMA StepAsk ==
  ASSUME TypeOK, OneAtATime, CallsInv, Next, ~cancelled, ~cut, ~cancelled', ~cut',
         UNCHANGED <<ranAs, pend, durable>>, committed \subseteq committed',
         \A w \in Ops : ~Answered(w)
  PROVE  Tx!TxNext
<1>1. ASSUME NEW K \in SUBSET (Statements \cup Ending) PROVE EndedOk(K)' = EndedOk(K)
  <2>1. EndedOk(K) \subseteq EndedOk(K)' /\ EndedOk(K)' \subseteq Ops
    BY ReportsKept DEF EndedOk
  <2>2. \A w \in EndedOk(K)' \ EndedOk(K) : Answered(w)
    BY ReportsKept
  <2> QED
    BY <2>1, <2>2
<1>2. Statements \in SUBSET (Statements \cup Ending) /\ {"Commit"} \in SUBSET (Statements \cup Ending)
      /\ {"Rollback"} \in SUBSET (Statements \cup Ending)
  BY DEF Ending
<1>3. Effects(EndedOk(Statements))' = Effects(EndedOk(Statements))
  BY <1>1, <1>2, ReportsKept DEF Effects, Effect
<1>4. /\ TxOf(EndedOk({"Commit"}))' = TxOf(EndedOk({"Commit"}))
      /\ TxOf(EndedOk({"Rollback"}))' = TxOf(EndedOk({"Rollback"}))
  BY <1>1, <1>2, ReportsKept DEF TxOf
<1>5. Tx!Ask
  BY <1>3, <1>4, EffectsKept DEF Tx!Ask
<1> QED
  BY <1>5 DEF Tx!TxNext

\* A good reply ends the call in progress with success, or nothing is reported.
LEMMA StepTell ==
  ASSUME TxInv, Next, ~cancelled', ~cut', NEW v \in Ops, Answered(v)
  PROVE  Tx!TxNext \/ UNCHANGED Tx!txVars
<1>1. TypeOK /\ OneAtATime /\ CallsInv
  BY DEF TxInv, DoneInv, CommitInv, OneInv, One
<1>2. ~cancelled /\ ~cut
  BY <1>1, Sticky
<1>3. Answer /\ CommitOnly
  BY <1>2 DEF TxInv, DoneInv, CommitInv
<1>4. /\ v = cur /\ cur \in Ops /\ cur # 0 /\ cur = n /\ Now = op[cur] /\ Now' = op'[cur]
      /\ Now'.kind = Now.kind /\ Now'.tx = Now.tx /\ Now.tx = sqlTx /\ Now.res = "none"
      /\ UNCHANGED <<sqlTx, committed, cancelled, pend, durable, ranAs>>
      /\ \A x \in Ops : x # cur => op'[x] = op[x]
  BY <1>1, <1>2, StepNow
<1>5. /\ Now.pc = "read" /\ ~rdErr /\ hold # "closed" /\ repQ # <<>> /\ repQ[1] = Head(repQ) /\ cut' = cut
  BY <1>1, <1>2, <1>4 DEF Answered, TypeOK
<1>6. /\ Effects({w \in Ops : ranAs[w] # {}})' = Effects({w \in Ops : ranAs[w] # {}})
      /\ Effects(pend)' = Effects(pend) /\ Effects(durable)' = Effects(durable)
      /\ committed' = committed /\ (cancelled \/ cut)' = (cancelled \/ cut)
  BY <1>1, <1>4, <1>5, EffectsKept
<1>7. ASSUME NEW K \in SUBSET (Statements \cup Ending)
      PROVE  EndedOk(K)' = IF Now.kind \in K /\ Now'.res = "ok" THEN EndedOk(K) \cup {cur} ELSE EndedOk(K)
  BY <1>4 DEF EndedOk
<1>8. Statements \in SUBSET (Statements \cup Ending) /\ {"Commit"} \in SUBSET (Statements \cup Ending)
      /\ {"Rollback"} \in SUBSET (Statements \cup Ending)
  BY DEF Ending
<1> DEFINE Told(K) == Now.kind \in K /\ Now'.res = "ok"
<1>9. /\ \A K \in SUBSET (Statements \cup Ending) : \A x \in EndedOk(K) : op'[x].tx = op[x].tx
  BY <1>4 DEF EndedOk
<1>10. /\ ~Told(Statements) => Effects(EndedOk(Statements))' = Effects(EndedOk(Statements))
       /\ Told(Statements) => Effects(EndedOk(Statements))' = Effects(EndedOk(Statements)) \cup {Effect(cur)}
  BY <1>4, <1>7, <1>8, <1>9 DEF Effects, Effect, Now
<1>11. /\ ~Told({"Commit"}) => TxOf(EndedOk({"Commit"}))' = TxOf(EndedOk({"Commit"}))
       /\ Told({"Commit"}) => TxOf(EndedOk({"Commit"}))' = TxOf(EndedOk({"Commit"})) \cup {sqlTx}
  BY <1>4, <1>7, <1>8, <1>9 DEF TxOf
<1>12. /\ ~Told({"Rollback"}) => TxOf(EndedOk({"Rollback"}))' = TxOf(EndedOk({"Rollback"}))
       /\ Told({"Rollback"}) => TxOf(EndedOk({"Rollback"}))' = TxOf(EndedOk({"Rollback"})) \cup {sqlTx}
  BY <1>4, <1>7, <1>8, <1>9 DEF TxOf
<1>13. ASSUME Now'.res = "ok" PROVE NextRequest(op[v]) = "none" /\ repQ[1].ok
  BY <1>2, <1>4, <1>5, <1>13 DEF Answered, On, Ended, Over
<1>14. CASE Told(Statements)
  <2>1. Now.req = "statement" /\ repQ[1].ok
    BY <1>1, <1>4, <1>13, <1>14, EndsWell
  <2>2. ranAs[cur] # {}
    BY <1>3, <1>4, <1>5, <2>1 DEF Answer
  <2>3. Effect(cur) \in Effects({w \in Ops : ranAs[w] # {}})
    BY <1>4, <2>2 DEF Effects
  <2>4. ~Told({"Commit"}) /\ ~Told({"Rollback"})
    BY <1>14 DEF Statements
  <2>5. Tx!Tell(Effect(cur)) /\ Effect(cur) \in Effects(EndedOk(Statements))'
    BY <1>6, <1>10, <1>11, <1>12, <1>14, <2>3, <2>4 DEF Tx!Tell
  <2> QED
    BY <2>5 DEF Tx!TxNext
<1>15. CASE Told({"Commit"})
  <2>1. Now.req = "MtCommit" /\ repQ[1].ok
    BY <1>1, <1>4, <1>13, <1>15, EndsWell
  <2>2. \A w \in Ops : ranAs[w] # {} /\ op[w].tx = sqlTx => w \in durable
    BY Zenon, <1>3, <1>4, <1>5, <2>1 DEF Answer
  <2>3. ~Told(Statements) /\ ~Told({"Rollback"})
    BY <1>15 DEF Statements
  <2>4. \A e \in Effects({w \in Ops : ranAs[w] # {}}) : e.tx = sqlTx => e \in Effects(durable)
    BY <2>2 DEF Effects, Effect
  <2>5. Tx!TellCommit(sqlTx) /\ sqlTx \in TxOf(EndedOk({"Commit"}))'
    BY <1>6, <1>10, <1>11, <1>12, <1>15, <2>3, <2>4 DEF Tx!TellCommit, Tx!Of
  <2> QED
    BY Zenon, <2>5 DEF Tx!TxNext
<1>16. CASE Told({"Rollback"})
  <2>1. Now.req = "MtRollback" /\ repQ[1].ok
    BY <1>1, <1>4, <1>13, <1>16, EndsWell
  <2>2. pend = {}
    BY <1>3, <1>4, <1>5, <2>1 DEF Answer
  <2>3. sqlTx # 0 /\ sqlTx \notin committed
    BY <1>1, <1>4, <1>16 DEF CallsInv, Sane, Caller, Ending
  <2>4. \A w \in durable : op[w].tx # sqlTx
    BY <1>2, <1>3, <2>3 DEF CommitOnly
  <2>5. ~Told(Statements) /\ ~Told({"Commit"})
    BY <1>16 DEF Statements
  <2>6. \A e \in Effects(pend) \cup Effects(durable) : e.tx # sqlTx
    BY <2>2, <2>4 DEF Effects, Effect
  <2>7. Tx!TellRollback(sqlTx) /\ sqlTx \in TxOf(EndedOk({"Rollback"}))'
    BY <1>6, <1>10, <1>11, <1>12, <1>16, <2>5, <2>6 DEF Tx!TellRollback, Tx!Of
  <2> QED
    BY <2>7 DEF Tx!TxNext
<1>17. CASE ~Told(Statements) /\ ~Told({"Commit"}) /\ ~Told({"Rollback"})
  BY <1>6, <1>10, <1>11, <1>12, <1>17 DEF Tx!txVars
<1> QED
  BY <1>14, <1>15, <1>16, <1>17

\* A step of the server runs a statement, commits or undoes what is pending, or changes no effect.
LEMMA StepServed ==
  ASSUME TxInv, Next, ~cancelled', ~cut', NEW ok \in BOOLEAN, NEW a \in Attrs, Serve(ok, a)
  PROVE  Tx!TxNext \/ UNCHANGED Tx!txVars
<1> DEFINE m == Head(reqQ)
           Ran == {w \in Ops : ranAs[w] # {}}
<1>1. TypeOK /\ OneAtATime /\ CallsInv
  BY DEF TxInv, DoneInv, CommitInv, OneInv, One
<1>2. ~cancelled /\ ~cut
  BY <1>1, Sticky
<1>3. Sound /\ Order /\ OneTx
  BY <1>2 DEF TxInv, DoneInv, CommitInv
<1>4. /\ reqQ # <<>> /\ m = reqQ[1] /\ 1 \in DOMAIN reqQ
      /\ UNCHANGED <<committed, op, cancelled, cut>> /\ (ok => m.req # "garbage")
  BY Zenon, <1>1, Served
<1>5. /\ Effects(EndedOk(Statements))' = Effects(EndedOk(Statements))
      /\ TxOf(EndedOk({"Commit"}))' = TxOf(EndedOk({"Commit"}))
      /\ TxOf(EndedOk({"Rollback"}))' = TxOf(EndedOk({"Rollback"}))
      /\ committed' = committed /\ (cancelled \/ cut)' = (cancelled \/ cut)
  BY <1>4 DEF Effects, Effect, EndedOk, TxOf
<1>6. PICK e : /\ e = IF m.req = "statement" THEN {m.op} ELSE {}
               /\ pend' = IF m.req \in {"MtCommit", "MtRollback", "MtDisconnect"} \/ (ok /\ m.commit)
                          THEN {} ELSE IF ok THEN pend \cup e ELSE pend
               /\ durable' = IF ok /\ (m.commit \/ m.req = "MtCommit") THEN durable \cup pend \cup e
                             ELSE durable
  BY Zenon DEF Serve
<1>7. m.req = "statement" => /\ m.op \in Ops /\ (m.commit <=> op[m.op].tx = 0)
                             /\ Worked(m.op)
  <2>1. m.req = "statement" => At(m.op, 1) /\ 1 \in 0 .. Len(reqQ)
    BY <1>1, <1>4, Messages DEF At
  <2> QED
    BY <1>1, <1>3, <1>4, <2>1, StatementOf DEF Worked
<1>8. pend \subseteq Ops /\ (\A w \in pend : Worked(w)) /\ ranAs \in [Ops -> SUBSET Identity]
  BY <1>1, Messages DEF Worked, At, TypeOK
<1>9. CASE ok /\ m.req = "statement"
  <2>1. Ran' = Ran \cup {m.op}
    <3>1. ranAs' = [ranAs EXCEPT ![m.op] = @ \cup {[user |-> srvUser, schema |-> srvSchema]}]
      BY <1>9 DEF Serve
    <3> QED
      BY Zenon, <1>7, <1>8, <1>9, <3>1
  <2>2. Effects(Ran)' = Effects(Ran) \cup {Effect(m.op)}
    BY <1>4, <2>1 DEF Effects, Effect
  <2>3. CASE m.commit
    <3>1. op[m.op].tx = 0 /\ pend = {}
      BY <1>3, <1>7, <1>8, <1>9, <2>3 DEF OneTx
    <3>2. pend' = {} /\ durable' = durable \cup {m.op}
      BY <1>6, <1>9, <2>3, <3>1
    <3>3. /\ Effect(m.op).tx = 0 /\ Effects(pend) = {} /\ Effects(pend)' = {}
          /\ Effects(durable)' = Effects(durable) \cup {Effect(m.op)}
      BY <1>4, <3>1, <3>2 DEF Effects, Effect
    <3>4. Tx!RunAlone(Effect(m.op)) /\ Effect(m.op) \in Effects(Ran)'
      BY Zenon, <1>5, <2>2, <3>3 DEF Tx!RunAlone
    <3> QED
      BY Zenon, <3>4 DEF Tx!TxNext
  <2>4. CASE ~m.commit
    <3>1. op[m.op].tx # 0 /\ \A w \in pend : op[w].tx = op[m.op].tx
      BY <1>3, <1>7, <1>8, <1>9, <2>4 DEF OneTx
    <3>2. pend' = pend \cup {m.op} /\ durable' = durable
      BY <1>6, <1>9, <2>4
    <3>3. /\ Effect(m.op).tx = op[m.op].tx /\ Effects(pend)' = Effects(pend) \cup {Effect(m.op)}
          /\ Effects(durable)' = Effects(durable) /\ \A f \in Effects(pend) : f.tx = op[m.op].tx
      BY <1>4, <3>1, <3>2 DEF Effects, Effect
    <3>4. \A c \in EndedOk({"Commit"}) \cup EndedOk({"Rollback"}) : op[c].tx # op[m.op].tx
      BY <1>3, <1>7, <1>9, <3>1 DEF OneTx, EndedOk, Ending
    <3>5. op[m.op].tx \notin TxOf(EndedOk({"Commit"})) \cup TxOf(EndedOk({"Rollback"}))
      BY <3>4 DEF TxOf
    <3>6. Tx!RunInTx(Effect(m.op)) /\ Effect(m.op) \in Effects(Ran)'
      BY Zenon, <1>5, <2>2, <3>1, <3>3, <3>5 DEF Tx!RunInTx, Tx!Of
    <3> QED
      BY Zenon, <3>6 DEF Tx!TxNext
  <2> QED
    BY <2>3, <2>4
<1>10. CASE ~(ok /\ m.req = "statement")
  <2>1. ranAs' = ranAs /\ Effects(Ran)' = Effects(Ran)
    <3>1. ranAs' = ranAs
      BY <1>10 DEF Serve
    <3> QED
      BY <1>1, <3>1, EffectsKept
  <2>2. CASE ok /\ (m.commit \/ m.req = "MtCommit")
    <3>1. pend' = {} /\ durable' = durable \cup pend
      BY <1>6, <1>10, <2>2
    <3>2. Commits(reqQ[1])
      BY <1>4, <2>2 DEF Commits
    <3>3. ASSUME NEW w \in pend PROVE op[w].tx \in committed
      <4>1. At(w, 0) /\ w \in Ops /\ Len(reqQ) \in Nat /\ op[w].tx # 0
        BY <1>1, <1>3, <1>8, Messages DEF At, OneTx
      <4>2. NotCommitted(w, 0, 1)
        BY <1>3, <1>4, <4>1 DEF Order
      <4>3. ~Rolled(0, 1 - 1)
        BY <1>1, Messages DEF Rolled
      <4> QED
        BY <3>2, <4>1, <4>2, <4>3 DEF NotCommitted, Dirty
    <3>4. /\ \A f \in Effects(pend) : f.tx \in committed
          /\ Effects(pend)' = {} /\ Effects(durable)' = Effects(durable) \cup Effects(pend)
      BY <1>4, <3>1, <3>3 DEF Effects, Effect
    <3>5. Tx!CommitTx
      BY <1>5, <2>1, <3>4 DEF Tx!CommitTx
    <3> QED
      BY <3>5 DEF Tx!TxNext
  <2>3. CASE ~(ok /\ (m.commit \/ m.req = "MtCommit"))
    <3>1. durable' = durable /\ (pend' = {} \/ pend' = pend)
      BY <1>6, <1>10, <2>3
    <3>2. Effects(durable)' = Effects(durable) /\ (Effects(pend)' = {} \/ Effects(pend)' = Effects(pend))
      BY <1>1, <3>1, EffectsKept
    <3>3. Effects(pend)' = {} => Tx!Undo
      BY <1>5, <2>1, <3>2 DEF Tx!Undo
    <3>4. Effects(pend)' = Effects(pend) => UNCHANGED Tx!txVars
      BY <1>5, <2>1, <3>2 DEF Tx!txVars
    <3> QED
      BY <3>2, <3>3, <3>4 DEF Tx!TxNext
  <2> QED
    BY <2>2, <2>3
<1> QED
  BY <1>9, <1>10

\* The end of the session undoes what is pending.
LEMMA StepEnded ==
  ASSUME TxInv, Next, SessionEnd
  PROVE  Tx!TxNext
<1>1. TypeOK /\ CallsInv
  BY DEF TxInv, DoneInv, CommitInv, OneInv, One
<1>2. UNCHANGED <<committed, op, cancelled, cut, durable, ranAs>> /\ pend' = {}
  BY DEF SessionEnd, sqlVars, sessVars
<1>3. /\ Effects(EndedOk(Statements))' = Effects(EndedOk(Statements))
      /\ TxOf(EndedOk({"Commit"}))' = TxOf(EndedOk({"Commit"}))
      /\ TxOf(EndedOk({"Rollback"}))' = TxOf(EndedOk({"Rollback"}))
      /\ committed' = committed /\ (cancelled \/ cut)' = (cancelled \/ cut)
  BY <1>2 DEF Effects, Effect, EndedOk, TxOf
<1>4. Tx!Undo
  BY <1>1, <1>2, <1>3, EffectsKept DEF Tx!Undo
<1> QED
  BY <1>4 DEF Tx!TxNext

\* Every step of the connection is one of Transactions, or changes none of its variables.
LEMMA StepImplements ==
  ASSUME TxInv, [Next]_vars
  PROVE  [Tx!TxNext]_(Tx!txVars)
<1>1. TypeOK /\ OneAtATime /\ CallsInv
  BY DEF TxInv, DoneInv, CommitInv, OneInv, One
<1>2. CASE UNCHANGED vars
  <2>1. UNCHANGED <<committed, op, cancelled, cut, pend, durable, ranAs>>
    BY <1>2 DEF vars, sqlVars, sessVars, netVars, srvVars
  <2> QED
    BY <2>1 DEF Tx!txVars, Effects, Effect, EndedOk, TxOf
<1>3. CASE Next /\ (cancelled' \/ cut')
  BY <1>1, <1>3, StepWithdrawn
<1>4. CASE Next /\ ~cancelled' /\ ~cut'
  <2>1. ~cancelled /\ ~cut /\ committed \subseteq committed'
    BY <1>1, <1>4, Sticky, DurableMoves
  <2>2. CASE (\A w \in Ops : ~Answered(w)) /\ UNCHANGED <<ranAs, pend, durable>>
    BY <1>1, <1>4, <2>1, <2>2, StepAsk
  <2>3. CASE \E w \in Ops : Answered(w)
    BY <1>4, <2>3, StepTell
  <2>4. CASE (\E ok \in BOOLEAN, a \in Attrs : Serve(ok, a)) \/ SessionEnd
    BY <1>4, <2>4, StepServed, StepEnded
  <2>5. Made \/ Returned \/ Others => UNCHANGED <<ranAs, pend, durable>>
    BY Zenon DEF Made, Returned, Others, Reuse, Release, Close, Cancel, srvVars
  <2>6. ASSUME NEW w \in Ops,
               Switched(w) \/ Loaded(w) \/ Written(w) \/ Unwritten(w) \/ Unread(w)
        PROVE  UNCHANGED <<ranAs, pend, durable>>
    BY Zenon, <2>6 DEF Switched, Loaded, Written, Unwritten, Unread, Keeps, srvVars
  <2> QED
    BY <1>1, <1>4, <2>2, <2>3, <2>4, <2>5, <2>6, NextMoves
<1> QED
  BY <1>2, <1>3, <1>4

\* The connection implements Transactions: whatever the interleaving of the goroutines, the stream,
\* the server and the faults, statements outside a transaction are durable when they return, those
\* of a transaction become durable together, on its Commit, and what is reported as done is done,
\* until a context is cancelled or a reply left half read.
THEOREM ConnectionIsTransactional == Spec => Transactional
<1>1. Init => Tx!TxInit
  <2> SUFFICES ASSUME Init PROVE Tx!TxInit
    OBVIOUS
  <2>1. /\ committed = {} /\ op = [w \in Ops |-> Idle] /\ ranAs = [w \in Ops |-> {}] /\ pend = {}
        /\ durable = {} /\ cancelled = FALSE /\ cut = FALSE
    BY DEF Init
  <2>2. /\ EndedOk(Statements) = {} /\ EndedOk({"Commit"}) = {} /\ EndedOk({"Rollback"}) = {}
        /\ {w \in Ops : ranAs[w] # {}} = {}
    BY <2>1 DEF EndedOk, Idle
  <2> QED
    BY Zenon, <2>1, <2>2 DEF Tx!TxInit, Effects, TxOf
<1> QED
  BY <1>1, TxInvInit, TxInvNext, StepImplements, PTL DEF Spec, Transactional, Tx!TxSpec

=============================================================================
