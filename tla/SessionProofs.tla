--------------------------- MODULE SessionProofs ---------------------------
(***************************************************************************)
(* Theorems about Session, for every number of calls and packages, every   *)
(* set of users and every choice of calls by the application.              *)
(***************************************************************************)
EXTENDS Session, TLAPS

-----------------------------------------------------------------------------
(* Types of the helpers.                                                   *)

\* A call may have no further package to send.
LEMMA NoneLeft == 0 \in 0 .. MaxPackages - 1
BY BoundsAssumption DEF BoundsAssumption

\* Sends(o, r) only sets the request and the program counter.
LEMMA SendsType ==
  ASSUME NEW o \in OpType, NEW r \in Requests
  PROVE  Sends(o, r) \in OpType
<1>1. Sends(o, r) \in OpRecord
  BY ZenonT(60) DEF Sends, OpType, OpRecord, Running
<1>2. r # "none"
  BY DEF Requests, AutoCommit
<1>3. Sends(o, r).req = r
  BY DEF Sends, OpType, OpRecord
<1> QED
  BY <1>1, <1>2, <1>3 DEF OpType

\* Ends(o, r) is a finished call.
LEMMA EndsType ==
  ASSUME NEW o \in OpType, NEW r \in Results
  PROVE  Ends(o, r) \in OpType
BY NoneLeft DEF Ends, OpType, OpRecord

\* A call that has not been made.
LEMMA IdleType == Idle \in OpType
BY NoneLeft DEF Idle, OpType, OpRecord, Attrs, Results

\* A new call is typed; it has not started yet.
LEMMA NewOpType ==
  ASSUME NEW k \in AllKinds, NEW u \in Users \cup {NoUser}, NEW a \in Ops \cup {0},
         sqlTx \in Ops \cup {0}
  PROVE  NewOp(k, u, a) \in OpType
BY IdleType, ZenonT(60) DEF NewOp, OpType, OpRecord

\* Every call has a first request.
LEMMA FirstRequestType == \A k : FirstRequest(k) \in Requests
BY DEF FirstRequest, Requests, AutoCommit

-----------------------------------------------------------------------------
(* Type correctness.                                                       *)

\* A new connection is typed.
LEMMA TypeInit == Init => TypeOK
<1> SUFFICES ASSUME Init PROVE TypeOK
  OBVIOUS
<1>1. srvUser \in Names /\ srvSchema \in Schemas
  BY DEF Init, Names, Name, Schemas
<1>2. ranAs \in [Ops -> SUBSET Identity] /\ rows \in [Ops -> RowStates] /\ op \in [Ops -> OpType]
  BY IdleType DEF Init, RowStates, Attrs
<1>3. n \in 0 .. MaxOps /\ cur \in 0 .. n /\ sqlTx \in 0 .. n
  BY BoundsAssumption DEF Init, BoundsAssumption
<1>4. reqQ \in Seq(RequestType) /\ repQ \in Seq(ReplyType)
  BY DEF Init
<1>5. inTx \in BOOLEAN /\ cancelled \in BOOLEAN /\ rdErr \in BOOLEAN /\ up \in BOOLEAN
      /\ cut \in BOOLEAN
  BY DEF Init
<1> QED
  BY <1>1, <1>2, <1>3, <1>4, <1>5 DEF Init, TypeOK

\* Making a call keeps the types, provided that what the caller changes besides is typed.
LEMMA CallType ==
  ASSUME TypeOK, NEW o \in OpType, Call(o),
         hold' \in {"pool", "held", "drop", "closed"}, sqlTx' = sqlTx, stmts' \subseteq Ops,
         rows' = rows, committed' \subseteq Ops, inTx' \in BOOLEAN, gTx' \in Int, gStmt' \in Int
  PROVE  TypeOK'
<1>1. n' \in 0 .. MaxOps /\ cur' \in 0 .. n' /\ sqlTx' \in 0 .. n'
  BY BoundsAssumption DEF Call, TypeOK, BoundsAssumption
<1>2. op' \in [Ops -> OpType]
  BY DEF Call, TypeOK
<1>3. UNCHANGED <<orphans, cancelled, user, wrErr, rdErr, up, reqQ, repQ, cut, srvUser, srvSchema,
                  pend, durable, srvStmts, ranAs, gConn, swapped>>
  BY DEF Call, netVars, srvVars
<1> QED
  BY <1>1, <1>2, <1>3 DEF TypeOK

\* The transaction in use is none or a call.
LEMMA SqlTxType == TypeOK => sqlTx \in Ops \cup {0}
BY BoundsAssumption DEF TypeOK, Ops, BoundsAssumption

\* The calls that run in a goroutine of their own keep the types.
LEMMA TypeCalls ==
  ASSUME TypeOK, NEW u \in Users \cup {NoUser}
  PROVE  /\ \A k \in Switching : ConnCall(k, u) => TypeOK'
         /\ \A k \in {"Ping", "DBConnectInfo"} : InfoCall(k) => TypeOK'
         /\ \A k \in {"StmtQuery", "StmtExec"}, s \in stmts, l \in 0 .. MaxPackages - 1 :
              StmtCall(k, u, s, l) => TypeOK'
<1>1. ASSUME NEW k \in Switching, ConnCall(k, u) PROVE TypeOK'
  <2>1. NewOp(k, u, 0) \in OpType
    BY NewOpType, SqlTxType DEF Switching, AllKinds, Spawned
  <2>2. [NewOp(k, u, 0) EXCEPT !.pc = "switch"] \in OpType
    BY <2>1 DEF OpType, OpRecord, Running
  <2> QED
    BY <2>2, <1>1, CallType DEF ConnCall, TypeOK
<1>2. ASSUME NEW k \in {"Ping", "DBConnectInfo"}, InfoCall(k) PROVE TypeOK'
  <2>1. NewOp(k, NoUser, 0) \in OpType
    BY NewOpType, SqlTxType DEF AllKinds, Spawned
  <2>2. Sends(NewOp(k, NoUser, 0), FirstRequest(k)) \in OpType
    BY <2>1, SendsType, FirstRequestType
  <2> QED
    BY <2>2, <1>2, CallType DEF InfoCall, TypeOK
<1>3. ASSUME NEW k \in {"StmtQuery", "StmtExec"}, NEW s \in stmts, NEW l \in 0 .. MaxPackages - 1,
             StmtCall(k, u, s, l)
      PROVE  TypeOK'
  <2>1. NewOp(k, u, s) \in OpType
    BY NewOpType, SqlTxType DEF AllKinds, Spawned, TypeOK
  <2>2. Sends(NewOp(k, u, s), "statement") \in OpType
    BY <2>1, SendsType DEF Requests, AutoCommit
  <2>3. [Sends(NewOp(k, u, s), "statement") EXCEPT !.left = l] \in OpType
    BY <2>2 DEF OpType, OpRecord
  <2> QED
    BY <2>3, <1>3, CallType DEF StmtCall, TypeOK
<1> QED
  BY <1>1, <1>2, <1>3

\* The calls that run in the caller's goroutine keep the types.
LEMMA TypeDirectCalls ==
  ASSUME TypeOK
  PROVE  /\ \A k \in {"Commit", "Rollback"} : TxClose(k) => TypeOK'
         /\ \A q \in Ops : RowsNext(q) \/ RowsClose(q) => TypeOK'
         /\ \A s \in stmts : StmtClose(s) => TypeOK'
         /\ ResetSession => TypeOK'
<1>1. ASSUME NEW k \in {"Commit", "Rollback"}, TxClose(k) PROVE TypeOK'
  <2>1. NewOp(k, NoUser, 0) \in OpType
    BY NewOpType, SqlTxType DEF AllKinds, Direct
  <2>2. /\ Sends(NewOp(k, NoUser, 0), FirstRequest(k)) \in OpType
        /\ Ends(NewOp(k, NoUser, 0), "bad") \in OpType
    BY <2>1, SendsType, EndsType, FirstRequestType DEF Results
  <2>3. committed' \subseteq Ops
    BY <1>1, SqlTxType DEF TxClose, TypeOK
  <2>4. gTx' \in Int /\ gStmt' \in Int
    BY <1>1 DEF TxClose, TypeOK
  <2>5. UNCHANGED <<hold, sqlTx, stmts, rows>> /\ inTx' \in BOOLEAN
    BY <1>1 DEF TxClose, TypeOK
  <2>6. \/ Call(Ends(NewOp(k, NoUser, 0), "bad"))
        \/ Call(Sends(NewOp(k, NoUser, 0), FirstRequest(k)))
    BY <1>1 DEF TxClose
  <2> QED
    BY <2>2, <2>3, <2>4, <2>5, <2>6, CallType DEF TypeOK
<1>2. ASSUME NEW q \in Ops, RowsNext(q) PROVE TypeOK'
  <2>1. NewOp("Next", NoUser, q) \in OpType
    BY NewOpType, SqlTxType DEF AllKinds, Direct
  <2>2. Sends(NewOp("Next", NoUser, q), "MtFetchNext") \in OpType
    BY <2>1, SendsType DEF Requests
  <2> QED
    BY <2>2, <1>2, CallType DEF RowsNext, TypeOK
<1>3. ASSUME NEW q \in Ops, RowsClose(q) PROVE TypeOK'
  <2> DEFINE o == NewOp("RowsClose", NoUser, q)
  <2>1. o \in OpType
    BY NewOpType, SqlTxType DEF AllKinds, Direct
  <2>2. /\ Ends(o, "ok") \in OpType /\ Ends(o, "err") \in OpType /\ Ends(o, "bad") \in OpType
        /\ Sends(o, "MtCloseResultset") \in OpType
    BY <2>1, SendsType, EndsType DEF Requests, Results
  <2>3. \/ Call(Ends(o, "ok")) \/ Call(Ends(o, "err")) \/ Call(Ends(o, "bad"))
        \/ Call(Sends(o, "MtCloseResultset"))
    BY <1>3 DEF RowsClose
  <2>4. UNCHANGED <<hold, sqlTx, stmts, rows, committed, inTx, gTx, gStmt>>
    BY <1>3 DEF RowsClose
  <2> QED
    BY <2>2, <2>3, <2>4, CallType DEF TypeOK
<1>4. ASSUME NEW s \in stmts, StmtClose(s) PROVE TypeOK'
  <2> DEFINE o == NewOp("StmtClose", NoUser, s)
  <2>1. o \in OpType
    BY NewOpType, SqlTxType DEF AllKinds, Direct, TypeOK
  <2>2. Ends(o, "bad") \in OpType /\ Sends(o, "MtDropStatementID") \in OpType
    BY <2>1, SendsType, EndsType DEF Requests, Results
  <2>3. Call(Ends(o, "bad")) \/ Call(Sends(o, "MtDropStatementID"))
    BY <1>4 DEF StmtClose
  <2>4. UNCHANGED <<hold, sqlTx, rows, committed, inTx, gTx>> /\ gStmt' \in Int /\ stmts' \subseteq Ops
    BY <1>4 DEF StmtClose, TypeOK
  <2> QED
    BY <2>2, <2>3, <2>4, CallType DEF TypeOK
<1>5. ASSUME ResetSession PROVE TypeOK'
  <2> DEFINE o == NewOp("ResetSession", NoUser, 0)
  <2>1. o \in OpType
    BY NewOpType, SqlTxType DEF AllKinds, Direct
  <2>2. Ends(o, "bad") \in OpType /\ Sends(o, "ping") \in OpType
    BY <2>1, SendsType, EndsType DEF Requests, AutoCommit, Results
  <2>3. Call(Ends(o, "bad")) \/ Call(Sends(o, "ping"))
    BY <1>5 DEF ResetSession
  <2>4. UNCHANGED <<sqlTx, stmts, rows, committed, inTx, gTx, gStmt>> /\ hold' = "held"
    BY <1>5 DEF ResetSession
  <2> QED
    BY <2>2, <2>3, <2>4, CallType DEF TypeOK
<1> QED
  BY <1>1, <1>2, <1>3, <1>4, <1>5

\* Taking a result, leaving a goroutine behind and moving the connection to and from the pool
\* keep the types.
LEMMA TypeSelect ==
  ASSUME TypeOK
  PROVE  (Reuse \/ Return \/ Cancel \/ Release) => TypeOK'
<1>1. ASSUME Reuse \/ Release PROVE TypeOK'
  BY <1>1 DEF Reuse, Release, TypeOK, sessVars, netVars, srvVars, gauges
<1>2. ASSUME Cancel PROVE TypeOK'
  <2>1. cur \in Ops
    BY <1>2, BoundsAssumption DEF Cancel, TypeOK, Ops, BoundsAssumption
  <2>2. cur' \in 0 .. n' /\ orphans' \subseteq Ops /\ cancelled' \in BOOLEAN
    BY <1>2, <2>1 DEF Cancel, TypeOK
  <2> QED
    BY <1>2, <2>2 DEF Cancel, TypeOK, netVars, srvVars, gauges
<1>3. ASSUME Return PROVE TypeOK'
  <2>1. cur \in Ops
    BY <1>3, BoundsAssumption DEF Return, TypeOK, Ops, BoundsAssumption
  <2>2. op[cur] \in OpType
    BY <2>1 DEF TypeOK
  <2>3. op[cur].attr \in RowStates /\ op[cur].res \in RowStates \cup {"ok"}
    BY <2>2 DEF OpType, OpRecord, RowStates, Attrs, Results
  <2>4. rows' \in [Ops -> RowStates]
    BY <1>3, <2>3 DEF Return, TypeOK, RowStates, Attrs
  <2>5. stmts' \subseteq Ops /\ sqlTx' \in 0 .. n' /\ cur' \in 0 .. n'
    BY <1>3, <2>1 DEF Return, TypeOK
  <2>6. hold' \in {"pool", "held", "drop", "closed"}
    BY <1>3 DEF Return, TypeOK
  <2> QED
    BY <1>3, <2>4, <2>5, <2>6 DEF Return, TypeOK, sessVars, netVars, srvVars, gauges
<1> QED
  BY <1>1, <1>2, <1>3

\* session.close keeps the types: at most the disconnect request is added to the stream.
LEMMA TypeClose ==
  ASSUME TypeOK, Close
  PROVE  TypeOK'
<1> DEFINE m == [op |-> 0, req |-> "MtDisconnect", commit |-> FALSE, schema |-> NoSchema]
<1>1. m \in RequestType
  BY DEF RequestType
<1>2. Append(reqQ, m) \in Seq(RequestType)
  BY <1>1 DEF TypeOK
<1>3. reqQ' \in Seq(RequestType)
  BY <1>2 DEF Close, TypeOK
<1>4. repQ' \in Seq(ReplyType)
  BY DEF Close
<1>5. wrErr' \in {"no", "io", "enc"} /\ gConn' \in Int /\ hold' = "closed"
  BY DEF Close, TypeOK
<1> QED
  BY <1>3, <1>4, <1>5 DEF Close, TypeOK, srvVars

\* The end of a goroutine keeps the types of what it changes.
LEMMA FinishType ==
  ASSUME TypeOK, NEW w \in Ops, NEW o \in OpType, NEW r \in Results, Finish(w, o, r)
  PROVE  op' \in [Ops -> OpType] /\ inTx' \in BOOLEAN /\ gTx' \in Int /\ gStmt' \in Int
<1>1. op' \in [Ops -> OpType]
  BY EndsType DEF Finish, Goes, TypeOK
<1>2. inTx' \in BOOLEAN
  BY DEF Finish, TypeOK
<1>3. gTx' \in Int /\ gStmt' \in Int
  BY DEF Finish, TypeOK
<1> QED
  BY <1>1, <1>2, <1>3

\* session.switchUser keeps the types: the user it records is a clone without a schema.
LEMMA TypeSwitchUser ==
  ASSUME TypeOK, NEW w \in Ops, SwitchUser(w)
  PROVE  TypeOK'
<1>1. op[w] \in OpType
  BY DEF TypeOK
<1>2. op[w].user \in Users \cup {NoUser}
  BY <1>1 DEF OpType, OpRecord
<1>3. /\ Sends(op[w], FirstRequest(op[w].kind)) \in OpType
      /\ Sends(op[w], "connect") \in OpType
      /\ Ends(op[w], "err") \in OpType
  BY <1>1, SendsType, EndsType, FirstRequestType DEF Requests, AutoCommit, Results
<1>4. op' \in [Ops -> OpType]
  BY <1>3 DEF SwitchUser, Goes, TypeOK
<1>5. user' \in {Clone(u) : u \in Users} \cup {NoUser}
  BY <1>2 DEF SwitchUser, Settled, TypeOK
<1> QED
  BY <1>4, <1>5 DEF SwitchUser, TypeOK, sqlVars, netVars, srvVars, gauges

\* Loading inTx and writing a request keep the types, also when the write fails.
LEMMA TypeWrite ==
  ASSUME TypeOK, NEW w \in Ops
  PROVE  LoadInTx(w) \/ Write(w) \/ WriteFail(w) => TypeOK'
<1>1. op[w] \in OpType
  BY DEF TypeOK
<1>2. ASSUME LoadInTx(w) PROVE TypeOK'
  <2>1. (~inTx) \in BOOLEAN
    OBVIOUS
  <2>2. [op[w] EXCEPT !.commit = ~inTx, !.pc = "write"] \in OpRecord
    BY <1>1, <2>1, ZenonT(60) DEF OpType, OpRecord, Running
  <2>3. [op[w] EXCEPT !.commit = ~inTx, !.pc = "write"].req = op[w].req /\ op[w].req # "none"
    BY <1>1, <1>2 DEF OpType, OpRecord, LoadInTx
  <2>4. [op[w] EXCEPT !.commit = ~inTx, !.pc = "write"] \in OpType
    BY <2>2, <2>3 DEF OpType
  <2>5. op' \in [Ops -> OpType]
    BY <1>2, <2>4 DEF LoadInTx, Goes, TypeOK
  <2> QED
    BY <1>2, <2>5 DEF LoadInTx, TypeOK, sqlVars, sessVars, netVars, srvVars, gauges
<1>3. ASSUME Write(w) PROVE TypeOK'
  <2> DEFINE m == [op |-> w, req |-> IF wrErr = "enc" THEN "garbage" ELSE op[w].req,
                   commit |-> op[w].commit, schema |-> WantedSchema]
  <2>1. WantedSchema \in Schemas
    <3>1. CASE user = NoUser
      BY <3>1 DEF WantedSchema, Schemas
    <3>2. CASE user # NoUser
      <4>1. user.schema = NoSchema
        BY <3>2 DEF TypeOK, Clone
      <4> QED
        BY <4>1 DEF WantedSchema, Schemas
    <3> QED
      BY <3>1, <3>2
  <2>2. m \in RequestType
    <3>1. op[w].req \in Requests /\ op[w].commit \in BOOLEAN
      BY <1>1, <1>3 DEF OpType, OpRecord, Write
    <3> QED
      BY <2>1, <3>1 DEF RequestType
  <2>3. reqQ' \in Seq(RequestType)
    BY <1>3, <2>2 DEF Write, TypeOK
  <2>4. [op[w] EXCEPT !.pc = "read"] \in OpType
    BY <1>1, <1>3 DEF OpType, OpRecord, Running, Write
  <2>5. op' \in [Ops -> OpType]
    BY <1>3, <2>4 DEF Write, Goes, TypeOK
  <2> QED
    BY <1>3, <2>3, <2>5 DEF Write, TypeOK, sqlVars, sessVars, srvVars, gauges
<1>4. ASSUME WriteFail(w) PROVE TypeOK'
  <2>1. Finish(w, op[w], "bad") \/ Finish(w, op[w], "err")
    BY <1>4 DEF WriteFail
  <2>2. op' \in [Ops -> OpType] /\ inTx' \in BOOLEAN /\ gTx' \in Int /\ gStmt' \in Int
    BY <1>1, <2>1, FinishType DEF Results
  <2>3. wrErr' \in {"no", "io", "enc"}
    BY <1>4 DEF WriteFail
  <2> QED
    BY <1>4, <2>2, <2>3 DEF WriteFail, TypeOK, sqlVars, netVars, srvVars
<1> QED
  BY <1>2, <1>3, <1>4

\* What a call sends next is a request, and a further package only while some are left.
LEMMA NextRequestType ==
  ASSUME NEW o \in OpType
  PROVE  /\ NextRequest(o) \in Requests \cup {"none"}
         /\ o.req = "statement" /\ NextRequest(o) # "none" => o.left > 0
<1>1. FirstRequest(o.kind) \in Requests
  BY FirstRequestType
<1>2. {"setSchema", "accessMode", "statement"} \subseteq Requests
  BY DEF Requests, AutoCommit
<1> QED
  BY <1>1, <1>2 DEF NextRequest

\* Reading a reply keeps the types, also when the read fails.
LEMMA TypeRead ==
  ASSUME TypeOK, NEW w \in Ops
  PROVE  Read(w) \/ ReadCut(w) \/ ReadFail(w) => TypeOK'
<1>1. op[w] \in OpType
  BY DEF TypeOK
<1>2. ASSUME ReadFail(w) PROVE TypeOK'
  <2>1. op' \in [Ops -> OpType] /\ inTx' \in BOOLEAN /\ gTx' \in Int /\ gStmt' \in Int
    BY <1>1, <1>2, FinishType DEF ReadFail, Results
  <2>2. rdErr' \in BOOLEAN
    BY <1>2 DEF ReadFail
  <2> QED
    BY <1>2, <2>1, <2>2 DEF ReadFail, TypeOK, sqlVars, netVars, srvVars
<1>3. ASSUME Read(w) PROVE TypeOK'
  <2>0. PICK m \in Decoded :
          LET o == [op[w] EXCEPT !.attr = m.attr]
              r == NextRequest(o)
          IN  /\ swapped' = IF m.op = w THEN swapped ELSE swapped \cup {w}
              /\ \/ /\ m.ok /\ r # "none"
                    /\ Goes(w, Sends([o EXCEPT !.left = IF o.req = "statement" THEN @ - 1 ELSE @], r))
                    /\ UNCHANGED <<inTx, gTx, gStmt>>
                 \/ /\ m.ok /\ r = "none"
                    /\ Finish(w, o, "ok")
                 \/ /\ ~m.ok
                    /\ Finish(w, o, "err")
    BY <1>3 DEF Read
  <2> DEFINE o == [op[w] EXCEPT !.attr = m.attr]
             r == NextRequest(o)
             p == [o EXCEPT !.left = IF o.req = "statement" THEN @ - 1 ELSE @]
  <2>1. m \in ReplyType /\ repQ' \in Seq(ReplyType)
    <3>1. CASE cut
      BY <1>3, <2>0, <3>1 DEF Read, Decoded, ReplyType, Attrs, TypeOK
    <3>2. CASE ~cut
      BY <1>3, <2>0, <3>2 DEF Read, Decoded, TypeOK
    <3> QED
      BY <3>1, <3>2
  <2>2. o \in OpType
    BY <1>1, <2>1 DEF OpType, OpRecord, ReplyType
  <2>3. r \in Requests \cup {"none"} /\ (o.req = "statement" /\ r # "none" => o.left > 0)
    BY <2>2, NextRequestType
  <2>4. ASSUME r # "none" PROVE Sends(p, r) \in OpType
    <3>1. o.left \in 0 .. MaxPackages - 1
      BY <2>2 DEF OpType, OpRecord
    <3>2. (IF o.req = "statement" THEN o.left - 1 ELSE o.left) \in 0 .. MaxPackages - 1
      BY <2>3, <2>4, <3>1, BoundsAssumption DEF BoundsAssumption
    <3>3. p \in OpType
      BY <2>2, <3>2, ZenonT(60) DEF OpType, OpRecord
    <3> QED
      BY <2>3, <2>4, <3>3, SendsType
  <2>5. \/ r # "none" /\ Goes(w, Sends(p, r)) /\ UNCHANGED <<inTx, gTx, gStmt>>
        \/ Finish(w, o, "ok")
        \/ Finish(w, o, "err")
    BY <2>0
  <2>6. op' \in [Ops -> OpType] /\ inTx' \in BOOLEAN /\ gTx' \in Int /\ gStmt' \in Int
    <3>1. CASE r # "none" /\ Goes(w, Sends(p, r)) /\ UNCHANGED <<inTx, gTx, gStmt>>
      <4> HIDE DEF p, r, o
      <4> QED
        BY <3>1, <2>4 DEF Goes, TypeOK
    <3>2. CASE Finish(w, o, "ok") \/ Finish(w, o, "err")
      <4> HIDE DEF o
      <4> QED
        BY <3>2, <2>2, FinishType DEF Results
    <3> QED
      BY <2>5, <3>1, <3>2
  <2>7. swapped' \subseteq Ops
    BY <2>0 DEF TypeOK
  <2> QED
    BY <1>3, <2>1, <2>6, <2>7 DEF Read, TypeOK, sqlVars, srvVars
<1>4. ASSUME ReadCut(w) PROVE TypeOK'
  <2>1. op' \in [Ops -> OpType] /\ inTx' \in BOOLEAN /\ gTx' \in Int /\ gStmt' \in Int
    BY <1>1, <1>4, FinishType DEF ReadCut, Results
  <2>2. cut' \in BOOLEAN
    BY <1>4 DEF ReadCut
  <2>3. repQ' \in Seq(ReplyType) /\ swapped' \subseteq Ops
    BY <1>4 DEF ReadCut, TypeOK
  <2> QED
    BY <1>4, <2>1, <2>2, <2>3 DEF ReadCut, TypeOK, sqlVars, srvVars
<1> QED
  BY <1>2, <1>3, <1>4

\* The server keeps the types, and so does the loss of its session.
LEMMA TypeServer ==
  ASSUME TypeOK, NEW ok \in BOOLEAN, NEW a \in Attrs
  PROVE  Serve(ok, a) \/ SessionEnd => TypeOK'
<1>1. ASSUME SessionEnd PROVE TypeOK'
  <2>1. reqQ' \in Seq(RequestType) /\ pend' \subseteq Ops
    BY <1>1 DEF SessionEnd
  <2>2. up' \in BOOLEAN
    BY <1>1 DEF SessionEnd
  <2> QED
    BY <1>1, <2>1, <2>2 DEF SessionEnd, TypeOK, sqlVars, sessVars, gauges
<1>2. ASSUME Serve(ok, a) PROVE TypeOK'
  <2> DEFINE m == Head(reqQ)
  <2>1. m \in RequestType /\ reqQ' \in Seq(RequestType)
    BY <1>2 DEF Serve, TypeOK
  <2>2. m.op \in Ops \cup {0} /\ m.schema \in Schemas /\ (m.req # "MtDisconnect" => m.op \in Ops)
    BY <2>1 DEF RequestType, Schemas
  <2>3. [op |-> m.op, ok |-> ok, attr |-> a] \in ReplyType
    BY <2>2 DEF ReplyType
  <2>4. repQ' \in Seq(ReplyType)
    BY <1>2, <2>3 DEF Serve, TypeOK
  <2>5. durable' \subseteq Ops
    BY <1>2, <2>2 DEF Serve, TypeOK
  <2>6. pend' \subseteq Ops
    BY <1>2, <2>2 DEF Serve, TypeOK
  <2>7. srvStmts' \subseteq Ops
    BY <1>2, <2>2 DEF Serve, TypeOK
  <2>8. srvUser' \in Names
    <3>1. CASE ok /\ m.req = "connect"
      <4>1. op[m.op].user \in Users \cup {NoUser}
        BY <2>2, <3>1 DEF TypeOK, OpType, OpRecord
      <4> QED
        BY <1>2, <3>1, <4>1 DEF Serve, Names
    <3> QED
      BY <1>2, <3>1 DEF Serve, TypeOK
  <2>9. srvSchema' \in Schemas
    BY <1>2, <2>2 DEF Serve, TypeOK, Schemas
  <2>10. ranAs' \in [Ops -> SUBSET Identity]
    <3>1. [user |-> srvUser, schema |-> srvSchema] \in Identity
      BY DEF TypeOK, Identity
    <3> QED
      BY <1>2, <2>2, <3>1 DEF Serve, TypeOK
  <2> QED
    BY <1>2, <2>1, <2>4, <2>5, <2>6, <2>7, <2>8, <2>9, <2>10
    DEF Serve, TypeOK, sqlVars, sessVars, gauges
<1> QED
  BY <1>1, <1>2

\* Every step keeps the types.
LEMMA TypeStep ==
  ASSUME TypeOK, [Next]_vars
  PROVE  TypeOK'
<1>1. CASE UNCHANGED vars
  BY <1>1 DEF vars, sqlVars, sessVars, netVars, srvVars, gauges, TypeOK
<1>2. CASE \/ \E k \in Switching, u \in Users \cup {NoUser} : ConnCall(k, u)
           \/ \E k \in {"Ping", "DBConnectInfo"} : InfoCall(k)
           \/ \E k \in {"StmtQuery", "StmtExec"}, u \in Users \cup {NoUser}, s \in stmts,
                 l \in 0 .. MaxPackages - 1 : StmtCall(k, u, s, l)
  BY <1>2, TypeCalls
<1>3. CASE \/ \E k \in {"Commit", "Rollback"} : TxClose(k)
           \/ \E q \in Ops : RowsNext(q) \/ RowsClose(q)
           \/ \E s \in stmts : StmtClose(s)
           \/ ResetSession
  BY <1>3, TypeDirectCalls
<1>4. CASE Reuse \/ Return \/ Cancel \/ Release
  BY <1>4, TypeSelect
<1>5. CASE Close
  BY <1>5, TypeClose
<1>6. CASE \E w \in Ops : Step(w)
  BY <1>6, TypeSwitchUser, TypeWrite, TypeRead DEF Step
<1>7. CASE (\E ok \in BOOLEAN, a \in Attrs : Serve(ok, a)) \/ SessionEnd
  BY <1>7, TypeServer DEF Attrs
<1> QED
  BY <1>1, <1>2, <1>3, <1>4, <1>5, <1>6, <1>7 DEF Next

\* Type correctness of the connection: whatever database/sql calls, whichever calls are
\* cancelled, however reads and writes fail, every variable stays within its type; a request
\* on the stream always has a kind the server knows or is recognisably broken, and a bulk
\* statement never counts below zero packages.
THEOREM TypeCorrect == Spec => []TypeOK
BY TypeInit, TypeStep, PTL DEF Spec

-----------------------------------------------------------------------------
(* A call is answered by the reply to its own request.                     *)

\* OwnReply follows from OneAtATime at every Read; the types tell which operations exist, and
\* database/sql is in no call of a connection it has closed.
ClosedUnused == hold = "closed" => cur = 0
One == OneAtATime /\ OwnReply /\ ClosedUnused
OneInv == TypeOK /\ One

\* The one message of a queue is its head, and nothing is left behind it.
LEMMA LastMessage ==
  ASSUME NEW S, NEW s \in Seq(S), Len(s) = 1
  PROVE  Head(s) = s[1] /\ Tail(s) = <<>>
<1>1. s # <<>>
  OBVIOUS
<1>2. Tail(s) \in Seq(S) /\ Len(Tail(s)) = 0
  BY <1>1
<1>3. Tail(s) = <<>>
  <2>1. ASSUME NEW t \in Seq(S), Len(t) = 0 PROVE t = <<>>
    BY <2>1
  <2> QED
    BY <1>2, <2>1, Zenon
<1>4. Head(s) = s[1]
  BY <1>1
<1> QED
  BY <1>3, <1>4

\* A message put on an empty queue is the one message of it.
LEMMA FirstMessage ==
  ASSUME NEW m
  PROVE  Len(Append(<<>>, m)) = 1 /\ Append(<<>>, m)[1] = m
OBVIOUS

\* A call starts when no other is in progress, so nothing else runs and the stream is empty.
LEMMA OneCall ==
  ASSUME OneInv, NEW o, Call(o), hold # "closed", hold' # "closed"
  PROVE  One'
<1>1. /\ cur = 0 /\ cur' = n + 1 /\ op' = [op EXCEPT ![n + 1] = o]
      /\ UNCHANGED <<cancelled, rdErr, reqQ, repQ, cut, swapped>>
  BY DEF Call, netVars
<1>2. ASSUME ~cancelled, NEW w \in Ops, op'[w].pc \in Running PROVE w = cur'
  <2>1. ~(op[w].pc \in Running)
    <3>1. w # cur
      BY <1>1 DEF Ops
    <3> QED
      BY <1>2, <3>1 DEF OneInv, One, OneAtATime
  <2>2. op \in [Ops -> OpType]
    BY DEF OneInv, TypeOK
  <2> QED
    BY <1>1, <1>2, <2>1, <2>2
<1>3. ASSUME ~cancelled, ~cut, ~rdErr, hold' # "closed" PROVE reqQ' = <<>> /\ repQ' = <<>>
  BY <1>1, <1>3 DEF OneInv, One, OneAtATime
<1> QED
  BY <1>1, <1>2, <1>3 DEF OneInv, One, OneAtATime, OwnReply, ClosedUnused

\* Every driver call preserves it.
LEMMA OneCalls ==
  ASSUME OneInv
  PROVE  /\ \A k, u : ConnCall(k, u) => One'
         /\ \A k : InfoCall(k) \/ TxClose(k) => One'
         /\ \A k, u, s, l : StmtCall(k, u, s, l) => One'
         /\ \A q : RowsNext(q) \/ RowsClose(q) \/ StmtClose(q) => One'
         /\ ResetSession => One'
<1>1. ASSUME NEW k, NEW u, ConnCall(k, u) PROVE One'
  BY <1>1, OneCall DEF ConnCall
<1>2. ASSUME NEW k, InfoCall(k) \/ TxClose(k) PROVE One'
  BY <1>2, OneCall DEF InfoCall, TxClose
<1>3. ASSUME NEW k, NEW u, NEW s, NEW l, StmtCall(k, u, s, l) PROVE One'
  BY <1>3, OneCall DEF StmtCall
<1>4. ASSUME NEW q, RowsNext(q) \/ RowsClose(q) \/ StmtClose(q) PROVE One'
  BY <1>4, OneCall DEF RowsNext, RowsClose, StmtClose
<1>5. ASSUME ResetSession PROVE One'
  BY <1>5, OneCall DEF ResetSession
<1> QED
  BY <1>1, <1>2, <1>3, <1>4, <1>5

\* A call returns when it is done, and nothing of it is left on the stream; a cancelled one
\* makes the claim void; the pool changes neither goroutines nor stream.
LEMMA OneSelect ==
  ASSUME OneInv
  PROVE  Reuse \/ Return \/ Cancel \/ Release \/ Close => One'
<1>1. ASSUME Return PROVE One'
  <2>1. /\ cur # 0 /\ op[cur].pc = "done" /\ cur' = 0
        /\ UNCHANGED <<op, cancelled, rdErr, reqQ, repQ, cut, swapped>>
    BY <1>1 DEF Return, sessVars, netVars
  <2>3. ASSUME ~cancelled, NEW w \in Ops PROVE ~(op[w].pc \in Running)
    BY <2>1, <2>3 DEF OneInv, One, OneAtATime, Running
  <2>4. ASSUME ~cancelled, ~cut, ~rdErr, hold # "closed" PROVE reqQ = <<>> /\ repQ = <<>>
    BY <2>1, <2>4 DEF OneInv, One, OneAtATime
  <2>5. hold # "closed"
    BY <2>1 DEF OneInv, One, ClosedUnused
  <2> QED
    BY <2>1, <2>3, <2>4, <2>5 DEF OneInv, One, OneAtATime, OwnReply, ClosedUnused
<1>2. ASSUME Cancel PROVE One'
  BY <1>2 DEF Cancel, One, OneAtATime, OwnReply, ClosedUnused
<1>3. ASSUME Reuse \/ Release PROVE One'
  BY <1>3 DEF Reuse, Release, sessVars, netVars, OneInv, One, OneAtATime, OwnReply, ClosedUnused
<1>4. ASSUME Close PROVE One'
  BY <1>4 DEF Close, OneInv, One, OneAtATime, OwnReply, ClosedUnused
<1> QED
  BY <1>1, <1>2, <1>3, <1>4

\* A step of a goroutine is one of the call in progress, unless a context was cancelled.
LEMMA OneStep ==
  ASSUME OneInv, NEW w \in Ops, Step(w)
  PROVE  One'
<1>1. op[w].pc \in Running /\ UNCHANGED <<cancelled, cur, hold>>
  BY DEF Step, SwitchUser, LoadInTx, Write, WriteFail, Read, ReadCut, ReadFail, Running, sqlVars,
         sessVars
<1>2. \E o : op' = [op EXCEPT ![w] = o]
  BY DEF Step, SwitchUser, LoadInTx, Write, WriteFail, Read, ReadCut, ReadFail, Goes, Finish
<1>3. op \in [Ops -> OpType] /\ reqQ \in Seq(RequestType) /\ repQ \in Seq(ReplyType)
  BY DEF OneInv, TypeOK
<1>4. ClosedUnused'
  BY <1>1 DEF OneInv, One, ClosedUnused
<1>5. CASE cancelled
  BY <1>1, <1>4, <1>5 DEF One, OneAtATime, OwnReply
<1>6. CASE ~cancelled
  <2>1. w = cur /\ cur # 0
    BY <1>1, <1>6 DEF OneInv, One, OneAtATime, Ops
  <2>2. ASSUME NEW v \in Ops, op'[v].pc \in Running PROVE v = cur'
    BY <1>1, <1>2, <1>3, <1>6, <2>1, <2>2 DEF OneInv, One, OneAtATime
  <2>3. CASE SwitchUser(w) \/ LoadInTx(w) \/ WriteFail(w)
    <3>1. op[w].pc # "read" /\ UNCHANGED <<rdErr, reqQ, repQ, cut, swapped>>
      BY <2>3 DEF SwitchUser, LoadInTx, WriteFail, sessVars, netVars
    <3>2. ~cut /\ ~rdErr /\ hold # "closed" => reqQ = <<>> /\ repQ = <<>>
      BY <1>6, <2>1, <3>1 DEF OneInv, One, OneAtATime
    <3> QED
      BY <1>1, <1>4, <2>2, <3>1, <3>2 DEF OneInv, One, OneAtATime, OwnReply
  <2>4. CASE Write(w)
    <3> DEFINE m == [op |-> w, req |-> IF wrErr = "enc" THEN "garbage" ELSE op[w].req,
                     commit |-> op[w].commit, schema |-> WantedSchema]
    <3>1. /\ op[w].pc = "write" /\ op' = [op EXCEPT ![w] = [op[w] EXCEPT !.pc = "read"]]
          /\ reqQ' = Append(reqQ, m) /\ UNCHANGED <<rdErr, repQ, cut, swapped>>
      BY <2>4 DEF Write, Goes, sessVars
    <3>2. op'[cur].pc = "read"
      BY <1>3, <2>1, <3>1 DEF OpType, OpRecord
    <3>3. ASSUME ~cut, ~rdErr, hold # "closed"
          PROVE  Len(reqQ') = 1 /\ reqQ'[1].op = cur /\ repQ' = <<>>
      <4>1. reqQ = <<>> /\ repQ = <<>>
        BY <1>6, <2>1, <3>1, <3>3 DEF OneInv, One, OneAtATime
      <4>2. m.op = cur
        BY <2>1
      <4> HIDE DEF m
      <4>3. reqQ' = Append(<<>>, m) /\ repQ' = <<>>
        BY <3>1, <4>1
      <4> QED
        BY <4>2, <4>3, FirstMessage
    <3> QED
      BY <1>1, <1>4, <2>1, <2>2, <3>1, <3>2, <3>3 DEF OneInv, One, OneAtATime, OwnReply
  <2>5. CASE Read(w) /\ ~cut
    <3>1. /\ op[w].pc = "read" /\ repQ # <<>> /\ ~rdErr /\ hold # "closed" /\ repQ' = Tail(repQ)
          /\ swapped' = IF Head(repQ).op = w THEN swapped ELSE swapped \cup {w}
          /\ UNCHANGED <<rdErr, reqQ, cut>>
      BY <2>5 DEF Read, Decoded
    <3>2. reqQ = <<>> /\ Len(repQ) = 1 /\ repQ[1].op = cur
      BY <1>6, <2>5, <3>1 DEF OneInv, One, OneAtATime
    <3>3. repQ' = <<>> /\ Head(repQ) = repQ[1]
      BY <1>3, <3>1, <3>2, LastMessage
    <3>4. swapped' = swapped
      BY <2>1, <3>1, <3>2, <3>3
    <3> QED
      BY <1>1, <1>4, <2>2, <3>1, <3>2, <3>3, <3>4 DEF OneInv, One, OneAtATime, OwnReply
  <2>6. CASE (Read(w) /\ cut) \/ ReadCut(w)
    <3>1. cut'
      BY <2>6 DEF Read, ReadCut
    <3> QED
      BY <1>1, <1>4, <2>2, <3>1 DEF One, OneAtATime, OwnReply
  <2>7. CASE ReadFail(w)
    <3>1. rdErr' = TRUE /\ UNCHANGED <<cut, swapped>>
      BY <2>7 DEF ReadFail, netVars
    <3> QED
      BY <1>1, <1>4, <2>2, <3>1 DEF OneInv, One, OneAtATime, OwnReply
  <2> QED
    BY <2>3, <2>4, <2>5, <2>6, <2>7 DEF Step
<1> QED
  BY <1>5, <1>6

\* The server turns the one request on the stream into the one reply; the loss of the session
\* removes the request.
LEMMA OneServer ==
  ASSUME OneInv
  PROVE  /\ \A ok, a : Serve(ok, a) => One'
         /\ SessionEnd => One'
<1>1. reqQ \in Seq(RequestType) /\ repQ \in Seq(ReplyType)
  BY DEF OneInv, TypeOK
<1>2. ASSUME NEW ok, NEW a, Serve(ok, a) PROVE One'
  <2> DEFINE m == [op |-> Head(reqQ).op, ok |-> ok, attr |-> a]
  <2>1. /\ reqQ # <<>> /\ reqQ' = Tail(reqQ)
        /\ repQ' = IF hold = "closed" \/ cut THEN repQ ELSE Append(repQ, m)
        /\ UNCHANGED <<op, cur, hold, cancelled, rdErr, cut, swapped>>
    BY <1>2 DEF Serve, sqlVars, sessVars
  <2>2. ASSUME ~cancelled, ~cut, ~rdErr, hold # "closed"
        PROVE  /\ cur # 0 /\ op[cur].pc = "read"
               /\ reqQ' = <<>> /\ Len(repQ') = 1 /\ repQ'[1].op = cur
    <3>1. Len(reqQ) = 1 /\ reqQ[1].op = cur /\ repQ = <<>> /\ cur # 0 /\ op[cur].pc = "read"
      BY <2>1, <2>2 DEF OneInv, One, OneAtATime
    <3>2. m.op = cur
      <4>1. Head(reqQ) = reqQ[1]
        BY <1>1, <3>1, LastMessage
      <4> QED
        BY <3>1, <4>1
    <3>3. reqQ' = <<>>
      <4>1. Tail(reqQ) = <<>>
        BY <1>1, <3>1, LastMessage
      <4> QED
        BY <2>1, <4>1
    <3> HIDE DEF m
    <3>4. Len(repQ') = 1 /\ repQ'[1] = m
      <4>1. repQ' = Append(<<>>, m)
        BY <2>1, <2>2, <3>1
      <4> QED
        BY <4>1, FirstMessage
    <3> QED
      BY <3>1, <3>2, <3>3, <3>4
  <2> QED
    BY <2>1, <2>2 DEF OneInv, One, OneAtATime, OwnReply, ClosedUnused
<1>3. ASSUME SessionEnd PROVE One'
  BY <1>1, <1>3 DEF SessionEnd, sqlVars, sessVars, OneInv, One, OneAtATime, OwnReply, ClosedUnused
<1> QED
  BY <1>2, <1>3

\* Every step preserves the inductive invariant.
LEMMA OneNext ==
  ASSUME OneInv, [Next]_vars
  PROVE  OneInv'
<1>1. TypeOK'
  BY TypeStep DEF OneInv
<1>2. CASE UNCHANGED vars
  BY <1>1, <1>2 DEF vars, sqlVars, sessVars, netVars, OneInv, One, OneAtATime, OwnReply, ClosedUnused
<1>3. CASE Next
  BY <1>1, <1>3, OneCalls, OneSelect, OneStep, OneServer DEF Next, OneInv
<1> QED
  BY <1>2, <1>3

\* A new connection satisfies it.
LEMMA OneInit == Init => OneInv
<1> SUFFICES ASSUME Init PROVE OneInv
  OBVIOUS
<1>1. TypeOK
  BY TypeInit
<1>2. One
  BY DEF Init, Idle, Running, One, OneAtATime, OwnReply, ClosedUnused
<1> QED
  BY <1>1, <1>2 DEF OneInv

\* Without a cancelled context only the call in progress uses the session, and unless a reply
\* was left half read the stream holds nothing but its request or its reply: the serialisation
\* by database/sql, the sticky error of the decoder and the read of every reply before the next
\* request make the stream private.
THEOREM StreamIsPrivate == Spec => []OneAtATime
BY OneInit, OneNext, PTL DEF Spec, OneInv, One

\* Without a cancelled context and a reply left half read no call of the driver ever takes the
\* reply to another call's request, also not one that arrives after the read deadline.
THEOREM RepliesAreOwn == Spec => []OwnReply
BY OneInit, OneNext, PTL DEF Spec, OneInv, One

-----------------------------------------------------------------------------
(* What a step does to the calls, field by field.                          *)

\* The calls that end a transaction.
Ending == {"Commit", "Rollback"}

\* The call database/sql is in.
Now == op[cur]

\* The program counter of a call that is about to send r.
Before(r) == IF r \in AutoCommit THEN "load" ELSE "write"

\* Sends changes the request, the commit flag and the program counter only.
LEMMA SendsFields ==
  ASSUME NEW o \in OpType, NEW r \in Requests
  PROVE  /\ Sends(o, r).kind = o.kind /\ Sends(o, r).tx = o.tx /\ Sends(o, r).arg = o.arg
         /\ Sends(o, r).user = o.user /\ Sends(o, r).res = o.res /\ Sends(o, r).left = o.left
         /\ Sends(o, r).req = r /\ Sends(o, r).commit = FALSE /\ Sends(o, r).pc = Before(r)
BY DEF Sends, OpType, OpRecord, Before

\* Ends keeps what identifies the call.
LEMMA EndsFields ==
  ASSUME NEW o \in OpType, NEW r \in Results
  PROVE  /\ Ends(o, r).kind = o.kind /\ Ends(o, r).tx = o.tx /\ Ends(o, r).arg = o.arg
         /\ Ends(o, r).user = o.user /\ Ends(o, r).res = r
         /\ Ends(o, r).req = "none" /\ Ends(o, r).commit = FALSE /\ Ends(o, r).pc = "done"
BY DEF Ends, OpType, OpRecord

\* A driver call is made.
Calling ==
  \/ \E k \in Switching, u \in Users \cup {NoUser} : ConnCall(k, u)
  \/ \E k \in {"Ping", "DBConnectInfo"} : InfoCall(k)
  \/ \E k \in {"StmtQuery", "StmtExec"}, u \in Users \cup {NoUser}, s \in stmts,
        l \in 0 .. MaxPackages - 1 : StmtCall(k, u, s, l)
  \/ \E k \in {"Commit", "Rollback"} : TxClose(k)
  \/ \E q \in Ops : RowsNext(q) \/ RowsClose(q)
  \/ \E s \in stmts : StmtClose(s)
  \/ ResetSession

\* What every new call is like: it switches the user, sends its first request or is over.
Fresh(o) ==
  /\ o \in OpType /\ o.kind # "none" /\ o.tx = sqlTx /\ o.commit = FALSE
  /\ \/ o.pc = "switch" /\ o.kind \in Switching /\ o.res = "none" /\ o.req = "none"
     \/ /\ o.kind \notin Switching /\ o.res = "none"
        /\ o.req = FirstRequest(o.kind) /\ o.pc = Before(o.req)
     \/ /\ o.kind \in {"Commit", "Rollback", "StmtClose", "ResetSession", "RowsClose"}
        /\ o.pc = "done" /\ o.req = "none" /\ o.res \in {"ok", "err", "bad"}
        /\ o.kind # "RowsClose" => isBad /\ o.res = "bad"

\* What a new call does to the state: it becomes the call in progress, and only the end of a
\* transaction and the close of a statement touch more.
Made ==
  /\ cur = 0 /\ n' = n + 1 /\ cur' = n + 1 /\ n + 1 \in Ops
  /\ op' = [op EXCEPT ![n + 1] = Now'] /\ Fresh(Now')
  /\ UNCHANGED <<sqlTx, rows, orphans, cancelled, user, wrErr, rdErr, netVars, srvVars, gConn,
                 swapped>>
  /\ Now'.kind = "BeginTx" => ~inTx
  /\ Now'.kind \notin Ending => UNCHANGED <<committed, inTx, gTx>>
  /\ Now'.kind \in Ending =>
       /\ sqlTx # 0 /\ gTx' = gTx - 1 /\ inTx' = IF Now'.pc = "done" THEN FALSE ELSE inTx
       /\ committed' = IF Now'.kind = "Commit" THEN committed \cup {sqlTx} ELSE committed
  /\ Now'.kind # "StmtClose" => UNCHANGED <<stmts, gStmt>>
  /\ Now'.kind = "StmtClose" =>
       Now'.arg \in stmts /\ stmts' = stmts \ {Now'.arg} /\ gStmt' = gStmt - 1
  /\ \/ Now'.kind = "StmtClose" /\ hold # "closed" /\ hold' = hold
     \/ Now'.kind = "ResetSession" /\ hold = "pool" /\ hold' = "held"
     \/ hold = "held" /\ hold' = "held"

\* Call makes a new call of any kind.
LEMMA CallMakes ==
  ASSUME TypeOK, NEW o, Fresh(o), Call(o)
  PROVE  /\ cur = 0 /\ n' = n + 1 /\ cur' = n + 1 /\ n + 1 \in Ops
         /\ Now' = o /\ op' = [op EXCEPT ![n + 1] = Now'] /\ Fresh(Now')
         /\ UNCHANGED <<orphans, cancelled, user, wrErr, rdErr, netVars, srvVars, gConn, swapped>>
<1>1. n + 1 \in Ops
  BY BoundsAssumption DEF Call, TypeOK, Ops, BoundsAssumption
<1>2. Now' = o
  BY <1>1 DEF Call, Now, TypeOK
<1> QED
  BY <1>1, <1>2 DEF Call

\* The first request of a call, by its kind.
LEMMA FirstRequests ==
  /\ FirstRequest("Ping") = "ping" /\ FirstRequest("ResetSession") = "ping"
  /\ FirstRequest("PrepareContext") = "MtPrepare" /\ FirstRequest("BeginTx") = "isolation"
  /\ FirstRequest("DBConnectInfo") = "MtDBConnectInfo"
  /\ FirstRequest("Commit") = "MtCommit" /\ FirstRequest("Rollback") = "MtRollback"
  /\ FirstRequest("Next") = "MtFetchNext" /\ FirstRequest("RowsClose") = "MtCloseResultset"
  /\ FirstRequest("StmtClose") = "MtDropStatementID"
  /\ \A k \in Statements : FirstRequest(k) = "statement"
BY DEF FirstRequest, Statements

\* A call that sends its first request.
LEMMA FreshSends ==
  ASSUME TypeOK, NEW k \in AllKinds \ Switching, NEW u \in Users \cup {NoUser},
         NEW a \in Ops \cup {0}
  PROVE  /\ Fresh(Sends(NewOp(k, u, a), FirstRequest(k)))
         /\ Sends(NewOp(k, u, a), FirstRequest(k)).kind = k
         /\ Sends(NewOp(k, u, a), FirstRequest(k)).arg = a
         /\ Sends(NewOp(k, u, a), FirstRequest(k)).pc # "done"
<1> DEFINE o == NewOp(k, u, a)
           r == FirstRequest(k)
<1>1. o \in OpType /\ r \in Requests /\ k # "none"
  <2>1. o \in OpType
    BY NewOpType, SqlTxType
  <2>2. k # "none"
    BY DEF AllKinds, Spawned, Direct
  <2> QED
    BY <2>1, <2>2, FirstRequestType
<1>2. o.kind = k /\ o.tx = sqlTx /\ o.arg = a /\ o.res = "none"
  BY DEF NewOp, Idle
<1>3. Sends(o, r) \in OpType
  BY <1>1, SendsType
<1> HIDE DEF o, r
<1>4. /\ Sends(o, r).kind = k /\ Sends(o, r).tx = sqlTx /\ Sends(o, r).arg = a
      /\ Sends(o, r).res = "none" /\ Sends(o, r).req = r /\ Sends(o, r).commit = FALSE
      /\ Sends(o, r).pc = Before(r)
  BY <1>1, <1>2, SendsFields
<1>5. r = FirstRequest(k)
  BY DEF r
<1>6. Fresh(Sends(o, r))
  BY <1>1, <1>3, <1>4, <1>5 DEF Fresh
<1> QED
  BY <1>4, <1>6 DEF o, r, Before

\* A call that is over at once.
LEMMA FreshEnds ==
  ASSUME TypeOK, NEW k \in {"Commit", "Rollback", "StmtClose", "ResetSession", "RowsClose"},
         NEW a \in Ops \cup {0}, NEW r \in {"ok", "err", "bad"},
         k # "RowsClose" => isBad /\ r = "bad"
  PROVE  /\ Fresh(Ends(NewOp(k, NoUser, a), r))
         /\ Ends(NewOp(k, NoUser, a), r).kind = k
         /\ Ends(NewOp(k, NoUser, a), r).arg = a
         /\ Ends(NewOp(k, NoUser, a), r).pc = "done"
<1> DEFINE o == NewOp(k, NoUser, a)
<1>1. o \in OpType /\ r \in Results /\ k # "none"
  <2>1. k \in AllKinds /\ NoUser \in Users \cup {NoUser}
    BY DEF AllKinds, Direct
  <2>2. o \in OpType
    BY <2>1, NewOpType, SqlTxType
  <2> QED
    BY <2>2 DEF Results
<1>2. o.kind = k /\ o.tx = sqlTx /\ o.arg = a
  BY DEF NewOp, Idle
<1>3. Ends(o, r) \in OpType
  BY <1>1, EndsType
<1> HIDE DEF o
<1>4. /\ Ends(o, r).kind = k /\ Ends(o, r).tx = sqlTx /\ Ends(o, r).arg = a
      /\ Ends(o, r).res = r /\ Ends(o, r).req = "none" /\ Ends(o, r).commit = FALSE
      /\ Ends(o, r).pc = "done"
  BY <1>1, <1>2, EndsFields
<1>6. Fresh(Ends(o, r))
  BY <1>1, <1>3, <1>4 DEF Fresh
<1> QED
  BY <1>4, <1>6 DEF o

\* Every driver call adds one such call to the ones made before.
LEMMA CallingMakes ==
  ASSUME TypeOK, Calling
  PROVE  Made
<1>1. CASE \E k \in Switching, u \in Users \cup {NoUser} : ConnCall(k, u)
  <2>0. PICK k \in Switching, u \in Users \cup {NoUser} : ConnCall(k, u)
    BY <1>1
  <2> DEFINE p == NewOp(k, u, 0)
             o == [p EXCEPT !.pc = "switch"]
  <2>1. p \in OpType
    BY NewOpType, SqlTxType DEF Switching, AllKinds, Spawned
  <2>2. p.kind = k /\ p.tx = sqlTx /\ p.res = "none" /\ p.commit = FALSE /\ p.req = "none"
    BY DEF NewOp, Idle
  <2>3. Call(o)
    BY <2>0 DEF ConnCall
  <2> HIDE DEF p
  <2>4. o \in OpType
    BY <2>1 DEF OpType, OpRecord, Running
  <2>5. /\ o.kind = k /\ o.tx = sqlTx /\ o.res = "none" /\ o.commit = FALSE /\ o.req = "none"
        /\ o.pc = "switch"
    BY <2>1, <2>2 DEF OpType, OpRecord
  <2> HIDE DEF o
  <2>6. k # "none" /\ k \notin Ending /\ k # "StmtClose"
    BY DEF Switching, Ending
  <2>7. Fresh(o)
    BY <2>4, <2>5, <2>6 DEF Fresh
  <2> QED
    BY <2>0, <2>3, <2>5, <2>6, <2>7, CallMakes DEF Made, ConnCall
<1>2. CASE \E k \in {"Ping", "DBConnectInfo"} : InfoCall(k)
  <2>0. PICK k \in {"Ping", "DBConnectInfo"} : InfoCall(k)
    BY <1>2
  <2> DEFINE o == Sends(NewOp(k, NoUser, 0), FirstRequest(k))
  <2>1. Fresh(o) /\ o.kind = k
    BY FreshSends DEF AllKinds, Spawned, Switching
  <2>2. Call(o)
    BY <2>0 DEF InfoCall
  <2> HIDE DEF o
  <2> QED
    BY <2>0, <2>1, <2>2, CallMakes DEF Made, InfoCall, Ending
<1>3. CASE \E k \in {"StmtQuery", "StmtExec"}, u \in Users \cup {NoUser}, s \in stmts,
              l \in 0 .. MaxPackages - 1 : StmtCall(k, u, s, l)
  <2>0. PICK k \in {"StmtQuery", "StmtExec"}, u \in Users \cup {NoUser}, s \in stmts,
             l \in 0 .. MaxPackages - 1 : StmtCall(k, u, s, l)
    BY <1>3
  <2> DEFINE p == Sends(NewOp(k, u, s), "statement")
             o == [p EXCEPT !.left = l]
  <2>1. Fresh(p) /\ p.kind = k
    <3>1. k \in AllKinds \ Switching /\ s \in Ops \cup {0} /\ FirstRequest(k) = "statement"
      BY FirstRequests DEF AllKinds, Spawned, Switching, Statements, TypeOK
    <3> QED
      BY <3>1, FreshSends
  <2>2. Call(o)
    BY <2>0 DEF StmtCall
  <2> HIDE DEF p
  <2>3. o \in OpType
    BY <2>1 DEF Fresh, OpType, OpRecord
  <2>4. /\ o.kind = k /\ o.tx = p.tx /\ o.res = p.res /\ o.commit = p.commit /\ o.req = p.req
        /\ o.pc = p.pc
    BY <2>1 DEF Fresh, OpType, OpRecord
  <2> HIDE DEF o
  <2>5. Fresh(o)
    BY <2>1, <2>3, <2>4 DEF Fresh
  <2> QED
    BY <2>0, <2>2, <2>4, <2>5, CallMakes DEF Made, StmtCall, Ending
<1>4. CASE \E k \in {"Commit", "Rollback"} : TxClose(k)
  <2>0. PICK k \in {"Commit", "Rollback"} : TxClose(k)
    BY <1>4
  <2>1. CASE isBad
    <3> DEFINE o == Ends(NewOp(k, NoUser, 0), "bad")
    <3>1. Fresh(o) /\ o.kind = k /\ o.pc = "done"
      BY <2>1, FreshEnds
    <3>2. Call(o) /\ inTx' = FALSE
      BY <2>0, <2>1 DEF TxClose
    <3> HIDE DEF o
    <3> QED
      BY <2>0, <3>1, <3>2, CallMakes DEF Made, TxClose, Ending
  <2>2. CASE ~isBad
    <3> DEFINE o == Sends(NewOp(k, NoUser, 0), FirstRequest(k))
    <3>1. Fresh(o) /\ o.kind = k /\ o.pc # "done"
      BY FreshSends DEF AllKinds, Direct, Switching
    <3>2. Call(o) /\ inTx' = inTx
      BY <2>0, <2>2 DEF TxClose
    <3> HIDE DEF o
    <3>3. Now' = o
      BY <3>1, <3>2, CallMakes
    <3>4. inTx' = IF Now'.pc = "done" THEN FALSE ELSE inTx
      BY <3>1, <3>2, <3>3
    <3> QED
      BY <2>0, <3>1, <3>2, <3>4, CallMakes DEF Made, TxClose, Ending
  <2> QED
    BY <2>1, <2>2
<1>5. CASE \E q \in Ops : RowsNext(q) \/ RowsClose(q)
  <2>0. PICK q \in Ops : RowsNext(q) \/ RowsClose(q)
    BY <1>5
  <2>1. CASE RowsNext(q)
    <3> DEFINE o == Sends(NewOp("Next", NoUser, q), "MtFetchNext")
    <3>1. Fresh(o) /\ o.kind = "Next"
      BY FreshSends, FirstRequests DEF AllKinds, Direct, Switching
    <3>2. Call(o)
      BY <2>1 DEF RowsNext
    <3> HIDE DEF o
    <3> QED
      BY <2>1, <3>1, <3>2, CallMakes DEF Made, RowsNext, Ending
  <2>2. CASE RowsClose(q)
    <3> DEFINE p == NewOp("RowsClose", NoUser, q)
    <3>1. PICK o : Call(o) /\ (o = Sends(p, "MtCloseResultset") \/
                               \E r \in {"ok", "err", "bad"} : o = Ends(p, r))
      BY <2>2 DEF RowsClose
    <3>2. Fresh(o) /\ o.kind = "RowsClose"
      BY <3>1, FreshEnds, FreshSends, FirstRequests DEF AllKinds, Direct, Switching
    <3> QED
      BY <2>2, <3>1, <3>2, CallMakes DEF Made, RowsClose, Ending
  <2> QED
    BY <2>0, <2>1, <2>2
<1>6. CASE \E s \in stmts : StmtClose(s)
  <2>0. PICK s \in stmts : StmtClose(s)
    BY <1>6
  <2> DEFINE p == NewOp("StmtClose", NoUser, s)
  <2>1. PICK o : Call(o) /\ (o = Sends(p, "MtDropStatementID") \/ (isBad /\ o = Ends(p, "bad")))
    <3>1. CASE isBad
      <4>1. Call(Ends(p, "bad"))
        BY <2>0, <3>1 DEF StmtClose
      <4> QED
        BY <3>1, <4>1
    <3>2. CASE ~isBad
      <4>1. Call(Sends(p, "MtDropStatementID"))
        BY <2>0, <3>2 DEF StmtClose
      <4> QED
        BY <4>1, Zenon
    <3> QED
      BY <3>1, <3>2
  <2>2. Fresh(o) /\ o.kind = "StmtClose" /\ o.arg = s
    <3>1. s \in Ops \cup {0} /\ "StmtClose" \in AllKinds \ Switching
      BY DEF TypeOK, AllKinds, Direct, Switching
    <3> QED
      BY <2>1, <3>1, FreshEnds, FreshSends, FirstRequests
  <2> QED
    BY <2>0, <2>1, <2>2, CallMakes DEF Made, StmtClose, Ending
<1>7. CASE ResetSession
  <2> DEFINE p == NewOp("ResetSession", NoUser, 0)
  <2>1. PICK o : Call(o) /\ (o = Sends(p, "ping") \/ (isBad /\ o = Ends(p, "bad")))
    <3>1. CASE isBad
      <4>1. Call(Ends(p, "bad"))
        BY <1>7, <3>1 DEF ResetSession
      <4> QED
        BY <3>1, <4>1
    <3>2. CASE ~isBad
      <4>1. Call(Sends(p, "ping"))
        BY <1>7, <3>2 DEF ResetSession
      <4> QED
        BY <4>1, Zenon
    <3> QED
      BY <3>1, <3>2
  <2>2. Fresh(o) /\ o.kind = "ResetSession"
    BY <2>1, FreshEnds, FreshSends, FirstRequests DEF AllKinds, Direct, Switching
  <2> QED
    BY <1>7, <2>1, <2>2, CallMakes DEF Made, ResetSession, Ending
<1> QED
  BY <1>1, <1>2, <1>3, <1>4, <1>5, <1>6, <1>7 DEF Calling

\* A step of goroutine w changes no other call, and of its own not what identifies it.
Keeps(w) ==
  /\ op' = [op EXCEPT ![w] = op'[w]] /\ op'[w] \in OpType
  /\ op'[w].kind = op[w].kind /\ op'[w].tx = op[w].tx /\ op'[w].arg = op[w].arg
  /\ op'[w].user = op[w].user
  /\ UNCHANGED <<sqlVars, orphans, cancelled, srvVars, gConn, up>>

\* Call w goes on with request r.
On(w, r) ==
  /\ op'[w].req = r /\ op'[w].pc = Before(r) /\ op'[w].commit = FALSE /\ op'[w].res = op[w].res
  /\ UNCHANGED <<inTx, gTx, gStmt>>

\* Call w is over with result r.
Over(w, r) ==
  op'[w].pc = "done" /\ op'[w].res = r /\ op'[w].req = "none" /\ op'[w].commit = FALSE

\* What the goroutine does at the end of call w.
Outcome(w, r) ==
  /\ inTx' = IF op[w].kind = "BeginTx" /\ r = "ok" THEN TRUE
             ELSE IF op[w].kind \in Ending THEN FALSE ELSE inTx
  /\ gTx' = IF op[w].kind = "BeginTx" /\ r = "ok" THEN gTx + 1 ELSE gTx
  /\ gStmt' = IF op[w].kind = "PrepareContext" /\ r = "ok" THEN gStmt + 1 ELSE gStmt

\* Call w is over with result r, and has its effect.
Ended(w, r) == Over(w, r) /\ Outcome(w, r)

\* The end of a call in state o, which is op[w] but for the attribute read last.
LEMMA FinishEnds ==
  ASSUME TypeOK, NEW w \in Ops, NEW o \in OpType, NEW r \in Results, Finish(w, o, r),
         o.kind = op[w].kind, o.tx = op[w].tx, o.arg = op[w].arg, o.user = op[w].user
  PROVE  /\ op' = [op EXCEPT ![w] = op'[w]] /\ op'[w] \in OpType
         /\ op'[w].kind = op[w].kind /\ op'[w].tx = op[w].tx /\ op'[w].arg = op[w].arg
         /\ op'[w].user = op[w].user
         /\ Ended(w, r)
<1>1. op'[w] = Ends(o, r) /\ op' = [op EXCEPT ![w] = op'[w]]
  BY DEF Finish, Goes, TypeOK
<1>2. Over(w, r)
  <2>1. /\ Ends(o, r).req = "none" /\ Ends(o, r).commit = FALSE /\ Ends(o, r).pc = "done"
        /\ Ends(o, r).res = r
    BY EndsFields
  <2>2. op'[w] = Ends(o, r)
    BY <1>1
  <2> QED
    BY <2>1, <2>2 DEF Over
<1>4. /\ op'[w].kind = op[w].kind /\ op'[w].tx = op[w].tx /\ op'[w].arg = op[w].arg
      /\ op'[w].user = op[w].user /\ op'[w] \in OpType
  <2>1. /\ Ends(o, r).kind = o.kind /\ Ends(o, r).tx = o.tx /\ Ends(o, r).arg = o.arg
        /\ Ends(o, r).user = o.user /\ Ends(o, r) \in OpType
    BY EndsFields, EndsType
  <2>2. op'[w] = Ends(o, r)
    BY <1>1
  <2> QED
    BY <2>1, <2>2
<1>3. Outcome(w, r)
  <2>1. inTx' = CASE o.kind = "BeginTx" /\ r = "ok"       -> TRUE
                  [] o.kind \in {"Commit", "Rollback"}    -> FALSE
                  [] OTHER                                -> inTx
    BY DEF Finish
  <2>2. inTx' = IF o.kind = "BeginTx" /\ r = "ok" THEN TRUE
                ELSE IF o.kind \in Ending THEN FALSE ELSE inTx
    BY <2>1 DEF Ending
  <2>3. /\ gTx' = IF o.kind = "BeginTx" /\ r = "ok" THEN gTx + 1 ELSE gTx
        /\ gStmt' = IF o.kind = "PrepareContext" /\ r = "ok" THEN gStmt + 1 ELSE gStmt
    BY DEF Finish
  <2> QED
    BY <2>2, <2>3 DEF Outcome
<1> QED
  BY <1>1, <1>2, <1>3, <1>4 DEF Ended

\* The session user is as the call wants it, is switched, or cannot be.
Switched(w) ==
  /\ op[w].pc = "switch" /\ Keeps(w) /\ UNCHANGED <<inTx, gTx, gStmt, netVars, wrErr, rdErr, swapped>>
  /\ \/ On(w, FirstRequest(op[w].kind)) \/ (~inTx /\ On(w, "connect")) \/ Over(w, "err")

\* The commit flag of the next request is read off session.inTx.
Loaded(w) ==
  /\ op[w].pc = "load" /\ Keeps(w) /\ UNCHANGED <<inTx, gTx, gStmt, netVars, wrErr, rdErr, swapped>>
  /\ op'[w].pc = "write" /\ op'[w].commit = ~inTx
  /\ op'[w].req = op[w].req /\ op'[w].res = op[w].res

\* The request call w writes.
Message(w) == [op |-> w, req |-> IF wrErr = "enc" THEN "garbage" ELSE op[w].req,
               commit |-> op[w].commit, schema |-> WantedSchema]

\* It is written and the call waits for the reply.
Written(w) ==
  /\ op[w].pc = "write" /\ up /\ hold # "closed" /\ wrErr # "io"
  /\ Keeps(w) /\ UNCHANGED <<inTx, gTx, gStmt, repQ, cut, wrErr, rdErr, swapped>>
  /\ op'[w].pc = "read" /\ op'[w].commit = op[w].commit
  /\ op'[w].req = op[w].req /\ op'[w].res = op[w].res
  /\ reqQ' = Append(reqQ, Message(w)) /\ Message(w) \in RequestType

\* It cannot be written; the buffer keeps the error.
Unwritten(w) ==
  /\ op[w].pc = "write" /\ Keeps(w) /\ UNCHANGED <<netVars, rdErr, swapped>>
  /\ wrErr' \in {"io", "enc"} /\ (Ended(w, "bad") \/ Ended(w, "err"))

\* A reply is read, the one at the head of the queue unless the decoder is out of step.
Answered(w) ==
  /\ op[w].pc = "read" /\ (repQ = <<>> => cut) /\ ~rdErr /\ hold # "closed"
  /\ Keeps(w) /\ UNCHANGED <<reqQ, cut, wrErr, rdErr>>
  /\ \/ On(w, NextRequest(op[w])) /\ NextRequest(op[w]) # "none" /\ (~cut => Head(repQ).ok)
     \/ Ended(w, "ok") /\ NextRequest(op[w]) = "none" /\ (~cut => Head(repQ).ok)
     \/ Ended(w, "err") /\ (~cut => ~Head(repQ).ok)
  /\ repQ' = IF cut THEN repQ ELSE Tail(repQ)

\* The reply is left half read, or does not come.
Unread(w) ==
  /\ op[w].pc = "read" /\ Keeps(w) /\ UNCHANGED <<reqQ, wrErr>>
  /\ \/ cut' /\ rdErr' = rdErr /\ (Ended(w, "err") \/ Ended(w, "bad"))
     \/ rdErr' /\ Ended(w, "bad") /\ UNCHANGED <<cut, repQ, swapped>>

\* Every step of a goroutine is one of these.
LEMMA StepMoves ==
  ASSUME TypeOK, NEW w \in Ops, Step(w)
  PROVE  Switched(w) \/ Loaded(w) \/ Written(w) \/ Unwritten(w) \/ Answered(w) \/ Unread(w)
<1>0. op[w] \in OpType /\ TypeOK'
  BY TypeSwitchUser, TypeWrite, TypeRead DEF TypeOK, Step
<1>1. CASE SwitchUser(w)
  <2>1. UNCHANGED <<sqlVars, orphans, cancelled, srvVars, gConn, up, inTx, gTx, gStmt, netVars,
                    wrErr, rdErr, swapped>> /\ op[w].pc = "switch"
    BY <1>1 DEF SwitchUser, netVars, gauges
  <2>2. PICK o : /\ op' = [op EXCEPT ![w] = o]
                 /\ \/ o = Sends(op[w], FirstRequest(op[w].kind))
                    \/ ~inTx /\ o = Sends(op[w], "connect")
                    \/ o = Ends(op[w], "err")
    BY <1>1, Zenon DEF SwitchUser, Goes
  <2>3. op'[w] = o /\ op'[w] \in OpType
    BY <1>0, <2>2 DEF TypeOK
  <2>4. ASSUME NEW r \in Requests, o = Sends(op[w], r) PROVE On(w, r) /\ Keeps(w)
    <3>1. /\ o.kind = op[w].kind /\ o.tx = op[w].tx /\ o.arg = op[w].arg
          /\ o.user = op[w].user /\ o.res = op[w].res
          /\ o.req = r /\ o.commit = FALSE /\ o.pc = Before(r)
      BY <1>0, <2>4, SendsFields
    <3> QED
      BY <2>1, <2>2, <2>3, <3>1 DEF Keeps, On
  <2>5. CASE o = Ends(op[w], "err")
    <3>1. /\ o.kind = op[w].kind /\ o.tx = op[w].tx /\ o.arg = op[w].arg
          /\ o.user = op[w].user /\ o.res = "err"
          /\ o.req = "none" /\ o.commit = FALSE /\ o.pc = "done"
      BY <1>0, <2>5, EndsFields DEF Results
    <3> QED
      BY <2>1, <2>2, <2>3, <3>1 DEF Switched, Keeps, Over
  <2>6. "connect" \in Requests /\ FirstRequest(op[w].kind) \in Requests
    BY FirstRequestType DEF Requests, AutoCommit
  <2> QED
    BY <2>1, <2>2, <2>4, <2>5, <2>6 DEF Switched
<1>2. CASE LoadInTx(w)
  <2> DEFINE o == [op[w] EXCEPT !.commit = ~inTx, !.pc = "write"]
  <2>1. op' = [op EXCEPT ![w] = o] /\ op[w].pc = "load"
    BY <1>2 DEF LoadInTx, Goes
  <2>2. /\ o.kind = op[w].kind /\ o.tx = op[w].tx /\ o.arg = op[w].arg /\ o.user = op[w].user
        /\ o.req = op[w].req /\ o.res = op[w].res /\ o.pc = "write"
    BY <1>0 DEF OpType, OpRecord
  <2>3. o.commit = ~inTx
    BY <1>0 DEF OpType, OpRecord
  <2> HIDE DEF o
  <2>4. op'[w] = o /\ op'[w] \in OpType
    BY <1>0, <2>1 DEF TypeOK
  <2> QED
    BY <1>2, <2>1, <2>2, <2>3, <2>4 DEF Loaded, Keeps, LoadInTx, sessVars, netVars, gauges
<1>3. CASE Write(w)
  <2> DEFINE o == [op[w] EXCEPT !.pc = "read"]
  <2>1. op' = [op EXCEPT ![w] = o] /\ op[w].pc = "write"
    BY <1>3 DEF Write, Goes
  <2>2. /\ o.kind = op[w].kind /\ o.tx = op[w].tx /\ o.arg = op[w].arg /\ o.user = op[w].user
        /\ o.req = op[w].req /\ o.res = op[w].res /\ o.pc = "read" /\ o.commit = op[w].commit
    BY <1>0 DEF OpType, OpRecord
  <2> HIDE DEF o
  <2>3. op'[w] = o /\ op'[w] \in OpType
    BY <1>0, <2>1 DEF TypeOK
  <2>4. reqQ' = Append(reqQ, Message(w))
    BY <1>3 DEF Write, Message
  <2>5. Message(w) \in RequestType
    <3>1. reqQ' \in Seq(RequestType) /\ reqQ \in Seq(RequestType)
      BY <1>0 DEF TypeOK
    <3> QED
      BY <2>4, <3>1
  <2> QED
    BY <1>3, <2>1, <2>2, <2>3, <2>4, <2>5 DEF Written, Keeps, Write, sessVars, gauges
<1>4. CASE WriteFail(w)
  <2>1. Finish(w, op[w], "bad") \/ Finish(w, op[w], "err")
    BY <1>4 DEF WriteFail
  <2>2. wrErr' \in {"io", "enc"} /\ op[w].pc = "write"
    BY <1>4 DEF WriteFail
  <2> QED
    BY <1>0, <1>4, <2>1, <2>2, FinishEnds DEF Unwritten, Keeps, WriteFail, Results, netVars
<1>5. CASE Read(w)
  <2>0. PICK m \in Decoded :
          LET o == [op[w] EXCEPT !.attr = m.attr]
              r == NextRequest(o)
          IN  \/ /\ m.ok /\ r # "none"
                 /\ Goes(w, Sends([o EXCEPT !.left = IF o.req = "statement" THEN @ - 1 ELSE @], r))
                 /\ UNCHANGED <<inTx, gTx, gStmt>>
              \/ /\ m.ok /\ r = "none"
                 /\ Finish(w, o, "ok")
              \/ /\ ~m.ok
                 /\ Finish(w, o, "err")
    BY <1>5 DEF Read
  <2> DEFINE o == [op[w] EXCEPT !.attr = m.attr]
             p == [o EXCEPT !.left = IF o.req = "statement" THEN @ - 1 ELSE @]
  <2>1. m \in ReplyType
    <3>1. CASE cut
      BY <2>0, <3>1 DEF Decoded, ReplyType, Attrs
    <3>2. CASE ~cut
      BY <1>5, <2>0, <3>2 DEF Read, Decoded, TypeOK
    <3> QED
      BY <3>1, <3>2
  <2>2. o \in OpType
    BY <1>0, <2>1 DEF OpType, OpRecord, ReplyType
  <2>3. /\ o.kind = op[w].kind /\ o.tx = op[w].tx /\ o.arg = op[w].arg /\ o.user = op[w].user
        /\ o.req = op[w].req /\ o.res = op[w].res /\ o.left = op[w].left
    BY <1>0 DEF OpType, OpRecord
  <2>4. NextRequest(o) = NextRequest(op[w])
    BY <2>3 DEF NextRequest
  <2>5. ~cut => m = Head(repQ)
    BY <2>0 DEF Decoded
  <2>6. /\ op[w].pc = "read" /\ (repQ = <<>> => cut) /\ ~rdErr /\ hold # "closed"
        /\ repQ' = IF cut THEN repQ ELSE Tail(repQ)
        /\ UNCHANGED <<sqlVars, orphans, cancelled, srvVars, gConn, up, reqQ, cut, wrErr, rdErr>>
    BY <1>5 DEF Read
  <2>7. CASE m.ok /\ NextRequest(o) # "none" /\ Goes(w, Sends(p, NextRequest(o)))
               /\ UNCHANGED <<inTx, gTx, gStmt>>
    <3> DEFINE r == NextRequest(op[w])
    <3>1. /\ p.kind = op[w].kind /\ p.tx = op[w].tx /\ p.arg = op[w].arg /\ p.user = op[w].user
          /\ p.res = op[w].res
      BY <1>0 DEF OpType, OpRecord
    <3>2. op' = [op EXCEPT ![w] = Sends(p, r)]
      BY <2>4, <2>7 DEF Goes
    <3>3. r \in Requests
      BY <1>0, <2>4, <2>7, NextRequestType
    <3>4. Sends(p, r) = op'[w] /\ op'[w] \in OpType
      BY <1>0, <3>2 DEF TypeOK
    <3>5. /\ Sends(p, r).kind = p.kind /\ Sends(p, r).tx = p.tx /\ Sends(p, r).arg = p.arg
          /\ Sends(p, r).user = p.user /\ Sends(p, r).res = p.res
          /\ Sends(p, r).req = r /\ Sends(p, r).commit = FALSE /\ Sends(p, r).pc = Before(r)
      BY <1>0 DEF Sends, OpType, OpRecord, Before
    <3> HIDE DEF p, o, r
    <3>6. Keeps(w)
      BY <2>6, <3>1, <3>2, <3>4, <3>5 DEF Keeps
    <3>7. On(w, r)
      BY <2>7, <3>1, <3>4, <3>5 DEF On
    <3> QED
      BY <2>4, <2>5, <2>6, <2>7, <3>6, <3>7 DEF Answered, r
  <2>8. CASE m.ok /\ NextRequest(o) = "none" /\ Finish(w, o, "ok")
    <3> HIDE DEF o
    <3>1. Ended(w, "ok") /\ Keeps(w)
      BY <2>2, <2>3, <2>6, <2>8, FinishEnds DEF Keeps, Results
    <3> QED
      BY <2>4, <2>5, <2>6, <2>8, <3>1 DEF Answered
  <2>9. CASE ~m.ok /\ Finish(w, o, "err")
    <3> HIDE DEF o
    <3>1. Ended(w, "err") /\ Keeps(w)
      BY <2>2, <2>3, <2>6, <2>9, FinishEnds DEF Keeps, Results
    <3> QED
      BY <2>5, <2>6, <2>9, <3>1 DEF Answered
  <2> QED
    BY <2>0, <2>7, <2>8, <2>9
<1>6. CASE ReadCut(w)
  <2>1. Finish(w, op[w], "bad") \/ Finish(w, op[w], "err")
    BY <1>6 DEF ReadCut
  <2>2. cut' /\ op[w].pc = "read"
    BY <1>6 DEF ReadCut
  <2> QED
    BY <1>0, <1>6, <2>1, <2>2, FinishEnds DEF Unread, Keeps, ReadCut, Results
<1>7. CASE ReadFail(w)
  <2>1. Finish(w, op[w], "bad") /\ op[w].pc = "read" /\ rdErr'
    BY <1>7 DEF ReadFail
  <2> QED
    BY <1>0, <1>7, <2>1, FinishEnds DEF Unread, Keeps, ReadFail, Results, netVars
<1> QED
  BY <1>1, <1>2, <1>3, <1>4, <1>5, <1>6, <1>7 DEF Step

============================================================================
