------------------------------- MODULE MCData -------------------------------
(***************************************************************************)
(* The components that carry data, for TLC.  A behaviour is a piece of     *)
(* work of one of them: a bulk execution, a value on its way to the        *)
(* database and back, a text transformed piece by piece, a large object    *)
(* read or written, a script scanned, messages written and read, or        *)
(* handshakes that share the key caches.                                   *)
(***************************************************************************)
EXTENDS Bulk, Lob, Script, Wire, Auth, TLC

-----------------------------------------------------------------------------
(* Values.  Integers have 3 to 6 bits, decimals two digits, a day three    *)
(* hours; the lengths of texts are the real ones, up to 100000.            *)

GoNum(k, nm, a, b) == [kind |-> k, named |-> nm, n |-> a, d |-> b, ok |-> TRUE]
GoText(l, sp, hx) == [kind |-> "string", named |-> FALSE, parse |-> "text", ok |-> FALSE, n |-> 0, d |-> 1,
                      len |-> l, supp |-> sp, hex |-> hx]
GoNumText(pa, a, b) == [GoText(2, 0, "no") EXCEPT !.parse = pa, !.n = a, !.d = b, !.ok = TRUE]
Pointers(S) == {[kind |-> "ptr", to |-> v] : v \in S}
Nils == {Nil} \cup [kind : {"nilptr", "nilrat", "nilbig"}]

Around == {a \in Floats(DoubleBits) : Abs(a) <= 40} \cup {-104, 64, 104}
NumVals ==
  {GoNum("int", FALSE, a, 1) : a \in -32 .. 31}
  \cup {GoNum(k, nm, a, 1) : k \in {"uint", "uint64"}, nm \in BOOLEAN, a \in 0 .. 63}
  \cup {GoNum("float", FALSE, a, 1) : a \in Around}
  \cup {GoNum("float", FALSE, a, 2) : a \in {-3, -1, 1, 15, 26}}
  \cup {[GoNum("float", FALSE, a, 1) EXCEPT !.ok = FALSE] : a \in {-1, 0, 1}}
  \cup {GoNum("bool", FALSE, a, 1) : a \in {0, 1}}
  \cup {GoNumText("number", a, b) : a \in {-33, -32, 5, 31, 32, 89, 130}, b \in {1, 2}}
  \cup {GoNumText("bool", 0, 1), GoNumText("bool", 1, 1)}

RatsOf(S, D) == {GoNum("rat", FALSE, a, b) : a \in S, b \in D}
RatVals ==
  RatsOf((-130 .. 130) \cup {-999, 995, 994, 999, 1000, 1005, 9949, 9950}, {1})
  \cup RatsOf({-101, -10, -7, -1, 1, 2, 5, 7, 10, 199, 201, 1999}, {3, 7, 99})
  \cup RatsOf({-7, -1, 1, 3, 9, 11, 19, 21, 99, 199, 201}, {2})
  \cup RatsOf({1, 3, 7, 99, 101, 999}, {1000}) \cup RatsOf({1}, {200, 10000, 20000, 30000})
  \cup {GoNum("ratvalue", FALSE, 1, 1)}

Dates == {<<1, 1, 1>>, <<4, 2, 29>>, <<100, 3, 1>>, <<1500, 2, 28>>, <<1500, 3, 1>>, <<1582, 10, 4>>, <<1582, 10, 5>>,
          <<1582, 10, 14>>, <<1582, 10, 15>>, <<1600, 2, 29>>, <<1899, 12, 31>>, <<1900, 3, 1>>, <<1970, 1, 1>>,
          <<2000, 2, 29>>, <<2024, 2, 29>>, <<9999, 12, 31>>}
TimeVals ==
  {[kind |-> "time", y |-> dt[1], mo |-> dt[2], d |-> dt[3], h |-> 1, mi |-> mn, s |-> sc, ns |-> nn, zone |-> z] :
     dt \in Dates, mn \in {0, 1}, sc \in {0, 1}, nn \in {0, 3}, z \in {0, 1}}

TextVals ==
  {GoText(l, sp, "no") : l \in {0, 4, 244, 245, 246, 247, 32766, 32767, 32768, 100000, 100001}, sp \in {0, 1}}
  \cup {GoText(l, 0, hx) : l \in {0, 4, 5, 490, 492}, hx \in {"lower", "upper", "no"}}

Seven == GoNum("int", FALSE, 7, 1)
Values8 ==
  [tc \in IntTcs \cup FloatTcs \cup {"boolean"} |-> NumVals \cup Nils \cup Pointers({Seven})]
  @@ [tc \in TimeTcs |-> TimeVals \cup Nils \cup {Seven}]
  @@ [tc \in FixedTcs \cup {"decimal"} |->
        RatVals \cup Nils \cup {GoNum("float", FALSE, 3, 2), GoNumText("number", 3, 2), GoNumText("bool", 1, 1)}]
  @@ [tc \in VarTcs \cup {"nvarchar", "stpoint", "nclob"} |-> TextVals \cup Nils \cup {Seven}]

Fields8 ==
  [tc : {"boolean", "decimal", "nvarchar", "stpoint", "nclob"} \cup IntTcs \cup FloatTcs \cup TimeTcs \cup VarTcs,
   prec : {0}, scale : {0}]
  \cup [tc : {"fixed8"}, prec : {1}, scale : 0 .. 1] \cup [tc : {"fixed12"}, prec : {2}, scale : 0 .. 2]
  \cup [tc : {"fixed16"}, prec : {3}, scale : 0 .. 2]
NegativeVals == [tc \in {"decimal"} |-> RatsOf((-130 .. 130), {1, 2})]
DecimalField8 == [tc : {"decimal"}, prec : {0}, scale : {0}]

-----------------------------------------------------------------------------
(* Texts, large objects, scripts.                                          *)

SeqsOf(S, m) == UNION {[1 .. k -> S] : k \in 0 .. m}

\* "H" before "L" would be "S".
Distinct(S) == {cs \in S : \A k \in 1 .. Len(cs) - 1 : <<cs[k], cs[k + 1]>> # <<"H", "L">>}
AllTexts == Distinct(SeqsOf({"A", "B", "C", "S", "F", "X", "H", "L"}, 2)
                       \cup SeqsOf({"A", "C", "S", "X", "H", "L"}, 3))

AllLobs ==
  [tr : {TRUE}, handler : {"nil", "replace"},
   chars : Distinct(SeqsOf({"A", "S", "X", "H", "L"}, 3) \cup SeqsOf({"A", "C", "S"}, 3)
                      \cup SeqsOf({"A", "S", "H"}, 4) \cup SeqsOf({"A", "H"}, 5)
                      \cup {<<"S", "S", "S">> \o cs : cs \in SeqsOf({"A", "X"}, 3)})]
  \cup [tr : {FALSE}, handler : {"nil"}, chars : SeqsOf({"A", "X"}, 5)]
LobColumns(lens) == {[lob |-> FALSE, len |-> 0]} \cup [lob : {TRUE}, len : lens]
LobRows == {<<r>> : r \in SeqsOf(LobColumns({0, 4, 5, 9}), 3) \ {<<>>}}
             \cup [1 .. 2 -> [1 .. 2 -> LobColumns({0, 1, 4, 5})]]

Leads == SeqsOf({<<"s">>, <<"n">>, <<"-", "-", ";", "q", "n">>, <<"-", "-", "b1", "b2", "r", "n">>}, 2)
Pieces == {<<"s">>, <<"r", "n">>, <<"q", "q">>, <<"q", ";", "d", "q">>, <<"d", "q", "n", "-", "-", "d">>,
           <<"-", "-">>, <<"b1", "b2">>}
Quoted(p) == p[1] \in {"q", "d"}
\* Two strings in a row are one with a doubled quote, two minuses begin a comment.
Readable(b) ==
  Len(b) = 2 => /\ ~(Quoted(b[1]) /\ Quoted(b[2]) /\ b[1][1] = b[2][1])
                /\ ~(b[1] = <<"-">> /\ b[2][1] = "-")
Bodies == {b \in {<<p>> \o q : p \in {<<"a">>, <<"-">>, <<"b1", "b2">>, <<"q", ";", "q">>}, q \in SeqsOf(Pieces, 1)} :
             Readable(b)}
Statements8 == [lead : Leads, body : Bodies]
Few == [lead : {<<>>, <<<<"n">>>>}, body : {<<<<"a">>>>, <<<<"q", ";", "q">>>>}]
AllScripts ==
  [comments : BOOLEAN, rest : {<<>>},
   stmts : {<<>>} \cup {<<a>> : a \in Statements8} \cup {<<a, b>> : a \in Few, b \in Statements8}]
  \cup [comments : BOOLEAN, rest : {<<"n">>, <<"a">>, <<"n", "-", "-", "a">>, <<"-", "-", "q", "n", "a", "n">>, <<"q", ";">>, <<"q", "s", "q">>, <<"b1">>},
         stmts : SeqsOf(Few, 2)]

-----------------------------------------------------------------------------
(* Messages.                                                               *)

T8(l, sp, bd) == [len |-> l, supp |-> sp, hex |-> "no", bad |-> bd]
Opt(t, l) == [t |-> t, len |-> l]
Options8 == [kind |-> "options", items |-> <<Opt("boolean", 0), Opt("integer", 0), Opt("string", 6)>>]
ClientContext8 == [kind |-> "options", items |-> <<Opt("string", 5), Opt("string", 0)>>]
Command8(t) == [kind |-> "command", text |-> t]
Fixed8(k) == [kind |-> k]
Bytes8(l) == [t |-> "bytes", text |-> T8(l, 0, FALSE)]
Name8(sp) == [t |-> "string", text |-> T8(6, sp, FALSE)]
Auth8(ps) == [kind |-> "authentication", items |-> ps]
Prms8(ps) == [t |-> "prms", prms |-> ps]
Msg(mt, ps) == [type |-> mt, parts |-> ps]

AuthRequests ==
  {<<Msg("authenticate", <<ClientContext8, Auth8(<<Name8(0), Bytes8(17), Bytes8(64), Bytes8(11), Bytes8(64)>>)>>),
     Msg("connect", <<Auth8(<<Name8(0), Bytes8(11), Prms8(<<Bytes8(sz)>>)>>),
                      [kind |-> "clientID", text |-> T8(9, 0, FALSE)], Options8>>)>> : sz \in {32, 242, 243, 300, 70000}}
  \cup {<<Msg("connect", <<Auth8(<<Bytes8(0), Bytes8(4), Prms8(<<Bytes8(900), Prms8(<<Bytes8(800), Bytes8(10)>>), Bytes8(256)>>)>>)>>)>>}

StatementMessages ==
  {Msg("executeDirect", <<Command8(t)>>) : t \in {T8(0, 0, FALSE), T8(7, 1, FALSE), T8(8, 0, TRUE), T8(250000, 0, FALSE), T8(450000, 0, FALSE)}}
  \cup {Msg("prepare", <<Command8(T8(5, 2, FALSE))>>), Msg("fetchNext", <<Fixed8("resultsetID"), Fixed8("fetchSize")>>),
        Msg("readLob", <<Fixed8("readLobRequest")>>), Msg("commit", <<>>),
        Msg("writeLob", <<[kind |-> "writeLobRequest", items |-> <<0, 7>>]>>)}
  \cup {Msg("execute", <<Fixed8("statementID"), [kind |-> "parameters", rows |-> r, rowSize |-> 5]>>) : r \in {1, 32767, 32768}}

AllRequests == AuthRequests \cup {<<a, b>> : a, b \in StatementMessages}
AllSessionVars == {NoVars, <<>>, <<T8(3, 0, FALSE), T8(244, 1, FALSE)>>, <<T8(3, 0, FALSE), T8(3, 0, FALSE), T8(1, 0, FALSE), T8(4, 0, TRUE)>>}

\* A message has at most one part of a kind.
Errs == [len : {5, 6}, warning : BOOLEAN]
ReplyParts ==
  {[kind |-> "rowsAffected", items |-> r] : r \in {<<1>>, <<2, -3>>}}
  \cup {[kind |-> "error", items |-> es] : es \in UNION {[1 .. k -> Errs] : k \in 1 .. 2}}
  \cup {[kind |-> "statementID"], [kind |-> "resultset", len |-> 11], [kind |-> "writeLobReply", items |-> <<1, 2>>], Options8,
        [kind |-> "topology", items |-> <<<<Opt("string", 3), Opt("integer", 0)>>, <<Opt("bstring", 1)>>>>]}
  \cup {[kind |-> "readLobReply", own |-> o, len |-> 5] : o \in BOOLEAN}
OneName == [kind |-> "metadata", fieldSize |-> 24, fields |-> 1, names |-> <<2>>, refs |-> <<1, NoName, 1, 1>>, bad |-> TRUE]
ManyNames == [kind : {"metadata"}, fieldSize : {24}, fields : {1}, names : {<<3, 0, 2>>}, refs : [1 .. 4 -> 0 .. 3], bad : {FALSE}]
               \cup [kind : {"metadata"}, fieldSize : {16}, fields : {3}, names : {<<1, 2, 0>>}, refs : [1 .. 3 -> 1 .. 3], bad : {FALSE}]
AllReplies ==
  [parts : {<<>>} \cup {<<a>> : a \in ReplyParts \cup ManyNames \cup {OneName}} \cup {<<a, [kind |-> "statementID"]>> : a \in ManyNames}
            \cup {ab \in ReplyParts \X ReplyParts : ab[1].kind # ab[2].kind},
   padLast : BOOLEAN, reads : {{}, {"metadata", "statementID", "options", "readLobReply", "writeLobReply"}}, trace : BOOLEAN]

-----------------------------------------------------------------------------
(* Handshakes: three with a password, or one with another method.          *)

Basic == {"SCRAMPBKDF2SHA256", "SCRAMSHA256"}
Logon(ms, pass, valid) == [methods |-> ms, password |-> pass, certValid |-> valid]
AllLogons ==
  {[k \in Handshakes |-> Logon(Basic, pass[k], TRUE)] : pass \in {[k \in Handshakes |-> IF k = 3 THEN x ELSE "p"] : x \in {"p", "q"}}}
  \cup {[k \in Handshakes |-> IF k = 1 THEN Logon(ms, "p", valid) ELSE Logon({}, "none", TRUE)] :
          ms \in {{"X509"}, {"SessionCookie"}, {"JWT"} \cup Basic}, valid \in BOOLEAN}

-----------------------------------------------------------------------------
dataVars == <<vars, valuesVars, cesu8Vars, lobVars, scriptVars, wireVars, authVars>>

DataInit ==
  \/ Init /\ ValuesOff /\ Cesu8Off /\ LobOff /\ ScriptOff /\ WireOff /\ AuthOff
  \/ BulkOff /\ ValuesInit /\ Cesu8Off /\ LobOff /\ ScriptOff /\ WireOff /\ AuthOff
  \/ BulkOff /\ ValuesOff /\ Cesu8Init /\ LobOff /\ ScriptOff /\ WireOff /\ AuthOff
  \/ BulkOff /\ ValuesOff /\ Cesu8Off /\ LobInit /\ ScriptOff /\ WireOff /\ AuthOff
  \/ BulkOff /\ ValuesOff /\ Cesu8Off /\ LobOff /\ ScriptInit /\ WireOff /\ AuthOff
  \/ BulkOff /\ ValuesOff /\ Cesu8Off /\ LobOff /\ ScriptOff /\ WireInit /\ AuthOff
  \/ BulkOff /\ ValuesOff /\ Cesu8Off /\ LobOff /\ ScriptOff /\ WireOff /\ AuthInit

DataNext ==
  \/ Step /\ UNCHANGED <<valuesVars, cesu8Vars, lobVars, scriptVars, wireVars, authVars>>
  \/ ValuesNext /\ UNCHANGED <<vars, cesu8Vars, lobVars, scriptVars, wireVars, authVars>>
  \/ Cesu8Next /\ UNCHANGED <<vars, valuesVars, lobVars, scriptVars, wireVars, authVars>>
  \/ LobNext /\ UNCHANGED <<vars, valuesVars, cesu8Vars, scriptVars, wireVars, authVars>>
  \/ ScriptNext /\ UNCHANGED <<vars, valuesVars, cesu8Vars, lobVars, wireVars, authVars>>
  \/ WireNext /\ UNCHANGED <<vars, valuesVars, cesu8Vars, lobVars, scriptVars, authVars>>
  \/ AuthNext /\ UNCHANGED <<vars, valuesVars, cesu8Vars, lobVars, scriptVars, wireVars>>

\* The caller of a bulk execution, of Scan and of a statement with large objects waits for its end.
DataSpec == DataInit /\ [][DataNext]_dataVars /\ WF_vars(Step) /\ WF_lobVars(LobNext)

\* A bulk execution returns, and every large object is read and written to its end.
JobsEnd == Returns /\ LobEnds

ValuesSpec == BulkOff /\ ValuesInit /\ Cesu8Off /\ LobOff /\ ScriptOff /\ WireOff /\ AuthOff /\ [][DataNext]_dataVars
=============================================================================
