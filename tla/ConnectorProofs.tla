--------------------------- MODULE ConnectorProofs ---------------------------
(***************************************************************************)
(* Proofs about the connector: its type invariant, that refreshes exclude  *)
(* each other, and that a stale redirect host never fails a call, for any  *)
(* number of goroutines, hosts, credentials and calls.                     *)
(***************************************************************************)
EXTENDS Connector, TLAPS

\* The record r of a goroutine is one of a goroutine between cbmu.Lock and its deferred Unlock: in
\* the refresh loop, or in a logon of the loop, which is one without a cookie.
Holds(r) ==
  \/ r.pc \in Critical \cup {"setCookie"}
  \/ r.pc \in {"dial", "prolog", "authenticate"} /\ r.auth.cookie = NoCookie

\* With a database, connect is called with a host of the cache or one just asked for, and a call
\* that asked remembers it.
Asked(r) ==
  config.database =>
    /\ r.pc = "idle" /\ r.res \in {"err", "authErr"} => r.asked
    /\ r.pc \in {"fetchProlog", "dbConnectInfo"} => r.asked
    /\ r.from = "fetched" => r.asked
    /\ r.pc \notin {"idle", "fetch", "fetchProlog", "dbConnectInfo"} => r.from \in {"cache", "fetched"}

\* The types of all variables but proc.
RestType ==
  /\ config \in Configs
  /\ cred \in [Kinds -> Versions] /\ hasCookie \in BOOLEAN /\ cookie \in CookieType
  /\ mu \in Procs \cup {NoProc} /\ cbmu \in Procs \cup {NoProc}
  /\ cache \in Hosts \cup {Own} /\ callDB \in BOOLEAN
  /\ numConn \in Int /\ sockets \in Int /\ conns \in Int
  /\ calls \in Nat /\ moves \in Nat /\ sets \in Nat
  /\ srv \in [Kinds -> Versions] /\ store \in [Kinds -> Versions]
  /\ valid \subseteq 1 .. MaxCookies /\ issued \in 0 .. MaxCookies /\ tenant \in Hosts
  /\ dead \subseteq 0 .. MaxCookies

\* What a goroutine's record must satisfy whatever the others do.
Rec(r) ==
  /\ r \in ProcType
  /\ Asked(r)
  /\ r.pc = "setCookie" => r.issued # NoCookie

\* The inductive invariant.  A logon with a cookie does not hold cbmu, so the cookie that
\* cookieAuth takes over must be a real one.
IInv ==
  /\ RestType
  /\ proc \in [Procs -> ProcType]
  /\ \A p \in Procs : Rec(proc[p])
  /\ \A p \in Procs : Holds(proc[p]) => cbmu = p
  /\ hasCookie => cookie # NoCookie
  /\ \A p \in Procs : proc[p].pc = "cookieAuth" => cookie # NoCookie

-----------------------------------------------------------------------------
\* A step of one goroutine p to the record r (Goes) preserves the invariant, if r is a good
\* record, cbmu stays with any other holder, and the cookie stays a real one.
LEMMA Moves ==
  ASSUME IInv, NEW p \in Procs, NEW r, Goes(p, r), Rec(r), RestType', config' = config,
         \A q \in Procs \ {p} : cbmu = q => cbmu' = q,
         Holds(r) => cbmu' = p,
         cookie' = cookie \/ cookie' # NoCookie,
         hasCookie' => cookie' # NoCookie,
         r.pc = "cookieAuth" => cookie' # NoCookie
  PROVE  IInv'
<1>1. proc' \in [Procs -> ProcType] /\ proc'[p] = r /\ \A q \in Procs \ {p} : proc'[q] = proc[q]
  BY DEF IInv, Goes, Rec
<1>2. \A q \in Procs : Rec(proc'[q])
  BY <1>1 DEF IInv
<1>3. (\A q \in Procs : Rec(proc[q]))'
  BY <1>2 DEF Rec, Asked
<1>4. (\A q \in Procs : Holds(proc[q]) => cbmu = q)'
  <2> SUFFICES ASSUME NEW q \in Procs, Holds(proc'[q]) PROVE cbmu' = q
    BY DEF Holds
  <2> QED BY <1>1 DEF IInv
<1>5. (\A q \in Procs : proc[q].pc = "cookieAuth" => cookie # NoCookie)'
  BY <1>1 DEF IInv
<1> QED BY <1>1, <1>3, <1>4, <1>5 DEF IInv

\* The constants NoCookie and NoAuth are typed.
LEMMA TypedNoAuth == NoAuth \in AuthType /\ NoCookie \in CookieType
<1>1. NoCookie \in CookieType
  BY ConfigAssumption DEF ConfigAssumption, NoCookie, CookieType
<1>2. [k \in Kinds |-> 0] \in [Kinds -> Versions]
  BY ConfigAssumption DEF ConfigAssumption, Versions
<1> QED BY <1>1, <1>2 DEF NoAuth, AuthType

\* The records that a step leaves are typed: Ends, the end of a call.
LEMMA EndsType ==
  ASSUME IInv, NEW p \in Procs, NEW r \in {"ok", "err", "authErr"}
  PROVE  /\ Ends(p, r) \in ProcType
         /\ Ends(p, r).pc = "idle" /\ Ends(p, r).res = r /\ Ends(p, r).from = "none"
         /\ Ends(p, r).asked = (proc[p].asked /\ r # "ok")
<1> DEFINE e == Ends(p, r)
<1>1. proc[p] \in ProcType
  BY DEF IInv
<1>2. NoAuth \in AuthType /\ NoCookie \in CookieType
  BY TypedNoAuth
<1>3. e = [proc[p] EXCEPT !.pc = "idle", !.res = r, !.from = "none", !.auth = NoAuth,
                 !.last = NoAuth, !.todo = {}, !.ret = "none", !.refreshed = FALSE, !.host = Own,
                 !.issued = NoCookie, !.touched = FALSE, !.deadThen = {},
                 !.asked = proc[p].asked /\ r # "ok", !.calm = proc[p].calm /\ r # "ok"]
  BY DEF Ends
<1>4. /\ e.pc = "idle" /\ e.res = r /\ e.from = "none"
      /\ e.asked = (proc[p].asked /\ r # "ok")
  BY <1>1, <1>3 DEF ProcType
<1>5. e \in ProcType
  BY <1>1, <1>2, <1>3, ZenonT(60) DEF ProcType, PCs
<1> QED BY <1>4, <1>5

\* connect returns an error (Failed): to fetchRedirectHost if the host came from the cache, to the
\* application otherwise, and then the host was asked for.
LEMMA FailedKeeps ==
  ASSUME IInv, NEW p \in Procs, NEW r \in {"err", "authErr"}, Failed(p, r), RestType',
         proc[p].pc \notin {"idle", "fetch", "fetchProlog", "dbConnectInfo"},
         UNCHANGED <<config, hasCookie, cookie>>
  PROVE  IInv'
<1>1. \A q \in Procs \ {p} : cbmu = q => cbmu' = q
  BY DEF Failed, Unlocked
<1>2. CASE proc[p].from = "cache"
  <2> DEFINE n == [proc[p] EXCEPT !.pc = "fetch", !.auth = NoAuth, !.last = NoAuth]
  <2>1. Goes(p, n)
    BY <1>2 DEF Failed
  <2>2. proc[p] \in ProcType /\ NoAuth \in AuthType
    BY TypedNoAuth DEF IInv
  <2>3. n.pc = "fetch" /\ n.from = "cache"
    BY <2>2, <1>2 DEF ProcType
  <2>4. n \in ProcType
    BY <2>2, ZenonT(60) DEF ProcType, PCs
  <2>5. Rec(n) /\ ~Holds(n)
    BY <2>3, <2>4 DEF Rec, Asked, Holds, Critical
  <2> HIDE DEF n
  <2> QED BY <1>1, <2>1, <2>3, <2>5, Moves DEF IInv
<1>3. CASE proc[p].from # "cache"
  <2> DEFINE n == Ends(p, r)
  <2>1. Goes(p, n)
    BY <1>3 DEF Failed
  <2>2. n \in ProcType /\ n.pc = "idle" /\ n.from = "none" /\ n.asked = (proc[p].asked /\ r # "ok")
    BY EndsType
  <2> HIDE DEF n
  <2>3. Asked(proc[p]) /\ proc[p] \in ProcType
    BY DEF IInv, Rec
  <2>4. config.database => proc[p].asked
    BY <2>3, <1>3 DEF Asked
  <2>5. Rec(n) /\ ~Holds(n)
    BY <2>2, <2>4 DEF Rec, Asked, Holds, Critical
  <2> QED BY <1>1, <2>1, <2>2, <2>5, Moves DEF IInv
<1> QED BY <1>2, <1>3

\* The connection is returned to database/sql (Connected).
LEMMA ConnectedKeeps ==
  ASSUME IInv, NEW p \in Procs, Connected(p), RestType', config' = config,
         cookie' = cookie \/ cookie' # NoCookie, hasCookie' => cookie' # NoCookie
  PROVE  IInv'
<1> DEFINE n == Ends(p, "ok")
<1>1. \A q \in Procs \ {p} : cbmu = q => cbmu' = q
  BY DEF Connected, Unlocked
<1>2. n \in ProcType /\ n.pc = "idle" /\ n.res = "ok" /\ n.from = "none"
  BY EndsType
<1>3. Goes(p, n)
  BY DEF Connected
<1> HIDE DEF n
<1>4. Rec(n) /\ ~Holds(n)
  BY <1>2 DEF Rec, Asked, Holds, Critical
<1> QED BY <1>1, <1>2, <1>3, <1>4, Moves

\* A step of a goroutine keeps the types of the variables other than the goroutines' records.
LEMMA RestStep ==
  ASSUME IInv, NEW p \in Procs, Connect(p) \/ Lock(p) \/ Step(p)
  PROVE  RestType'
<1>a. RestType /\ proc[p] \in ProcType
  BY DEF IInv
<1> USE <1>a
<1>1. CASE Connect(p)
  BY <1>1 DEF Connect, RestType, connVars, envVars
<1>2. CASE FetchDial(p)
  BY <1>2 DEF FetchDial, RestType, connVars, envVars
<1>2a. CASE FetchProlog(p)
  BY <1>2a DEF FetchProlog, RestType, connVars, envVars
<1>3. CASE FetchInfo(p)
  BY <1>3 DEF FetchInfo, RestType, connVars, envVars, Tracker
<1>4. CASE HasCookie(p)
  BY <1>4 DEF HasCookie, RestType, connVars, envVars
<1>5. CASE CookieAuth(p)
  BY <1>5 DEF CookieAuth, RestType, connVars, envVars
<1>6. CASE AuthHnd(p)
  BY <1>6 DEF AuthHnd, RestType, connVars, envVars
<1>7. CASE Lock(p)
  BY <1>7 DEF Lock, RestType, connVars, envVars
<1>8. CASE Dial(p)
  BY <1>8 DEF Dial, RestType, connVars, envVars, Failed, Unlocked
<1>8a. CASE Prolog(p)
  BY <1>8a DEF Prolog, RestType, connVars, envVars, Failed, Unlocked
<1>9. CASE LogonFails(p)
  BY <1>9 DEF LogonFails, RestType, connVars, envVars, Failed, Unlocked
<1>10. CASE LogonRejected(p)
  BY <1>10 DEF LogonRejected, RestType, connVars, envVars
<1>11. CASE RefreshLock(p)
  BY <1>11 DEF RefreshLock, RestType, connVars, envVars
<1>12. CASE CertKeyInvalid(p)
  BY <1>12 DEF CertKeyInvalid, RestType, connVars, envVars, Failed, Unlocked
<1>13. CASE RefreshEnd(p)
  BY <1>13 DEF RefreshEnd, RestType, connVars, envVars, Failed, Unlocked
<1>14. CASE LogonAccepted(p)
  <2>1. /\ issued' \in 0 .. MaxCookies /\ valid' \subseteq 1 .. MaxCookies
        /\ conns' \in Int /\ cbmu' \in Procs \cup {NoProc} /\ cache' \in Hosts \cup {Own}
    <3> PICK m \in Offered(proc[p].auth) :
            \/ /\ issued < MaxCookies /\ issued' = issued + 1 /\ valid' = valid \cup {issued + 1}
               /\ UNCHANGED <<conns, cbmu, cache>>
            \/ Connected(p) /\ UNCHANGED <<issued, valid>>
      BY <1>14 DEF LogonAccepted
    <3>1. CASE Connected(p) /\ UNCHANGED <<issued, valid>>
      BY <3>1 DEF Connected, Unlocked, RestType, ProcType
    <3>2. CASE issued < MaxCookies /\ issued' = issued + 1 /\ valid' = valid \cup {issued + 1}
               /\ UNCHANGED <<conns, cbmu, cache>>
      BY <3>2, ConfigAssumption DEF RestType, ConfigAssumption
    <3> QED BY <3>1, <3>2
  <2> QED BY <1>14, <2>1 DEF LogonAccepted, RestType, connVars
<1>15. CASE SetCookie(p)
  BY <1>15 DEF SetCookie, Connected, Unlocked, RestType, envVars, ProcType
<1>16. CASE InvalidateCookie(p)
  BY <1>16 DEF InvalidateCookie, RestType, envVars, ProcType, AuthType, CookieType
<1>17. CASE \E j \in Kinds : CallRefresh(p, j)
  BY <1>17 DEF CallRefresh, RestType, connVars, envVars
<1>18. CASE \E ok \in BOOLEAN : Callback(p, ok)
  BY <1>18 DEF Callback, RestType, connVars, envVars
<1>19. CASE Refreshed(p)
  <2>1. cred' \in [Kinds -> Versions]
    BY <1>19 DEF Refreshed, RestType, ProcType, Kinds
  <2> QED BY <1>19, <2>1 DEF Refreshed, RestType, envVars
<1> QED BY <1>1, <1>2, <1>2a, <1>3, <1>4, <1>5, <1>6, <1>7, <1>8, <1>8a, <1>9, <1>10, <1>11, <1>12, <1>13, <1>14, <1>15, <1>16, <1>17, <1>18, <1>19 DEF Step

\* A step of a goroutine that is neither the end of a call nor of a connect: from record proc[p] to
\* n, with cbmu and the cookie as they are.
LEMMA QuietMove ==
  ASSUME IInv, NEW p \in Procs, NEW n, Goes(p, n), RestType', n \in ProcType,
         UNCHANGED <<config, hasCookie, cookie, cbmu>>,
         n.pc \notin {"idle", "fetch", "fetchProlog", "dbConnectInfo", "setCookie"},
         proc[p].pc \notin {"idle", "fetch", "fetchProlog", "dbConnectInfo"},
         n.from = proc[p].from, n.asked = proc[p].asked,
         Holds(n) => Holds(proc[p]),
         n.pc = "cookieAuth" => cookie # NoCookie
  PROVE  IInv'
<1>1. Rec(n)
  <2>1. Asked(proc[p])
    BY DEF IInv, Rec
  <2> QED BY <2>1 DEF Rec, Asked
<1>2. Holds(n) => cbmu' = p
  BY DEF IInv
<1> QED BY <1>1, <1>2, Moves DEF IInv

\* connect before the logon: HasCookie, CookieAuth, Lock, AuthHnd.
LEMMA ConnectKeeps ==
  ASSUME IInv, NEW p \in Procs, RestType', HasCookie(p) \/ CookieAuth(p) \/ Lock(p) \/ AuthHnd(p)
  PROVE  IInv'
<1>a. proc[p] \in ProcType /\ NoAuth \in AuthType /\ RestType
  BY TypedNoAuth DEF IInv
<1>1. CASE HasCookie(p)
  <2> DEFINE l == IF hasCookie THEN "cookieAuth" ELSE "lock"
             n == [proc[p] EXCEPT !.pc = l]
  <2>1. Goes(p, n) /\ UNCHANGED <<config, hasCookie, cookie, cbmu>> /\ proc[p].pc = "connect"
    BY <1>1 DEF HasCookie, connVars
  <2>2. n.pc = l /\ n.from = proc[p].from /\ n.asked = proc[p].asked
    BY <1>a DEF ProcType
  <2>3. l \in PCs
    BY DEF PCs
  <2>4. n \in ProcType
    BY <1>a, <2>3, ZenonT(60) DEF ProcType
  <2>5. n.pc = "cookieAuth" => cookie # NoCookie
    BY <2>2 DEF IInv
  <2>6. n.pc \in {"cookieAuth", "lock"}
    BY <2>2
  <2> HIDE DEF n, l
  <2>7. ~Holds(n)
    BY <2>6 DEF Holds, Critical
  <2> QED BY <2>1, <2>2, <2>4, <2>5, <2>6, <2>7, QuietMove
<1>2. CASE CookieAuth(p)
  <2> DEFINE a == [NoAuth EXCEPT !.cookie = cookie]
             n == [proc[p] EXCEPT !.pc = "dial", !.auth = a]
  <2>1. Goes(p, n) /\ UNCHANGED <<config, hasCookie, cookie, cbmu>> /\ proc[p].pc = "cookieAuth"
    BY <1>2 DEF CookieAuth, connVars
  <2>2. a \in AuthType /\ a.cookie = cookie
    BY <1>a DEF AuthType, RestType
  <2> HIDE DEF a
  <2>3. n.pc = "dial" /\ n.from = proc[p].from /\ n.asked = proc[p].asked /\ n.auth.cookie = cookie
    BY <1>a, <2>2 DEF ProcType
  <2>4. n \in ProcType
    BY <1>a, <2>2, ZenonT(60) DEF ProcType, PCs
  <2>5. cookie # NoCookie
    BY <2>1 DEF IInv
  <2> HIDE DEF n
  <2>6. ~Holds(n)
    BY <2>3, <2>5 DEF Holds, Critical
  <2> QED BY <2>1, <2>3, <2>4, <2>6, QuietMove
<1>3. CASE Lock(p)
  <2> DEFINE n == [proc[p] EXCEPT !.pc = "authHnd"]
  <2>1. Goes(p, n) /\ UNCHANGED <<config, hasCookie, cookie>> /\ cbmu = NoProc /\ cbmu' = p
        /\ proc[p].pc = "lock"
    BY <1>3 DEF Lock, To, connVars
  <2>2. n.pc = "authHnd" /\ n.from = proc[p].from /\ n.asked = proc[p].asked
    BY <1>a DEF ProcType
  <2>3. n \in ProcType
    BY <1>a, ZenonT(60) DEF ProcType, PCs
  <2> HIDE DEF n
  <2>4. Rec(n)
    <3>1. Asked(proc[p])
      BY DEF IInv, Rec
    <3> QED BY <2>1, <2>2, <2>3, <3>1 DEF Rec, Asked
  <2>5. \A q \in Procs \ {p} : cbmu # q
    BY <2>1, ConfigAssumption DEF ConfigAssumption
  <2> QED BY <2>1, <2>2, <2>4, <2>5, Moves DEF IInv
<1>4. CASE AuthHnd(p)
  <2> DEFINE a == [NoAuth EXCEPT !.creds = cred]
             n == [proc[p] EXCEPT !.pc = "dial", !.auth = a]
  <2>1. Goes(p, n) /\ UNCHANGED <<config, hasCookie, cookie, cbmu>> /\ proc[p].pc = "authHnd"
    BY <1>4 DEF AuthHnd, connVars
  <2>2. a \in AuthType
    BY <1>a DEF AuthType, RestType
  <2> HIDE DEF a
  <2>3. n.pc = "dial" /\ n.from = proc[p].from /\ n.asked = proc[p].asked
    BY <1>a, <2>2 DEF ProcType
  <2>4. n \in ProcType
    BY <1>a, <2>2, ZenonT(60) DEF ProcType, PCs
  <2> HIDE DEF n
  <2>5. Holds(proc[p])
    BY <2>1 DEF Holds, Critical
  <2> QED BY <2>1, <2>3, <2>4, <2>5, QuietMove
<1> QED BY <1>1, <1>2, <1>3, <1>4

\* Connect, redirect and fetchRedirectHost: a call begins, and asks the system database.
LEMMA RedirectKeeps ==
  ASSUME IInv, NEW p \in Procs, RestType', Connect(p) \/ FetchDial(p) \/ FetchProlog(p) \/ FetchInfo(p)
  PROVE  IInv'
<1>a. proc[p] \in ProcType /\ NoAuth \in AuthType /\ NoCookie \in CookieType /\ RestType
  BY TypedNoAuth DEF IInv
<1>b. Asked(proc[p])
  BY DEF IInv, Rec
<1>1. CASE Connect(p)
  <2> DEFINE r == [Idle EXCEPT !.pc = "connect", !.calm = (srv = store), !.deadThen = dead]
             c == [r EXCEPT !.pc = "connect", !.host = cache, !.from = "cache"]
             f == [r EXCEPT !.pc = "fetch"]
             n == IF config.database THEN (IF cache # Own THEN c ELSE f) ELSE r
  <2>1. Goes(p, n) /\ UNCHANGED <<config, hasCookie, cookie, cbmu>>
    BY <1>1 DEF Connect, Redirect, connVars
  <2>2. Idle \in ProcType /\ Idle.from = "none" /\ Idle.auth = NoAuth
    BY <1>a, ZenonT(60) DEF Idle, ProcType, PCs
  <2>3. (srv = store) \in BOOLEAN /\ dead \in SUBSET (0 .. MaxCookies) /\ cache \in Hosts \cup {Own}
    BY <1>a DEF RestType
  <2>4. r \in ProcType
    BY <2>2, <2>3, ZenonT(60) DEF ProcType, PCs
  <2>5. r.pc = "connect" /\ r.from = "none"
    BY <2>2 DEF ProcType
  <2> HIDE DEF r
  <2>6. c \in ProcType /\ f \in ProcType
    BY <2>3, <2>4, ZenonT(60) DEF ProcType, PCs
  <2>7. c.pc = "connect" /\ c.from = "cache" /\ f.pc = "fetch" /\ f.from = "none"
    BY <2>4, <2>5 DEF ProcType
  <2> HIDE DEF c, f
  <2>8. /\ n \in ProcType /\ n.pc \in {"connect", "fetch"} /\ n.from \in {"none", "cache"}
        /\ config.database /\ n.pc = "connect" => n.from = "cache"
    BY <2>4, <2>5, <2>6, <2>7
  <2> HIDE DEF n
  <2>9. Rec(n) /\ ~Holds(n)
    BY <2>8 DEF Rec, Asked, Holds, Critical
  <2> QED BY <2>1, <2>8, <2>9, Moves DEF IInv
<1>2. CASE FetchDial(p)
  <2> DEFINE d == [proc[p] EXCEPT !.pc = "fetchProlog", !.asked = TRUE]
             e == [Ends(p, "err") EXCEPT !.asked = TRUE]
  <2>1. UNCHANGED <<config, hasCookie, cookie, cbmu>> /\ (Goes(p, d) \/ Goes(p, e))
    BY <1>2 DEF FetchDial, connVars
  <2>2. d \in ProcType
    BY <1>a, ZenonT(60) DEF ProcType, PCs
  <2>3. d.pc = "fetchProlog" /\ d.asked = TRUE
    BY <1>a DEF ProcType
  <2>4. Ends(p, "err") \in ProcType /\ Ends(p, "err").pc = "idle" /\ Ends(p, "err").from = "none"
    BY EndsType
  <2>5. e \in ProcType
    BY <2>4, ZenonT(60) DEF ProcType
  <2>6. e.pc = "idle" /\ e.asked = TRUE
    BY <2>4 DEF ProcType
  <2> HIDE DEF d, e
  <2>7. Rec(d) /\ ~Holds(d)
    BY <2>2, <2>3 DEF Rec, Asked, Holds, Critical
  <2>8. Rec(e) /\ ~Holds(e)
    BY <2>5, <2>6 DEF Rec, Asked, Holds, Critical
  <2>9. CASE Goes(p, d)
    BY <2>1, <2>3, <2>7, <2>9, Moves DEF IInv
  <2>10. CASE Goes(p, e)
    BY <2>1, <2>6, <2>8, <2>10, Moves DEF IInv
  <2> QED BY <2>1, <2>9, <2>10
<1>2a. CASE FetchProlog(p)
  <2> DEFINE d == [proc[p] EXCEPT !.pc = "dbConnectInfo"]
             e == Ends(p, "err")
  <2>1. UNCHANGED <<config, hasCookie, cookie, cbmu>> /\ (Goes(p, d) \/ Goes(p, e))
        /\ proc[p].pc = "fetchProlog"
    BY <1>2a DEF FetchProlog, connVars, To
  <2>2. d \in ProcType
    BY <1>a, ZenonT(60) DEF ProcType, PCs
  <2>3. d.pc = "dbConnectInfo" /\ d.asked = proc[p].asked
    BY <1>a DEF ProcType
  <2>4. e \in ProcType /\ e.pc = "idle" /\ e.from = "none" /\ e.asked = (proc[p].asked /\ "err" # "ok")
    BY EndsType
  <2>5. config.database => proc[p].asked
    BY <1>b, <2>1 DEF Asked
  <2> HIDE DEF d, e
  <2>6. Rec(d) /\ ~Holds(d)
    BY <2>2, <2>3, <2>5 DEF Rec, Asked, Holds, Critical
  <2>7. Rec(e) /\ ~Holds(e)
    BY <2>4, <2>5 DEF Rec, Asked, Holds, Critical
  <2>8. CASE Goes(p, d)
    BY <2>1, <2>3, <2>6, <2>8, Moves DEF IInv
  <2>9. CASE Goes(p, e)
    BY <2>1, <2>4, <2>7, <2>9, Moves DEF IInv
  <2> QED BY <2>1, <2>8, <2>9
<1>3. CASE FetchInfo(p)
  <2> DEFINE c == [proc[p] EXCEPT !.pc = "connect", !.host = tenant, !.from = "fetched"]
             e == Ends(p, "err")
  <2>1. UNCHANGED <<config, hasCookie, cookie, cbmu>> /\ (Goes(p, c) \/ Goes(p, e))
        /\ proc[p].pc = "dbConnectInfo"
    BY <1>3 DEF FetchInfo, connVars
  <2>2. tenant \in Hosts \cup {Own}
    BY <1>a DEF RestType
  <2>3. c \in ProcType
    BY <1>a, <2>2, ZenonT(60) DEF ProcType, PCs
  <2>4. c.pc = "connect" /\ c.from = "fetched" /\ c.asked = proc[p].asked
    BY <1>a DEF ProcType
  <2>5. e \in ProcType /\ e.pc = "idle" /\ e.from = "none" /\ e.asked = (proc[p].asked /\ "err" # "ok")
    BY EndsType
  <2>6. config.database => proc[p].asked
    BY <1>b, <2>1 DEF Asked
  <2> HIDE DEF c, e
  <2>7. Rec(c) /\ ~Holds(c)
    BY <2>3, <2>4, <2>6 DEF Rec, Asked, Holds, Critical
  <2>8. Rec(e) /\ ~Holds(e)
    BY <2>5, <2>6 DEF Rec, Asked, Holds, Critical
  <2>9. CASE Goes(p, c)
    BY <2>1, <2>4, <2>7, <2>9, Moves DEF IInv
  <2>10. CASE Goes(p, e)
    BY <2>1, <2>5, <2>8, <2>10, Moves DEF IInv
  <2> QED BY <2>1, <2>9, <2>10
<1> QED BY <1>1, <1>2, <1>2a, <1>3

\* The logon: Dial, Prolog, LogonFails, LogonRejected, LogonAccepted, SetCookie, InvalidateCookie.
LEMMA LogonKeeps ==
  ASSUME IInv, NEW p \in Procs, RestType',
         \/ Dial(p) \/ Prolog(p) \/ LogonFails(p) \/ LogonRejected(p) \/ LogonAccepted(p)
         \/ SetCookie(p) \/ InvalidateCookie(p)
  PROVE  IInv'
<1>a. proc[p] \in ProcType /\ NoAuth \in AuthType /\ NoCookie \in CookieType /\ RestType
  BY TypedNoAuth DEF IInv
<1>b. Asked(proc[p])
  BY DEF IInv, Rec
<1>1. CASE Dial(p)
  <2> DEFINE n == [proc[p] EXCEPT !.pc = "prolog"]
  <2>1. UNCHANGED <<config, hasCookie, cookie>> /\ proc[p].pc = "dial"
    BY <1>1 DEF Dial, connVars
  <2>2. CASE Failed(p, "err")
    BY <2>1, <2>2, FailedKeeps
  <2>3. CASE To(p, "prolog") /\ UNCHANGED cbmu
    <3>1. n \in ProcType
      BY <1>a, ZenonT(60) DEF ProcType, PCs
    <3>2. n.pc = "prolog" /\ n.from = proc[p].from /\ n.asked = proc[p].asked
          /\ n.auth = proc[p].auth
      BY <1>a DEF ProcType
    <3>3. Goes(p, n)
      BY <2>3 DEF To
    <3> HIDE DEF n
    <3>4. Holds(n) => Holds(proc[p])
      BY <2>1, <3>2 DEF Holds, Critical
    <3> QED BY <2>1, <2>3, <3>1, <3>2, <3>3, <3>4, QuietMove
  <2> QED BY <1>1, <2>2, <2>3 DEF Dial
<1>1a. CASE Prolog(p)
  <2> DEFINE n == [proc[p] EXCEPT !.pc = "authenticate"]
  <2>1. UNCHANGED <<config, hasCookie, cookie>> /\ proc[p].pc = "prolog"
    BY <1>1a DEF Prolog, connVars
  <2>2. CASE Failed(p, "err")
    BY <2>1, <2>2, FailedKeeps
  <2>3. CASE To(p, "authenticate") /\ UNCHANGED cbmu
    <3>1. n \in ProcType
      BY <1>a, ZenonT(60) DEF ProcType, PCs
    <3>2. n.pc = "authenticate" /\ n.from = proc[p].from /\ n.asked = proc[p].asked
          /\ n.auth = proc[p].auth
      BY <1>a DEF ProcType
    <3>3. Goes(p, n)
      BY <2>3 DEF To
    <3> HIDE DEF n
    <3>4. Holds(n) => Holds(proc[p])
      BY <2>1, <3>2 DEF Holds, Critical
    <3> QED BY <2>1, <2>3, <3>1, <3>2, <3>3, <3>4, QuietMove
  <2> QED BY <1>1a, <2>2, <2>3 DEF Prolog
<1>2. CASE LogonFails(p)
  BY <1>2, FailedKeeps DEF LogonFails, connVars
<1>3. CASE LogonRejected(p)
  <2> DEFINE a == proc[p].auth
             l == IF a.cookie # NoCookie THEN "invalidate" ELSE "refresh"
             n == [proc[p] EXCEPT !.pc = l, !.last = a]
  <2>1. Goes(p, n) /\ UNCHANGED <<config, hasCookie, cookie, cbmu>> /\ proc[p].pc = "authenticate"
    BY <1>3 DEF LogonRejected, connVars
  <2>2. a \in AuthType /\ l \in PCs
    BY <1>a DEF ProcType, PCs
  <2>3. l \in {"invalidate", "refresh"} /\ (l = "refresh" => proc[p].auth.cookie = NoCookie)
    OBVIOUS
  <2> HIDE DEF a, l
  <2>4. n \in ProcType
    BY <1>a, <2>2, ZenonT(60) DEF ProcType
  <2>5. n.pc = l /\ n.from = proc[p].from /\ n.asked = proc[p].asked
    BY <1>a DEF ProcType
  <2> HIDE DEF n
  <2>6. Holds(n) => Holds(proc[p])
    BY <2>1, <2>3, <2>5 DEF Holds, Critical
  <2> QED BY <2>1, <2>3, <2>4, <2>5, <2>6, QuietMove
<1>4. CASE LogonAccepted(p)
  <2>1. UNCHANGED <<config, hasCookie, cookie>> /\ proc[p].pc = "authenticate"
    BY <1>4 DEF LogonAccepted, connVars
  <2> PICK m \in Offered(proc[p].auth) :
        \/ /\ m.mt = "JWT"
           /\ Goes(p, [proc[p] EXCEPT !.pc = "setCookie",
                         !.issued = [id |-> issued + 1, logonname |-> issued + 1]])
           /\ issued < MaxCookies /\ UNCHANGED <<conns, cbmu, cache>>
        \/ Connected(p)
    BY <1>4 DEF LogonAccepted
  <2>2. CASE Connected(p)
    BY <2>1, <2>2, ConnectedKeeps DEF IInv
  <2>3. CASE /\ m.mt = "JWT"
             /\ Goes(p, [proc[p] EXCEPT !.pc = "setCookie",
                           !.issued = [id |-> issued + 1, logonname |-> issued + 1]])
             /\ issued < MaxCookies /\ UNCHANGED <<conns, cbmu, cache>>
    <3> DEFINE c == [id |-> issued + 1, logonname |-> issued + 1]
               n == [proc[p] EXCEPT !.pc = "setCookie", !.issued = c]
    <3>1. Goes(p, n)
      BY <2>3
    <3>2. c \in CookieType /\ c # NoCookie
      BY <1>a, <2>3, ConfigAssumption DEF CookieType, NoCookie, RestType, ConfigAssumption
    <3> HIDE DEF c
    <3>3. n \in ProcType
      BY <1>a, <3>2, ZenonT(60) DEF ProcType, PCs
    <3>4. n.pc = "setCookie" /\ n.from = proc[p].from /\ n.asked = proc[p].asked /\ n.issued = c
      BY <1>a DEF ProcType
    <3> HIDE DEF n
    <3>5. proc[p].auth.cookie = NoCookie
      <4> SUFFICES ASSUME proc[p].auth.cookie # NoCookie PROVE FALSE
        OBVIOUS
      <4>1. m = [mt |-> "SessionCookie", kind |-> "cookie"]
        BY DEF Offered
      <4> QED BY <2>3, <4>1
    <3>6. cbmu = p
      BY <2>1, <3>5 DEF IInv, Holds
    <3>7. Rec(n)
      BY <1>b, <2>1, <3>2, <3>3, <3>4 DEF Rec, Asked
    <3> QED BY <2>1, <2>3, <3>1, <3>4, <3>6, <3>7, Moves DEF IInv
  <2> QED BY <2>2, <2>3
<1>5. CASE SetCookie(p)
  <2>1. proc[p].issued # NoCookie
    BY <1>5 DEF SetCookie, IInv, Rec
  <2> QED BY <1>5, <2>1, ConnectedKeeps DEF SetCookie
<1>6. CASE InvalidateCookie(p)
  <2> DEFINE n == [proc[p] EXCEPT !.pc = "lock", !.auth = NoAuth, !.last = NoAuth]
  <2>1. Goes(p, n) /\ UNCHANGED <<config, cookie, cbmu>> /\ ~hasCookie' /\ proc[p].pc = "invalidate"
    BY <1>6 DEF InvalidateCookie
  <2>2. n \in ProcType
    BY <1>a, ZenonT(60) DEF ProcType, PCs
  <2>3. n.pc = "lock" /\ n.from = proc[p].from /\ n.asked = proc[p].asked
    BY <1>a DEF ProcType
  <2> HIDE DEF n
  <2>4. Rec(n) /\ ~Holds(n)
    BY <1>b, <2>1, <2>2, <2>3 DEF Rec, Asked, Holds, Critical
  <2> QED BY <2>1, <2>3, <2>4, Moves
<1> QED BY <1>1, <1>1a, <1>2, <1>3, <1>4, <1>5, <1>6

\* refresh, and the callbacks: the goroutine holds cbmu before and after each step of it.
LEMMA RefreshKeeps ==
  ASSUME IInv, NEW p \in Procs, RestType',
         \/ RefreshLock(p) \/ RefreshEnd(p) \/ Refreshed(p) \/ CertKeyInvalid(p)
         \/ (\E k \in Kinds : CallRefresh(p, k)) \/ (\E ok \in BOOLEAN : Callback(p, ok))
  PROVE  IInv'
<1>a. proc[p] \in ProcType /\ RestType
  BY DEF IInv
<1>1. ASSUME NEW n, Goes(p, n), n \in ProcType, UNCHANGED <<config, hasCookie, cookie, cbmu>>,
             proc[p].pc \in Critical, n.pc \in Critical,
             n.from = proc[p].from, n.asked = proc[p].asked
      PROVE  IInv'
  <2>1. Holds(proc[p])
    BY <1>1 DEF Holds
  <2>2. \A l \in Critical : l \notin {"idle", "fetch", "fetchProlog", "dbConnectInfo", "setCookie", "cookieAuth"}
    BY DEF Critical
  <2> QED BY <1>1, <2>1, <2>2, QuietMove
<1>2. CASE RefreshLock(p)
  <2> DEFINE n == [proc[p] EXCEPT !.pc = "next", !.todo = config.callbacks, !.refreshed = FALSE]
  <2>1. Goes(p, n) /\ UNCHANGED <<config, hasCookie, cookie, cbmu>> /\ proc[p].pc = "refresh"
    BY <1>2 DEF RefreshLock, connVars
  <2>2. config.callbacks \in SUBSET Kinds
    BY <1>a, ConfigAssumption DEF RestType, ConfigAssumption
  <2>3. n \in ProcType
    BY <1>a, <2>2, ZenonT(60) DEF ProcType, PCs
  <2>4. n.pc = "next" /\ n.from = proc[p].from /\ n.asked = proc[p].asked
    BY <1>a DEF ProcType
  <2> HIDE DEF n
  <2>5. proc[p].pc \in Critical /\ n.pc \in Critical
    BY <2>1, <2>4 DEF Critical
  <2> QED BY <1>1, <2>1, <2>3, <2>4, <2>5
<1>3. CASE \E k \in Kinds : CallRefresh(p, k)
  <2> PICK k \in Kinds : CallRefresh(p, k)
    BY <1>3
  <2> DEFINE t == proc[p].todo \ {k}
             n == [proc[p] EXCEPT !.pc = "callback", !.todo = t, !.ret = k]
  <2>1. Goes(p, n) /\ UNCHANGED <<config, hasCookie, cookie, cbmu>> /\ proc[p].pc = "next"
    BY DEF CallRefresh, connVars
  <2>2. t \in SUBSET Kinds /\ k \in Kinds \cup {"none"}
    BY <1>a DEF ProcType
  <2> HIDE DEF t
  <2>3. n \in ProcType
    BY <1>a, <2>2, ZenonT(60) DEF ProcType, PCs
  <2>4. n.pc = "callback" /\ n.from = proc[p].from /\ n.asked = proc[p].asked
    BY <1>a DEF ProcType
  <2> HIDE DEF n
  <2>5. proc[p].pc \in Critical /\ n.pc \in Critical
    BY <2>1, <2>4 DEF Critical
  <2> QED BY <1>1, <2>1, <2>3, <2>4, <2>5
<1>4. CASE \E ok \in BOOLEAN : Callback(p, ok)
  <2> PICK ok \in BOOLEAN : Callback(p, ok)
    BY <1>4
  <2> DEFINE l == IF ok THEN "refreshed" ELSE "refused"
             b == proc[p].calm /\ ok
             n == [proc[p] EXCEPT !.pc = l, !.calm = b]
  <2>1. Goes(p, n) /\ UNCHANGED <<config, hasCookie, cookie, cbmu>> /\ proc[p].pc = "callback"
    BY DEF Callback, connVars
  <2>2. l \in PCs /\ l \in Critical
    BY DEF PCs, Critical
  <2>3. b \in BOOLEAN
    OBVIOUS
  <2> HIDE DEF l, b
  <2>4. n \in ProcType
    BY <1>a, <2>2, <2>3, ZenonT(60) DEF ProcType
  <2>5. n.pc = l /\ n.from = proc[p].from /\ n.asked = proc[p].asked
    BY <1>a DEF ProcType
  <2> HIDE DEF n
  <2>6. proc[p].pc \in Critical
    BY <2>1 DEF Critical
  <2> QED BY <1>1, <2>1, <2>2, <2>4, <2>5, <2>6
<1>5. CASE Refreshed(p)
  <2> DEFINE w == proc[p].pc = "refreshed" /\ store[proc[p].ret] # cred[proc[p].ret]
             b == proc[p].refreshed \/ w
             n == [proc[p] EXCEPT !.pc = "next", !.ret = "none", !.refreshed = b]
  <2>1. Goes(p, n) /\ UNCHANGED <<config, hasCookie, cookie, cbmu>>
        /\ proc[p].pc \in {"refreshed", "refused"}
    BY <1>5 DEF Refreshed
  <2>2. b \in BOOLEAN
    OBVIOUS
  <2> HIDE DEF w, b
  <2>3. n \in ProcType
    BY <1>a, <2>2, ZenonT(60) DEF ProcType, PCs
  <2>4. n.pc = "next" /\ n.from = proc[p].from /\ n.asked = proc[p].asked
    BY <1>a DEF ProcType
  <2> HIDE DEF n
  <2>5. proc[p].pc \in Critical /\ n.pc \in Critical
    BY <2>1, <2>4 DEF Critical
  <2> QED BY <1>1, <2>1, <2>3, <2>4, <2>5
<1>6. CASE CertKeyInvalid(p)
  BY <1>6, FailedKeeps DEF CertKeyInvalid, connVars
<1>7. CASE RefreshEnd(p)
  <2> DEFINE n == [proc[p] EXCEPT !.pc = "authHnd"]
  <2>1. UNCHANGED <<config, hasCookie, cookie>> /\ proc[p].pc = "next"
    BY <1>7 DEF RefreshEnd, connVars
  <2>2. CASE Failed(p, "authErr")
    BY <2>1, <2>2, FailedKeeps
  <2>3. CASE To(p, "authHnd") /\ UNCHANGED cbmu
    <3>1. n \in ProcType
      BY <1>a, ZenonT(60) DEF ProcType, PCs
    <3>2. n.pc = "authHnd" /\ n.from = proc[p].from /\ n.asked = proc[p].asked
      BY <1>a DEF ProcType
    <3>3. Goes(p, n)
      BY <2>3 DEF To
    <3> HIDE DEF n
    <3>4. proc[p].pc \in Critical /\ n.pc \in Critical
      BY <2>1, <3>2 DEF Critical
    <3> QED BY <1>1, <2>1, <2>3, <3>1, <3>2, <3>3, <3>4
  <2> QED BY <1>7, <2>2, <2>3 DEF RefreshEnd
<1> QED BY <1>2, <1>3, <1>4, <1>5, <1>6, <1>7

\* A step of the application or of the environment, which changes at most the history fields
\* touched and calm of the goroutines' records, and neither the cookie nor cbmu.
LEMMA HistoryKeeps ==
  ASSUME IInv, RestType', UNCHANGED <<config, hasCookie, cookie, cbmu>>,
         proc' \in [Procs -> ProcType],
         \A p \in Procs : /\ proc'[p].pc = proc[p].pc /\ proc'[p].res = proc[p].res
                          /\ proc'[p].from = proc[p].from /\ proc'[p].asked = proc[p].asked
                          /\ proc'[p].auth = proc[p].auth /\ proc'[p].issued = proc[p].issued
  PROVE  IInv'
<1>1. ASSUME NEW p \in Procs
      PROVE  /\ Rec(proc'[p])
             /\ Holds(proc'[p]) => cbmu = p
             /\ proc'[p].pc = "cookieAuth" => cookie # NoCookie
  <2>1. Rec(proc[p]) /\ (Holds(proc[p]) => cbmu = p)
    BY DEF IInv
  <2>2. Rec(proc'[p])
    BY <2>1 DEF Rec, Asked
  <2>3. Holds(proc'[p]) => Holds(proc[p])
    BY DEF Holds
  <2> QED BY <2>1, <2>2, <2>3 DEF IInv
<1>2. (\A p \in Procs : Rec(proc[p]))'
  BY <1>1 DEF Rec, Asked
<1>3. (\A p \in Procs : Holds(proc[p]) => cbmu = p)'
  BY <1>1 DEF Holds
<1>4. (\A p \in Procs : proc[p].pc = "cookieAuth" => cookie # NoCookie)'
  BY <1>1
<1> QED BY <1>2, <1>3, <1>4 DEF IInv

\* SetPassword, Close and the table output parameters of the application; the server, the secret
\* store and the tenant.
LEMMA EnvKeeps ==
  ASSUME IInv,
         \/ \E v \in 1 .. MaxVersion : SetPassword(v)
         \/ CallDB \/ Close
         \/ \E k \in Kinds : Rotate(k) \/ Publish(k)
         \/ \E i \in valid : CookieExpires(i)
         \/ \E h \in Hosts : TenantMoves(h)
         \/ UNCHANGED vars
  PROVE  IInv'
<1>a. RestType /\ proc \in [Procs -> ProcType]
  BY DEF IInv
<1>1. ASSUME RestType', UNCHANGED <<config, hasCookie, cookie, cbmu, proc>> PROVE IInv'
  BY <1>1, <1>a, HistoryKeeps
<1>2. ASSUME RestType', UNCHANGED <<config, hasCookie, cookie, cbmu>>, Uncalm PROVE IInv'
  <2>1. ASSUME NEW p \in Procs
        PROVE  /\ proc'[p] = [proc[p] EXCEPT !.calm = FALSE]
               /\ proc[p] \in ProcType
    BY <1>a, <1>2 DEF Uncalm
  <2>2. ASSUME NEW p \in Procs PROVE proc'[p] \in ProcType
    <3>1. [proc[p] EXCEPT !.calm = FALSE] \in ProcType
      BY <2>1, ZenonT(60) DEF ProcType
    <3> QED BY <2>1, <3>1
  <2>3. proc' \in [Procs -> ProcType]
    BY <1>2, <2>2 DEF Uncalm
  <2>4. ASSUME NEW p \in Procs
        PROVE  /\ proc'[p].pc = proc[p].pc /\ proc'[p].res = proc[p].res
               /\ proc'[p].from = proc[p].from /\ proc'[p].asked = proc[p].asked
               /\ proc'[p].auth = proc[p].auth /\ proc'[p].issued = proc[p].issued
    <3> DEFINE n == [proc[p] EXCEPT !.calm = FALSE]
    <3>a. proc[p] \in ProcType
      BY <2>1
    <3>1. /\ n.pc = proc[p].pc /\ n.res = proc[p].res /\ n.from = proc[p].from
          /\ n.asked = proc[p].asked /\ n.auth = proc[p].auth /\ n.issued = proc[p].issued
      BY <3>a DEF ProcType
    <3>2. proc'[p] = n
      BY <2>1
    <3> HIDE DEF n
    <3> QED BY <3>1, <3>2
  <2> QED BY <1>2, <2>3, <2>4, HistoryKeeps
<1>3. CASE \E v \in 1 .. MaxVersion : SetPassword(v)
  <2> PICK v \in 1 .. MaxVersion : SetPassword(v)
    BY <1>3
  <2>1. ASSUME NEW p \in Procs
        PROVE  /\ proc'[p] = [proc[p] EXCEPT !.touched = TRUE, !.calm = FALSE]
               /\ proc[p] \in ProcType
    BY <1>a DEF SetPassword
  <2>2. ASSUME NEW p \in Procs PROVE proc'[p] \in ProcType
    <3> DEFINE t == [proc[p] EXCEPT !.touched = TRUE]
               n == [t EXCEPT !.calm = FALSE]
    <3>1. t \in ProcType
      BY <2>1, ZenonT(60) DEF ProcType
    <3>2. proc'[p] = n
      BY <2>1
    <3> HIDE DEF t
    <3>3. n \in ProcType
      BY <3>1, ZenonT(60) DEF ProcType
    <3> QED BY <3>2, <3>3
  <2>3. proc' \in [Procs -> ProcType]
    BY <2>2 DEF SetPassword
  <2>4. ASSUME NEW p \in Procs
        PROVE  /\ proc'[p].pc = proc[p].pc /\ proc'[p].res = proc[p].res
               /\ proc'[p].from = proc[p].from /\ proc'[p].asked = proc[p].asked
               /\ proc'[p].auth = proc[p].auth /\ proc'[p].issued = proc[p].issued
    <3> DEFINE n == [proc[p] EXCEPT !.touched = TRUE, !.calm = FALSE]
    <3>a. proc[p] \in ProcType
      BY <2>1
    <3>1. /\ n.pc = proc[p].pc /\ n.res = proc[p].res /\ n.from = proc[p].from
          /\ n.asked = proc[p].asked /\ n.auth = proc[p].auth /\ n.issued = proc[p].issued
      BY <3>a DEF ProcType
    <3>2. proc'[p] = n
      BY <2>1
    <3> HIDE DEF n
    <3> QED BY <3>1, <3>2
  <2>5. cred' \in [Kinds -> Versions]
    <3>1. v \in Versions
      BY ConfigAssumption DEF Versions, ConfigAssumption
    <3> QED BY <1>a, <3>1 DEF SetPassword, RestType
  <2>6. RestType'
    <3>1. /\ UNCHANGED <<config, hasCookie, cookie, mu, cbmu, cache, numConn, callDB, sockets, conns,
                        srv, store, valid, issued, tenant, moves, calls, dead>>
          /\ sets' = sets + 1
      BY DEF SetPassword
    <3> QED BY <1>a, <2>5, <3>1 DEF RestType
  <2>7. UNCHANGED <<config, hasCookie, cookie, cbmu>>
    BY DEF SetPassword
  <2> QED BY <2>3, <2>4, <2>6, <2>7, HistoryKeeps
<1>4. CASE CallDB
  BY <1>1, <1>4, <1>a DEF CallDB, RestType, connVars, envVars
<1>5. CASE Close
  BY <1>1, <1>5, <1>a DEF Close, RestType, connVars, envVars, Tracker
<1>6. CASE \E k \in Kinds : Rotate(k)
  <2> PICK k \in Kinds : Rotate(k)
    BY <1>6
  <2>1. srv' \in [Kinds -> Versions]
    <3>1. srv \in [Kinds -> Versions] /\ srv[k] < MaxVersion /\ srv' = [srv EXCEPT ![k] = srv[k] + 1]
      BY <1>a DEF Rotate, RestType
    <3>2. srv[k] \in Versions
      BY <3>1
    <3>3. MaxVersion \in Nat
      BY ConfigAssumption DEF ConfigAssumption
    <3>4. srv[k] + 1 \in Versions
      BY <3>1, <3>2, <3>3 DEF Versions
    <3> QED BY <3>1, <3>4
  <2>2. /\ UNCHANGED <<config, cred, hasCookie, cookie, mu, cbmu, cache, numConn, callDB, sockets, conns,
                      store, valid, issued, tenant, moves, sets, calls, dead>>
        /\ Uncalm
    BY DEF Rotate, connVars
  <2>3. RestType'
    BY <1>a, <2>1, <2>2 DEF RestType
  <2> QED BY <1>2, <2>2, <2>3
<1>7. CASE \E k \in Kinds : Publish(k)
  BY <1>1, <1>7, <1>a DEF Publish, RestType, connVars
<1>8. CASE \E i \in valid : CookieExpires(i)
  BY <1>1, <1>8, <1>a DEF CookieExpires, RestType, connVars
<1>9. CASE \E h \in Hosts : TenantMoves(h)
  BY <1>2, <1>9, <1>a DEF TenantMoves, RestType, connVars
<1>10. CASE UNCHANGED vars
  BY <1>1, <1>10, <1>a DEF vars, RestType, connVars, envVars
<1> QED BY <1>3, <1>4, <1>5, <1>6, <1>7, <1>8, <1>9, <1>10

\* A new connector: no call, no cookie, no lock held.
LEMMA InitKeeps ==
  ASSUME Init PROVE IInv
<1>1. NoAuth \in AuthType /\ NoCookie \in CookieType
  BY TypedNoAuth
<1>2. Idle \in ProcType
  BY <1>1, ZenonT(60) DEF Idle, ProcType, PCs
<1>3. Idle.pc = "idle" /\ Idle.res = "none" /\ Idle.from = "none"
  BY DEF Idle
<1>4. RestType
  <2>1. [k \in Kinds |-> 1] \in [Kinds -> Versions]
    BY ConfigAssumption DEF ConfigAssumption, Versions
  <2>2. [k \in Kinds |-> IF k \in config.creds THEN 1 ELSE 0] \in [Kinds -> Versions]
    BY ConfigAssumption DEF ConfigAssumption, Versions
  <2>3. (CHOOSE h \in Hosts : TRUE) \in Hosts
    BY ConfigAssumption DEF ConfigAssumption
  <2>4. config \in Configs /\ hasCookie \in BOOLEAN /\ cookie \in CookieType /\ callDB \in BOOLEAN
    BY <1>1 DEF Init
  <2>5. cred \in [Kinds -> Versions] /\ srv \in [Kinds -> Versions] /\ store \in [Kinds -> Versions]
    BY <2>1, <2>2, Zenon DEF Init
  <2>6. tenant \in Hosts
    BY <2>3 DEF Init
  <2>7. /\ mu \in Procs \cup {NoProc} /\ cbmu \in Procs \cup {NoProc} /\ cache \in Hosts \cup {Own}
        /\ numConn \in Int /\ sockets \in Int /\ conns \in Int
        /\ calls \in Nat /\ moves \in Nat /\ sets \in Nat
        /\ valid \subseteq 1 .. MaxCookies /\ issued \in 0 .. MaxCookies /\ dead \subseteq 0 .. MaxCookies
    BY ConfigAssumption DEF Init, ConfigAssumption
  <2> QED BY <2>4, <2>5, <2>6, <2>7, Zenon DEF RestType
<1>5. proc = [p \in Procs |-> Idle] /\ ~hasCookie
  BY DEF Init
<1>6. Rec(Idle) /\ ~Holds(Idle)
  BY <1>2, <1>3 DEF Rec, Asked, Holds, Critical
<1> HIDE DEF Idle
<1> QED BY <1>2, <1>3, <1>4, <1>5, <1>6 DEF IInv

\* The invariant is inductive: one case for the goroutines, one for everything else.
LEMMA NextKeeps ==
  ASSUME IInv, [Next]_vars PROVE IInv'
<1>1. ASSUME NEW p \in Procs, Connect(p) \/ Lock(p) \/ Step(p) PROVE IInv'
  <2>1. RestType'
    BY <1>1, RestStep
  <2>2. CASE Connect(p) \/ FetchDial(p) \/ FetchProlog(p) \/ FetchInfo(p)
    BY <2>1, <2>2, RedirectKeeps
  <2>3. CASE HasCookie(p) \/ CookieAuth(p) \/ Lock(p) \/ AuthHnd(p)
    BY <2>1, <2>3, ConnectKeeps
  <2>4. CASE \/ Dial(p) \/ Prolog(p) \/ LogonFails(p) \/ LogonRejected(p) \/ LogonAccepted(p)
             \/ SetCookie(p) \/ InvalidateCookie(p)
    BY <2>1, <2>4, LogonKeeps
  <2>5. CASE \/ RefreshLock(p) \/ RefreshEnd(p) \/ Refreshed(p) \/ CertKeyInvalid(p)
             \/ (\E k \in Kinds : CallRefresh(p, k)) \/ (\E ok \in BOOLEAN : Callback(p, ok))
    BY <2>1, <2>5, RefreshKeeps
  <2> QED BY <1>1, <2>2, <2>3, <2>4, <2>5 DEF Step
<1> QED BY <1>1, EnvKeeps DEF Next

\* The inductive invariant holds in every reachable state.
LEMMA Invariant == Spec => []IInv
<1>1. Init => IInv
  BY InitKeeps
<1>2. IInv /\ [Next]_vars => IInv'
  BY NextKeeps
<1> QED BY <1>1, <1>2, PTL DEF Spec

-----------------------------------------------------------------------------
\* Every variable keeps its type (connector.go, conn.go), for any number of goroutines.
THEOREM TypeCorrect == Spec => []TypeOK
<1>1. IInv => TypeOK
  BY DEF IInv, RestType, TypeOK
<1> QED BY <1>1, Invariant, PTL

\* However many goroutines call Connect, and however cookie logons, redirects and failed
\* logons interleave with them, one goroutine at a time is in the refresh loop of connect.
THEOREM RefreshAlone == Spec => []CallbackAlone
<1>1. IInv => CallbackAlone
  BY DEF IInv, CallbackAlone, Holds
<1> QED BY <1>1, Invariant, PTL

\* A Connect to a tenant database that fails has asked the system database for the host: what the
\* redirect cache holds never decides that a call fails.
THEOREM StaleCacheNeverFails == Spec => []StaleCacheHarmless
<1>1. IInv => StaleCacheHarmless
  BY DEF IInv, Rec, Asked, StaleCacheHarmless
<1> QED BY <1>1, Invariant, PTL
=============================================================================
