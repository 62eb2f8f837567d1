----------------------------- MODULE Connector -----------------------------
(***************************************************************************)
(* A Connector (connector.go) whose Connect is called by several           *)
(* goroutines, the logon of a new connection (conn.go, session.go, auth/), *)
(* the refresh callbacks of the application, the redirect to a tenant      *)
(* database, and the connection tracker.                                   *)
(*                                                                         *)
(* A credential is a version: the server accepts one version of each kind  *)
(* (and rotates it), the application's secret store knows one, and the     *)
(* connector holds one (0: not configured).                                *)
(***************************************************************************)
EXTENDS Integers, FiniteSets

CONSTANTS
  Procs,        \* goroutines that call Connect
  NoProc,
  Hosts,        \* hosts of the tenant database
  Own,          \* Connector._host
  Configs,      \* configurations: records [creds, callbacks, user, database]
  MaxCalls,     \* bound: calls of Connect
  MaxVersion,   \* bound: version of a credential
  MaxRotations, \* bound: rotations of a credential
  MaxCookies,   \* bound: session cookies the server issues
  MaxSets,      \* bound: passwords set by the application
  MaxMoves      \* bound: moves of the tenant database

Kinds == {"password", "token", "cert"}
Versions == 0 .. MaxVersion

ASSUME ConfigAssumption ==
  /\ NoProc \notin Procs /\ Own \notin Hosts
  /\ \A c \in Configs : c.creds \subseteq Kinds /\ c.callbacks \subseteq Kinds
                        /\ c.user \in BOOLEAN /\ c.database \in BOOLEAN
  /\ MaxVersion \in Nat \ {0} /\ MaxCookies \in Nat /\ Hosts # {}

VARIABLES
  config,             \* how the connector was made: its credentials and callbacks, whether it has a
                      \* username and a database name
  \* Connector
  cred,               \* _password, _token, _certKey
  hasCookie, cookie,  \* _sessionCookie with its _logonname
  mu, cbmu,           \* holders of the mutexes
  \* package level
  cache,              \* the entry of redirectCache, Own if none
  numConn, callDB,    \* stdConnTracker
  \* goroutines
  proc, calls,
  \* network, server, secret store
  sockets,            \* number of open TCP connections
  conns,              \* number of connections database/sql holds
  srv, store, valid, issued, tenant, moves,
  sets,               \* number of calls of SetPassword
  \* history
  dead                \* cookies that were rejected and then invalidated

connVars == <<cred, hasCookie, cookie>>
envVars  == <<srv, store, valid, issued, tenant, moves, sets, calls>>
vars == <<config, connVars, mu, cbmu, cache, numConn, callDB, proc, sockets,
          conns, envVars, dead>>

-----------------------------------------------------------------------------
NoCookie == [id |-> 0, logonname |-> 0]
NoAuth == [cookie |-> NoCookie, creds |-> [k \in Kinds |-> 0]]

Idle == [pc |-> "idle", host |-> Own, from |-> "none", auth |-> NoAuth,
         last |-> NoAuth, todo |-> {}, ret |-> "none", refreshed |-> FALSE,
         res |-> "none", issued |-> NoCookie,
         \* history of the call: hosts asked for, SetPassword called during the call,
         \* nothing rotated, refused or set during the call, cookies dead when it began
         asked |-> FALSE, touched |-> FALSE, calm |-> FALSE, deadThen |-> {}]

\* NewBasicAuthConnector, NewJWTAuthConnector, NewX509AuthConnector(ByFiles), NewDSNConnector:
\* credentials of the configuration; the secret store may be ahead of them, or behind the server.
Init ==
  /\ config \in Configs
  /\ cred = [k \in Kinds |-> IF k \in config.creds THEN 1 ELSE 0]
  /\ hasCookie = FALSE /\ cookie = NoCookie
  /\ mu = NoProc /\ cbmu = NoProc /\ cache = Own /\ numConn = 0 /\ callDB = FALSE
  /\ proc = [p \in Procs |-> Idle] /\ calls = 0
  /\ sockets = 0 /\ conns = 0
  /\ srv = [k \in Kinds |-> 1] /\ store = srv
  /\ valid = {} /\ issued = 0 /\ tenant = (CHOOSE h \in Hosts : TRUE) /\ moves = 0 /\ sets = 0
  /\ dead = {}

Goes(p, r) == proc' = [proc EXCEPT ![p] = r]
To(p, l) == Goes(p, [proc[p] EXCEPT !.pc = l])

\* Reset of what a call remembers; the call is over.
Ends(p, r) == [proc[p] EXCEPT !.pc = "idle", !.res = r, !.from = "none", !.auth = NoAuth,
                 !.last = NoAuth, !.todo = {}, !.ret = "none", !.refreshed = FALSE, !.host = Own,
                 !.issued = NoCookie, !.touched = FALSE, !.deadThen = {},
                 !.asked = @ /\ r # "ok", !.calm = @ /\ r # "ok"]

Unlocked(p) == IF cbmu = p THEN NoProc ELSE cbmu        \* defer c.cbmu.Unlock()

\* Mutant: a failed connect to the cached host fails the call.
Failed_CacheTrusted(p, r) ==
  /\ Goes(p, Ends(p, r))
  /\ cbmu' = Unlocked(p)

\* connect returns an error.  In redirect, a failed connect to the cached host is ignored.
Failed(p, r) ==
  /\ IF proc[p].from = "cache"
     THEN Goes(p, [proc[p] EXCEPT !.pc = "fetch", !.auth = NoAuth, !.last = NoAuth])
     ELSE Goes(p, Ends(p, r))
  /\ cbmu' = Unlocked(p)

-----------------------------------------------------------------------------
(* Connect, redirect, fetchRedirectHost.                                   *)

\* redirectCache.Load: the cached host of the tenant first, if there is one.
Redirect(r) ==
  IF cache # Own THEN [r EXCEPT !.pc = "connect", !.host = cache, !.from = "cache"]
  ELSE [r EXCEPT !.pc = "fetch"]

Connect(p) ==
  /\ proc[p].pc = "idle" /\ calls < MaxCalls
  /\ LET r == [Idle EXCEPT !.pc = "connect", !.calm = (srv = store), !.deadThen = dead]
     IN  Goes(p, IF config.database THEN Redirect(r) ELSE r)
  /\ calls' = calls + 1
  /\ UNCHANGED <<config, connVars, mu, cbmu, cache, numConn, callDB, sockets, conns,
                 srv, store, valid, issued, tenant, moves, sets, dead>>

\* newConn without authentication: the dialer.
FetchDial(p) ==
  /\ proc[p].pc = "fetch"
  /\ \/ /\ Goes(p, [proc[p] EXCEPT !.pc = "fetchProlog", !.asked = TRUE])
        /\ sockets' = sockets + 1
     \/ /\ Goes(p, [Ends(p, "err") EXCEPT !.asked = TRUE])
        /\ UNCHANGED sockets
  /\ UNCHANGED <<config, connVars, mu, cbmu, cache, numConn, callDB, conns, envVars, dead>>

\* Its prolog, after which the connection is tracked.
FetchProlog(p) ==
  /\ proc[p].pc = "fetchProlog"
  /\ \/ To(p, "dbConnectInfo") /\ numConn' = numConn + 1 /\ UNCHANGED sockets
     \/ Goes(p, Ends(p, "err")) /\ sockets' = sockets - 1 /\ UNCHANGED numConn
  /\ UNCHANGED <<config, connVars, mu, cbmu, cache, callDB, conns, envVars, dead>>

\* stdConnTracker.remove: the last connection takes the DB of table output parameters with it.
Tracker(k) == numConn' = k /\ callDB' = (callDB /\ k > 0)

\* dbConnectInfo and the deferred conn.Close.
FetchInfo(p) ==
  /\ proc[p].pc = "dbConnectInfo"
  /\ \/ Goes(p, [proc[p] EXCEPT !.pc = "connect", !.host = tenant, !.from = "fetched"])
     \/ Goes(p, Ends(p, "err"))
  /\ sockets' = sockets - 1
  /\ Tracker(numConn - 1)
  /\ UNCHANGED <<config, connVars, mu, cbmu, cache, conns, envVars, dead>>

-----------------------------------------------------------------------------
(* connect.                                                                *)

\* The fast path of cookieAuth, which takes no lock.
HasCookie(p) ==
  /\ proc[p].pc = "connect"
  /\ Goes(p, [proc[p] EXCEPT !.pc = IF hasCookie THEN "cookieAuth" ELSE "lock"])
  /\ UNCHANGED <<config, connVars, mu, cbmu, cache, numConn, callDB, sockets, conns,
                 envVars, dead>>

CookieAuth(p) ==
  /\ proc[p].pc = "cookieAuth" /\ mu = NoProc
  /\ Goes(p, [proc[p] EXCEPT !.pc = "dial", !.auth = [NoAuth EXCEPT !.cookie = cookie]])
  /\ UNCHANGED <<config, connVars, mu, cbmu, cache, numConn, callDB, sockets, conns,
                 envVars, dead>>

\* Mutant: refresh calls are not synchronized.
Lock_Free(p) ==
  /\ proc[p].pc = "lock"
  /\ cbmu' = p
  /\ To(p, "authHnd")
  /\ UNCHANGED <<config, connVars, mu, cache, numConn, callDB, sockets, conns, envVars,
                 dead>>

\* c.cbmu.Lock().
Lock(p) ==
  /\ proc[p].pc = "lock" /\ cbmu = NoProc
  /\ cbmu' = p
  /\ To(p, "authHnd")
  /\ UNCHANGED <<config, connVars, mu, cache, numConn, callDB, sockets, conns, envVars,
                 dead>>

AuthHnd(p) ==
  /\ proc[p].pc = "authHnd" /\ mu = NoProc
  /\ Goes(p, [proc[p] EXCEPT !.pc = "dial", !.auth = [NoAuth EXCEPT !.creds = cred]])
  /\ UNCHANGED <<config, connVars, mu, cbmu, cache, numConn, callDB, sockets, conns,
                 envVars, dead>>

\* newDBConn: the dialer.
Dial(p) ==
  /\ proc[p].pc = "dial"
  /\ \/ To(p, "prolog") /\ sockets' = sockets + 1 /\ UNCHANGED cbmu
     \/ Failed(p, "err") /\ UNCHANGED sockets
  /\ UNCHANGED <<config, connVars, mu, cache, numConn, callDB, conns, envVars, dead>>

\* Mutant: the TCP connection stays open when the prolog fails.
Prolog_NoClose(p) ==
  /\ proc[p].pc = "prolog"
  /\ \/ To(p, "authenticate") /\ UNCHANGED <<sockets, cbmu>>
     \/ Failed(p, "err") /\ UNCHANGED sockets
  /\ UNCHANGED <<config, connVars, mu, cache, numConn, callDB, conns, envVars, dead>>

\* WriteProlog, ReadProlog: when one fails, newSession closes the TCP connection.
Prolog(p) ==
  /\ proc[p].pc = "prolog"
  /\ \/ To(p, "authenticate") /\ UNCHANGED <<sockets, cbmu>>
     \/ Failed(p, "err") /\ sockets' = sockets - 1
  /\ UNCHANGED <<config, connVars, mu, cache, numConn, callDB, conns, envVars, dead>>

\* The methods of an authHnd, in the order of Methods.Order: what the server may select, with
\* the credential behind it.  Without user and token a password is offered as a token.
Offered(a) ==
  IF a.cookie # NoCookie THEN {[mt |-> "SessionCookie", kind |-> "cookie"]}
  ELSE {[mt |-> "X509", kind |-> "cert"]     : k \in {k \in {"cert"} : a.creds[k] # 0}} \cup
       {[mt |-> "JWT", kind |-> "token"]     : k \in {k \in {"token"} : a.creds[k] # 0}} \cup
       {[mt |-> "JWT", kind |-> "password"]  : k \in {k \in {"password"} :
                            a.creds["token"] = 0 /\ ~config.user /\ a.creds[k] # 0}} \cup
       {[mt |-> t, kind |-> "password"]      : t \in {t \in {"SCRAMPBKDF2SHA256", "SCRAMSHA256"} :
                            a.creds["password"] # 0}}

\* A certificate out of its validity period: PrepareInitReq fails and nothing is sent.
Expired(a) == a.creds["cert"] # 0 /\ a.creds["cert"] # srv["cert"]

\* The server takes the credential behind the method it selected.
Accepts(a, m) ==
  IF m.kind = "cookie" THEN a.cookie.id \in valid ELSE a.creds[m.kind] = srv[m.kind]

\* The tenant is where it is; another host does not know the database.
Reached(p) == config.database => proc[p].host = tenant

\* Reading or writing fails, the server answers with another error than a failed
\* authentication, selects a method that was not offered, the session id is invalid, or the
\* default schema cannot be set.
LogonFails(p) ==
  /\ proc[p].pc = "authenticate"
  /\ sockets' = sockets - 1
  /\ Failed(p, "err")
  /\ UNCHANGED <<config, connVars, mu, cache, numConn, callDB, conns, envVars, dead>>

\* isAuthError: the server rejects the credential, or the certificate is out of its period.
LogonRejected(p) ==
  /\ proc[p].pc = "authenticate"
  /\ LET a == proc[p].auth
     IN  /\ \/ Expired(a)
            \/ ~Expired(a) /\ Reached(p) /\ \E m \in Offered(a) : ~Accepts(a, m)
            \/ ~Expired(a) /\ Reached(p) /\ Offered(a) = {}
         /\ Goes(p, [proc[p] EXCEPT !.pc = IF a.cookie # NoCookie THEN "invalidate" ELSE "refresh",
                       !.last = a])
  /\ sockets' = sockets - 1
  /\ UNCHANGED <<config, connVars, mu, cbmu, cache, numConn, callDB, conns, envVars, dead>>

\* The connection is handed to database/sql; after redirect its host is cached.
Connected(p) ==
  /\ Goes(p, Ends(p, "ok"))
  /\ conns' = conns + 1
  /\ cbmu' = Unlocked(p)
  /\ cache' = IF proc[p].from = "fetched" THEN proc[p].host ELSE cache

\* authenticate succeeds.  A JWT logon also returns a session cookie and its logon name.
LogonAccepted(p) ==
  /\ proc[p].pc = "authenticate" /\ Reached(p) /\ ~Expired(proc[p].auth)
  /\ numConn' = numConn + 1
  /\ \E m \in Offered(proc[p].auth) :
       /\ Accepts(proc[p].auth, m)
       /\ \/ /\ m.mt = "JWT" /\ issued < MaxCookies
             /\ issued' = issued + 1 /\ valid' = valid \cup {issued + 1}
             /\ Goes(p, [proc[p] EXCEPT !.pc = "setCookie",
                           !.issued = [id |-> issued + 1, logonname |-> issued + 1]])
             /\ UNCHANGED <<conns, cbmu, cache>>
          \/ /\ m.mt # "JWT"
             /\ Connected(p)
             /\ UNCHANGED <<issued, valid>>
  /\ UNCHANGED <<config, connVars, mu, callDB, sockets, srv, store, tenant, moves, sets,
                 calls, dead>>

SetCookie(p) ==
  /\ proc[p].pc = "setCookie" /\ mu = NoProc
  /\ hasCookie' = TRUE /\ cookie' = proc[p].issued
  /\ Connected(p)
  /\ UNCHANGED <<config, cred, mu, numConn, callDB, sockets, envVars, dead>>

\* Mutant: the rejected cookie stays in use.
InvalidateCookie_Not(p) ==
  /\ proc[p].pc = "invalidate"
  /\ dead' = dead \cup {proc[p].auth.cookie.id}
  /\ Goes(p, [proc[p] EXCEPT !.pc = "lock", !.auth = NoAuth, !.last = NoAuth])
  /\ UNCHANGED <<config, connVars, mu, cbmu, cache, numConn, callDB, sockets, conns,
                 envVars>>

\* invalidateCookie, without a lock and whatever the cookie is by now.
InvalidateCookie(p) ==
  /\ proc[p].pc = "invalidate"
  /\ hasCookie' = FALSE
  /\ dead' = dead \cup {proc[p].auth.cookie.id}
  /\ Goes(p, [proc[p] EXCEPT !.pc = "lock", !.auth = NoAuth, !.last = NoAuth])
  /\ UNCHANGED <<config, cred, cookie, mu, cbmu, cache, numConn, callDB, sockets,
                 conns, envVars>>

-----------------------------------------------------------------------------
(* refresh.                                                                *)

\* c.mu.Lock(), before the first callback.
RefreshLock(p) ==
  /\ proc[p].pc = "refresh" /\ mu = NoProc
  /\ mu' = p
  /\ Goes(p, [proc[p] EXCEPT !.pc = "next", !.todo = config.callbacks, !.refreshed = FALSE])
  /\ UNCHANGED <<config, connVars, cbmu, cache, numConn, callDB, sockets, conns, envVars,
                 dead>>

\* Mutant: the callback is called with the attributes locked.
CallRefresh_Locked(p, k) ==
  /\ proc[p].pc = "next" /\ k \in proc[p].todo
  /\ k = "token" => "password" \notin proc[p].todo
  /\ k = "cert" => proc[p].todo = {"cert"}
  /\ Goes(p, [proc[p] EXCEPT !.pc = "callback", !.todo = @ \ {k}, !.ret = k])
  /\ UNCHANGED <<config, connVars, mu, cbmu, cache, numConn, callDB, sockets, conns,
                 envVars, dead>>

\* callRefreshPassword, callRefreshToken, callRefreshClientCert, in this order: "unlock attr,
\* so that callback can call attr methods".
CallRefresh(p, k) ==
  /\ proc[p].pc = "next" /\ k \in proc[p].todo
  /\ k = "token" => "password" \notin proc[p].todo
  /\ k = "cert" => proc[p].todo = {"cert"}
  /\ mu' = NoProc
  /\ Goes(p, [proc[p] EXCEPT !.pc = "callback", !.todo = @ \ {k}, !.ret = k])
  /\ UNCHANGED <<config, connVars, cbmu, cache, numConn, callDB, sockets, conns, envVars,
                 dead>>

\* The callback (external): it reads an attribute of the connector, then returns the credential
\* of the secret store, or ok = false.
Callback(p, ok) ==
  /\ proc[p].pc = "callback" /\ mu = NoProc
  /\ Goes(p, [proc[p] EXCEPT !.pc = IF ok THEN "refreshed" ELSE "refused", !.calm = @ /\ ok])
  /\ UNCHANGED <<config, connVars, mu, cbmu, cache, numConn, callDB, sockets, conns,
                 envVars, dead>>

\* Mutant: a callback that returns what the connector has counts as a refresh.
Refreshed_Always(p) ==
  /\ proc[p].pc \in {"refreshed", "refused"} /\ mu = NoProc
  /\ LET k == proc[p].ret
     IN  /\ cred' = IF proc[p].pc = "refreshed" THEN [cred EXCEPT ![k] = store[k]] ELSE cred
         /\ Goes(p, [proc[p] EXCEPT !.pc = "next", !.ret = "none", !.refreshed = TRUE])
  /\ mu' = p
  /\ UNCHANGED <<config, hasCookie, cookie, cbmu, cache, numConn, callDB, sockets,
                 conns, envVars, dead>>

\* The deferred c.mu.Lock(), and the credential is replaced if it is another one.
Refreshed(p) ==
  /\ proc[p].pc \in {"refreshed", "refused"} /\ mu = NoProc
  /\ LET k   == proc[p].ret
         new == proc[p].pc = "refreshed" /\ store[k] # cred[k]
     IN  /\ cred' = IF new THEN [cred EXCEPT ![k] = store[k]] ELSE cred
         /\ Goes(p, [proc[p] EXCEPT !.pc = "next", !.ret = "none", !.refreshed = @ \/ new])
  /\ mu' = p
  /\ UNCHANGED <<config, hasCookie, cookie, cbmu, cache, numConn, callDB, sockets,
                 conns, envVars, dead>>

\* NewCertKey refuses what the callback returned: refresh returns an error, and what it changed
\* before stays changed.
CertKeyInvalid(p) ==
  /\ proc[p].pc = "refreshed" /\ proc[p].ret = "cert" /\ mu = NoProc
  /\ store["cert"] # cred["cert"]
  /\ Failed(p, "err")
  /\ UNCHANGED <<config, connVars, mu, cache, numConn, callDB, sockets, conns, envVars,
                 dead>>

\* The end of refresh.  Without a callback for it a certificate that was read from files is only
\* replaced if reading the files fails (the check of err is inverted); reading them succeeds.
RefreshEnd(p) ==
  /\ proc[p].pc = "next" /\ proc[p].todo = {} /\ mu = p
  /\ mu' = NoProc
  /\ IF proc[p].refreshed THEN To(p, "authHnd") /\ UNCHANGED cbmu ELSE Failed(p, "authErr")
  /\ UNCHANGED <<config, connVars, cache, numConn, callDB, sockets, conns, envVars, dead>>

-----------------------------------------------------------------------------
(* The application.                                                        *)

\* SetPassword.  The other credentials have no setter.
SetPassword(v) ==
  /\ mu = NoProc /\ sets < MaxSets /\ "password" \in config.creds /\ v # cred["password"]
  /\ sets' = sets + 1
  /\ cred' = [cred EXCEPT !["password"] = v]
  /\ proc' = [p \in Procs |-> [proc[p] EXCEPT !.touched = TRUE, !.calm = FALSE]]
  /\ UNCHANGED <<config, hasCookie, cookie, mu, cbmu, cache, numConn, callDB,
                 sockets, conns, srv, store, valid, issued, tenant, moves, calls, dead>>

\* A stored procedure returns a table: connTracker.callDB.
CallDB ==
  /\ conns > 0 /\ ~callDB
  /\ callDB' = TRUE
  /\ UNCHANGED <<config, connVars, mu, cbmu, cache, numConn, proc, sockets, conns, envVars,
                 dead>>

\* conn.Close by database/sql.
Close ==
  /\ conns > 0
  /\ conns' = conns - 1 /\ sockets' = sockets - 1
  /\ Tracker(numConn - 1)
  /\ UNCHANGED <<config, connVars, mu, cbmu, cache, proc, envVars, dead>>

-----------------------------------------------------------------------------
(* The server, the secret store and the tenant (external).                 *)

Uncalm == proc' = [p \in Procs |-> [proc[p] EXCEPT !.calm = FALSE]]

Rotate(k) ==
  /\ k \in config.creds /\ srv[k] < MaxVersion
  /\ srv["password"] + srv["token"] + srv["cert"] < 3 + MaxRotations
  /\ srv' = [srv EXCEPT ![k] = @ + 1]
  /\ Uncalm
  /\ UNCHANGED <<config, connVars, mu, cbmu, cache, numConn, callDB, sockets, conns, store,
                 valid, issued, tenant, moves, sets, calls, dead>>

Publish(k) ==
  /\ store[k] # srv[k]
  /\ store' = [store EXCEPT ![k] = srv[k]]
  /\ UNCHANGED <<config, connVars, mu, cbmu, cache, numConn, callDB, proc, sockets, conns,
                 srv, valid, issued, tenant, moves, sets, calls, dead>>

CookieExpires(i) ==
  /\ valid' = valid \ {i}
  /\ UNCHANGED <<config, connVars, mu, cbmu, cache, numConn, callDB, proc, sockets, conns,
                 srv, store, issued, tenant, moves, sets, calls, dead>>

TenantMoves(h) ==
  /\ config.database /\ moves < MaxMoves /\ h # tenant
  /\ tenant' = h /\ moves' = moves + 1
  /\ Uncalm
  /\ UNCHANGED <<config, connVars, mu, cbmu, cache, numConn, callDB, sockets, conns, srv,
                 store, valid, issued, sets, calls, dead>>

-----------------------------------------------------------------------------
Step(p) ==
  \/ FetchDial(p) \/ FetchProlog(p) \/ FetchInfo(p)
  \/ HasCookie(p) \/ CookieAuth(p) \/ AuthHnd(p) \/ Dial(p) \/ Prolog(p)
  \/ LogonFails(p) \/ LogonRejected(p) \/ LogonAccepted(p)
  \/ SetCookie(p) \/ InvalidateCookie(p)
  \/ RefreshLock(p) \/ RefreshEnd(p)
  \/ \E k \in Kinds : CallRefresh(p, k)
  \/ \E ok \in BOOLEAN : Callback(p, ok)
  \/ Refreshed(p) \/ CertKeyInvalid(p)

Next ==
  \/ \E p \in Procs : Connect(p) \/ Lock(p) \/ Step(p)
  \/ \E v \in 1 .. MaxVersion : SetPassword(v)
  \/ CallDB \/ Close
  \/ \E k \in Kinds : Rotate(k) \/ Publish(k)
  \/ \E i \in valid : CookieExpires(i)
  \/ \E h \in Hosts : TenantMoves(h)

Spec == Init /\ [][Next]_vars

\* Goroutines run and callbacks return; a sync.Mutex does not starve a goroutine that waits.
Fairness == \A p \in Procs : WF_vars(Step(p)) /\ SF_vars(Lock(p))
FairSpec == Spec /\ Fairness
-----------------------------------------------------------------------------
PCs == {"idle", "fetch", "fetchProlog", "dbConnectInfo", "connect", "cookieAuth", "lock", "authHnd",
        "dial", "prolog", "authenticate", "setCookie", "invalidate", "refresh", "next", "callback",
        "refreshed", "refused"}
CookieType == [id : 0 .. MaxCookies, logonname : 0 .. MaxCookies]
AuthType == [cookie : CookieType, creds : [Kinds -> Versions]]
ProcType ==
  [pc : PCs, host : Hosts \cup {Own}, from : {"none", "cache", "fetched"},
   auth : AuthType, last : AuthType, todo : SUBSET Kinds, ret : Kinds \cup {"none"},
   refreshed : BOOLEAN, res : {"none", "ok", "err", "authErr"}, issued : CookieType,
   asked : BOOLEAN, touched : BOOLEAN, calm : BOOLEAN, deadThen : SUBSET (0 .. MaxCookies)]

\* Type invariant of the connector, the goroutines in Connect and their environment.
TypeOK ==
  /\ config \in Configs
  /\ cred \in [Kinds -> Versions] /\ hasCookie \in BOOLEAN /\ cookie \in CookieType
  /\ mu \in Procs \cup {NoProc} /\ cbmu \in Procs \cup {NoProc}
  /\ cache \in Hosts \cup {Own} /\ callDB \in BOOLEAN
  /\ proc \in [Procs -> ProcType]
  /\ numConn \in Int /\ sockets \in Int /\ conns \in Int
  /\ calls \in Nat /\ moves \in Nat /\ sets \in Nat
  /\ srv \in [Kinds -> Versions] /\ store \in [Kinds -> Versions]
  /\ valid \subseteq 1 .. MaxCookies /\ issued \in 0 .. MaxCookies /\ tenant \in Hosts
  /\ dead \subseteq 0 .. MaxCookies

\* Between c.cbmu.Lock() and its deferred Unlock.
Critical == {"authHnd", "refresh", "next", "callback", "refreshed", "refused"}

\* SetRefreshPassword: "the callback function might be called simultaneously from multiple
\* goroutines only if registered for more than one Connector": at most one goroutine is in the
\* refresh loop, and it alone holds cbmu.
CallbackAlone ==
  \A p, q \in Procs : proc[p].pc \in Critical /\ proc[q].pc \in Critical => p = q

\* "no connection retry in case no refresh took place": the logon data of a retry differ from
\* the data that were just rejected, unless the application itself set the password during the call
\* (the server locks a user after a few invalid attempts).
RetryWithNews ==
  \A p \in Procs : proc[p].pc \in {"dial", "prolog", "authenticate"} /\ proc[p].last # NoAuth
                    /\ ~proc[p].touched => proc[p].auth # proc[p].last

\* "cookie auth was not successful - do not try again with the same data": a session cookie goes
\* with the logon name of the logon that returned it, and a call that began after a cookie was
\* rejected and invalidated does not send it again, however the two were interleaved with
\* other logons.
CookieOnce ==
  \A p \in Procs : proc[p].auth.cookie # NoCookie =>
    /\ proc[p].auth.cookie.logonname = proc[p].auth.cookie.id
    /\ proc[p].auth.cookie.id \notin proc[p].deadThen

\* testAuthRefresh: when every credential has a callback that returns what the server accepts,
\* and nothing changes meanwhile, no concurrent Connect fails with an authentication error.
RefreshSuffices ==
  config.creds \subseteq config.callbacks =>
    \A p \in Procs : proc[p].calm => proc[p].res # "authErr"

\* No path of a failed or redirected logon leaks a TCP connection or a tracker count: open are
\* the connections handed out and those of the goroutines that are in a logon, and the DB of
\* table output parameters does not outlive the last connection.
NothingLeaks ==
  LET At(S) == Cardinality({p \in Procs : proc[p].pc \in S})
  IN  /\ sockets = conns + At({"prolog", "authenticate", "setCookie", "fetchProlog", "dbConnectInfo"})
      /\ numConn = conns + At({"dbConnectInfo", "setCookie"})
      /\ callDB => numConn > 0

\* A cached host that is out of date, or refuses the logon, never fails a Connect: a call that
\* returned an error asked the system database where the tenant is.
StaleCacheHarmless ==
  config.database => \A p \in Procs : proc[p].pc = "idle" /\ proc[p].res \in {"err", "authErr"}
                                => proc[p].asked

\* Every Connect returns, although goroutines wait for each other's refresh and the callbacks
\* call methods of the connector; the secret store has finitely many versions.
ConnectEnds == \A p \in Procs : proc[p].pc # "idle" ~> proc[p].pc = "idle"
============================================================================
