-------------------------------- MODULE Auth --------------------------------
(***************************************************************************)
(* The handshakes of connections that log on at the same time              *)
(* (protocol/auth.go, auth/*.go, session.authenticate): the methods that   *)
(* the client offers, the one that the database selects, the proof of the  *)
(* password, and the caches of SCRAM keys that all handshakes share        *)
(* (auth/list.go).                                                         *)
(*                                                                         *)
(* Cryptography is a term: a key is what it is computed from, a proof is   *)
(* the key and what it signs.  A cache entry points to the method object   *)
(* of the handshake that has computed the key.                             *)
(***************************************************************************)
EXTENDS Integers, Sequences, FiniteSets

CONSTANTS
  Handshakes,     \* one authHnd each
  Logons,         \* what each handshake starts with: methods, password, is the certificate valid
  Salts,          \* salts that the database may choose
  RoundNums,      \* rounds that it may choose
  maxEntry        \* size of a cache: 3

Methods == {"SessionCookie", "X509", "JWT", "SCRAMPBKDF2SHA256", "SCRAMSHA256"}

ASSUME AuthAssumption ==
  /\ maxEntry \in Nat \ {0} /\ Salts \subseteq Nat /\ RoundNums \subseteq Nat
  /\ Logons \subseteq [Handshakes -> [methods : SUBSET Methods, password : STRING, certValid : BOOLEAN]]

VARIABLES
  hnd,      \* AuthHnd and its methods, per handshake
  cache     \* the key cache of each SCRAM method: [idx, keys, values]

authVars == <<hnd, cache>>

Scram == {"SCRAMSHA256", "SCRAMPBKDF2SHA256"}

NoValue == [kind |-> "none"]
NewAuthHnd(ms, pw, valid) ==
  [pc |-> "init", methods |-> ms, password |-> pw, certValid |-> valid, selected |-> "none",
   salt |-> 0, challenge |-> 0, rounds |-> 0, key |-> NoValue, proof |-> NoValue, cookie |-> FALSE,
   final |-> "none", answers |-> "none"]

EmptyCache == [idx |-> 0, keys |-> <<>>, values |-> <<>>]

AuthOff ==
  /\ hnd = [h \in Handshakes |-> NewAuthHnd({}, "none", TRUE)]
  /\ cache = [m \in Scram |-> EmptyCache]

\* connector.authHnd: a new handler, with new methods, for every attempt to log on.
AuthInit ==
  /\ \E l \in Logons : hnd = [h \in Handshakes |-> NewAuthHnd(l[h].methods, l[h].password, l[h].certValid)]
  /\ cache = [m \in Scram |-> EmptyCache]

Goes8(h, r) == hnd' = [hnd EXCEPT ![h] = r]
Fails(h) == Goes8(h, [hnd[h] EXCEPT !.pc = "failed"])

\* Method.PrepareInitReq: a certificate out of its validity period ends the logon.
PrepareInitReq(h) == "X509" \in hnd[h].methods => hnd[h].certValid

\* AuthHnd.InitRequest: all the methods are offered; the database may select any, whatever their order.
InitRequest(h) ==
  /\ hnd[h].pc = "init" /\ hnd[h].methods # {}
  /\ IF ~PrepareInitReq(h) THEN Fails(h)
     ELSE Goes8(h, [hnd[h] EXCEPT !.pc = "initReply"])
  /\ UNCHANGED cache

\* External: what the database may answer to the offer: a method, its salt and challenge of the right
\* length or not, and the number of parameters, or of those inside them, right or wrong.
InitReplies ==
  [mt : Methods \cup {"other"}, salt : Salts, rounds : RoundNums, sized : BOOLEAN,
   num : {"expected", "inner", "outer"}]

\* Method.InitRepDecode: checkSalt, checkServerChallenge.
SCRAMSHA256InitRepDecode(rep) ==
  [ok |-> rep.num = "expected" /\ rep.sized, salt |-> rep.salt, rounds |-> 0]
SCRAMPBKDF2SHA256InitRepDecode(rep) ==
  [ok |-> rep.num = "expected" /\ rep.sized, salt |-> rep.salt, rounds |-> rep.rounds]
X509InitRepDecode(rep) == [ok |-> rep.sized, salt |-> 0, rounds |-> 0]
JWTInitRepDecode == [ok |-> TRUE, salt |-> 0, rounds |-> 0]

InitRepDecode(m, rep) ==
  CASE m = "SCRAMSHA256"       -> SCRAMSHA256InitRepDecode(rep)
    [] m = "SCRAMPBKDF2SHA256" -> SCRAMPBKDF2SHA256InitRepDecode(rep)
    [] m = "X509"              -> X509InitRepDecode(rep)
    [] OTHER                   -> JWTInitRepDecode

\* AuthInitReply.decode, AuthHnd.setMethod.  The challenge is the handshake's own.
InitReply(h, rep) ==
  /\ hnd[h].pc = "initReply"
  /\ LET d == InitRepDecode(rep.mt, rep)
     IN  IF rep.num = "outer" \/ rep.mt \notin hnd[h].methods THEN Fails(h)
         ELSE Goes8(h, [hnd[h] EXCEPT !.pc = IF ~d.ok THEN "failed" ELSE IF rep.mt \in Scram THEN "find" ELSE "final",
                                      !.selected = rep.mt, !.salt = d.salt, !.rounds = d.rounds, !.challenge = h])
  /\ UNCHANGED cache

-----------------------------------------------------------------------------
(* list.go: the key cache.                                                 *)

\* Mutant: the rounds are not compared.
Compare_NoRounds(m, a, b) == hnd[a].password = hnd[b].password /\ hnd[a].salt = hnd[b].salt
\* Compare of SCRAMSHA256 and of SCRAMPBKDF2SHA256.
Compare(m, a, b) ==
  /\ hnd[a].password = hnd[b].password
  /\ hnd[a].salt = hnd[b].salt
  /\ m = "SCRAMPBKDF2SHA256" => hnd[a].rounds = hnd[b].rounds

\* scramsha256Key, scrampbkdf2sha256Key.
valueFn(h) == [kind |-> "key", password |-> hnd[h].password, salt |-> hnd[h].salt, rounds |-> hnd[h].rounds]

\* clientProof.
clientProof(h, key) == [kind |-> "proof", key |-> key, salt |-> hnd[h].salt, server |-> hnd[h].challenge, client |-> h]

\* list.find, under the read lock: the first entry that compares equal.
find(h) ==
  LET m == hnd[h].selected
      c == cache[m]
      hits == {i \in DOMAIN c.keys : Compare(m, c.keys[i], h)}
  IN  /\ hnd[h].pc = "find"
      /\ \/ hits = {} /\ Goes8(h, [hnd[h] EXCEPT !.pc = "compute"])
         \/ \E i \in hits : /\ \A j \in hits : i <= j
                            /\ Goes8(h, [hnd[h] EXCEPT !.pc = "final", !.key = c.values[i]])
      /\ UNCHANGED cache

\* list.Get after the computation: a ring of maxEntry entries.
Insert(c, h) ==
  LET at == c.idx + 1
      next == IF at >= maxEntry THEN 0 ELSE at
  IN  IF c.idx < Len(c.keys) THEN [c EXCEPT !.keys[at] = h, !.values[at] = valueFn(h), !.idx = next]
      ELSE [c EXCEPT !.keys = Append(@, h), !.values = Append(@, valueFn(h)), !.idx = next]

\* list.Get, under the write lock.  Another handshake may have stored the same key since find.
Get(h) ==
  /\ hnd[h].pc = "compute"
  /\ cache' = [cache EXCEPT ![hnd[h].selected] = Insert(@, h)]
  /\ Goes8(h, [hnd[h] EXCEPT !.pc = "final", !.key = valueFn(h)])

-----------------------------------------------------------------------------
\* Method.PrepareFinalReq: the proof of SCRAM methods.
PrepareFinalReq(h) == IF hnd[h].selected \in Scram THEN clientProof(h, hnd[h].key) ELSE NoValue

\* AuthHnd.FinalRequest.
FinalRequest(h) ==
  /\ hnd[h].pc = "final"
  /\ Goes8(h, [hnd[h] EXCEPT !.pc = "finalReply", !.final = hnd[h].selected, !.proof = PrepareFinalReq(h)])
  /\ UNCHANGED cache

\* External: the database grants what is proved, and a failed check is an error.
Granted(h) ==
  hnd[h].selected \in Scram =>
    hnd[h].proof = [kind |-> "proof", salt |-> hnd[h].salt, server |-> hnd[h].challenge, client |-> h,
                    key |-> [kind |-> "key", password |-> hnd[h].password, salt |-> hnd[h].salt, rounds |-> hnd[h].rounds]]

\* Method.FinalRepDecode: checkAuthMethodType and the numbers of parameters.
FinalRepDecode(m, mt, shaped) == mt = m /\ shaped

\* AuthFinalReply.decode, and the session id.
FinalReply(h, mt, shaped, idValid) ==
  /\ hnd[h].pc = "finalReply"
  /\ IF Granted(h) /\ FinalRepDecode(hnd[h].selected, mt, shaped) /\ idValid
     THEN Goes8(h, [hnd[h] EXCEPT !.pc = "done", !.answers = mt, !.cookie = (mt = "JWT")])
     ELSE Fails(h)
  /\ UNCHANGED cache

AuthNext ==
  \E h \in Handshakes :
    \/ InitRequest(h)
    \/ \E rep \in InitReplies : InitReply(h, rep)
    \/ find(h)
    \/ Get(h)
    \/ FinalRequest(h)
    \/ \E mt \in {hnd[h].selected, "other"}, shaped, idValid \in BOOLEAN : FinalReply(h, mt, shaped, idValid)

AuthSpec == AuthInit /\ [][AuthNext]_authVars

-----------------------------------------------------------------------------
(* Properties.                                                             *)

\* The key of a handshake is the key of its own password, salt and rounds, whichever handshake has computed
\* it, and an entry of the cache holds the key of the method object it points to: entries are overwritten
\* in a ring, stored twice by handshakes that miss at the same time, and compared through the pointer
\* (list.find, list.Get, Compare).
KeysOwn ==
  /\ \A h \in Handshakes : hnd[h].key # NoValue => hnd[h].key = valueFn(h)
  /\ \A m \in Scram : /\ Len(cache[m].keys) = Len(cache[m].values) /\ Len(cache[m].keys) <= maxEntry
                      /\ \A i \in DOMAIN cache[m].keys : cache[m].values[i] = valueFn(cache[m].keys[i])

=============================================================================
