----------------------------- MODULE AuthProofs -----------------------------
(***************************************************************************)
(* Every handshake proves its own password: for any number of handshakes,  *)
(* any salts and rounds that the database may choose, and any size of the  *)
(* caches of keys.                                                         *)
(*                                                                         *)
(* KeysOwn is not inductive: a cache entry points to a method object, and  *)
(* would be wrong if that object could still change.  The invariant says   *)
(* that only handshakes past the reply that sets salt and rounds are in a  *)
(* cache, that they are in the cache of the method they have selected, and *)
(* that SCRAMSHA256, whose Compare ignores rounds, has none.               *)
(***************************************************************************)
EXTENDS Auth, TLAPS

PCs == {"init", "initReply", "find", "compute", "final", "finalReply", "done", "failed"}

\* The handshakes whose salt, rounds and method no longer change.
Settled == {"final", "finalReply", "done", "failed"}

KeyType == [kind : {"key"}, password : STRING, salt : Nat, rounds : Nat]

HndType ==
  [pc : PCs, methods : SUBSET Methods, password : STRING, certValid : BOOLEAN,
   selected : Methods \cup {"none"}, salt : Nat, challenge : Handshakes \cup {0}, rounds : Nat,
   key : KeyType \cup {NoValue},
   proof : [kind : {"proof"}, key : KeyType \cup {NoValue}, salt : Nat, server : Handshakes \cup {0},
            client : Handshakes] \cup {NoValue},
   cookie : BOOLEAN, final : Methods \cup {"none"}, answers : Methods \cup {"none", "other"}]

KeyOf(r) == [kind |-> "key", password |-> r.password, salt |-> r.salt, rounds |-> r.rounds]

\* What holds of one handshake.
HndOK(r) ==
  /\ r \in HndType
  /\ r.key # NoValue => r.pc \in Settled /\ r.key = KeyOf(r)
  /\ r.pc \in {"find", "compute"} => r.selected \in Scram
  /\ r.selected = "SCRAMSHA256" => r.rounds = 0

CacheType == [idx : 0 .. maxEntry - 1, keys : Seq(Handshakes), values : Seq(KeyType)]

\* What holds of one cache.
CacheOK(m, c) ==
  /\ c \in CacheType
  /\ Len(c.keys) = Len(c.values) /\ c.idx <= Len(c.keys) /\ Len(c.keys) <= maxEntry
  /\ \A i \in 1 .. Len(c.keys) : /\ hnd[c.keys[i]].pc \in Settled
                                 /\ hnd[c.keys[i]].selected = m
                                 /\ c.values[i] = KeyOf(hnd[c.keys[i]])

IInv ==
  /\ hnd \in [Handshakes -> HndType] /\ \A h \in Handshakes : HndOK(hnd[h])
  /\ cache \in [Scram -> CacheType] /\ \A m \in Scram : CacheOK(m, cache[m])

-----------------------------------------------------------------------------
\* A new authHnd is in order.
LEMMA NewOK ==
  ASSUME NEW ms \in SUBSET Methods, NEW pw \in STRING, NEW v \in BOOLEAN
  PROVE  HndOK(NewAuthHnd(ms, pw, v))
<1> DEFINE r == NewAuthHnd(ms, pw, v)
<1>2. r \in HndType
  BY ZenonT(60) DEF NewAuthHnd, HndType, PCs
<1>3. r.key = NoValue /\ r.pc = "init" /\ r.selected = "none"
  BY DEF NewAuthHnd
<1> QED
  BY <1>2, <1>3 DEF HndOK

\* The invariant holds initially.
LEMMA KeysInit == AuthInit => IInv
<1> SUFFICES ASSUME AuthInit PROVE IInv
  OBVIOUS
<1>1. PICK l \in Logons : hnd = [h \in Handshakes |-> NewAuthHnd(l[h].methods, l[h].password, l[h].certValid)]
  BY DEF AuthInit
<1>2. l \in [Handshakes -> [methods : SUBSET Methods, password : STRING, certValid : BOOLEAN]]
  BY AuthAssumption DEF AuthAssumption
<1>3. ASSUME NEW h \in Handshakes PROVE HndOK(hnd[h])
  <2>1. l[h] \in [methods : SUBSET Methods, password : STRING, certValid : BOOLEAN]
    BY <1>2
  <2>2. hnd[h] = NewAuthHnd(l[h].methods, l[h].password, l[h].certValid)
    BY <1>1
  <2>3. l[h].methods \in SUBSET Methods /\ l[h].password \in STRING /\ l[h].certValid \in BOOLEAN
    BY <2>1
  <2> QED
    BY <2>2, <2>3, NewOK
<1>4. hnd \in [Handshakes -> HndType]
  <2>1. \A h \in Handshakes : hnd[h] \in HndType
    BY <1>3 DEF HndOK
  <2> QED
    BY <1>1, <2>1
<1>5. EmptyCache \in CacheType /\ Len(EmptyCache.keys) = 0 /\ Len(EmptyCache.values) = 0 /\ EmptyCache.idx = 0
  BY AuthAssumption DEF AuthAssumption, EmptyCache, CacheType
<1>6. \A m \in Scram : CacheOK(m, EmptyCache)
  BY <1>5, AuthAssumption DEF AuthAssumption, CacheOK
<1>7. cache = [m \in Scram |-> EmptyCache]
  BY DEF AuthInit
<1> QED
  BY <1>3, <1>4, <1>5, <1>6, <1>7 DEF IInv

-----------------------------------------------------------------------------
\* A step of one handshake that leaves the caches alone keeps the invariant, when it leaves the handshake in
\* order and, if that is settled, its key and method as they are.
LEMMA Advance ==
  ASSUME IInv, NEW h \in Handshakes, NEW r, HndOK(r), Goes8(h, r), cache' = cache,
         hnd[h].pc \in Settled => r.pc \in Settled /\ r.selected = hnd[h].selected /\ KeyOf(r) = KeyOf(hnd[h])
  PROVE  IInv'
<1>1. hnd' = [hnd EXCEPT ![h] = r] /\ hnd \in [Handshakes -> HndType] /\ r \in HndType
  BY DEF Goes8, IInv, HndOK
<1>2. hnd' \in [Handshakes -> HndType]
  BY <1>1
<1>3. \A k \in Handshakes : hnd'[k] = IF k = h THEN r ELSE hnd[k]
  BY <1>1
<1>4. \A k \in Handshakes : HndOK(hnd'[k])
  BY <1>3 DEF IInv
<1>5. ASSUME NEW m \in Scram PROVE CacheOK(m, cache[m])'
  <2>1. CacheOK(m, cache[m])
    BY DEF IInv
  <2>2. ASSUME NEW i \in 1 .. Len(cache[m].keys)
        PROVE  /\ hnd'[cache[m].keys[i]].pc \in Settled /\ hnd'[cache[m].keys[i]].selected = m
               /\ cache[m].values[i] = KeyOf(hnd'[cache[m].keys[i]])
    <3>1. cache[m].keys \in Seq(Handshakes)
      BY <2>1 DEF CacheOK, CacheType
    <3>2. cache[m].keys[i] \in Handshakes
      BY <3>1
    <3>3. hnd[cache[m].keys[i]].pc \in Settled /\ hnd[cache[m].keys[i]].selected = m
          /\ cache[m].values[i] = KeyOf(hnd[cache[m].keys[i]])
      BY <2>1 DEF CacheOK
    <3> HIDE DEF KeyOf
    <3> QED
      BY <1>3, <3>2, <3>3
  <2> QED
    BY <2>1, <2>2 DEF CacheOK
<1> QED
  BY <1>2, <1>4, <1>5 DEF IInv

-----------------------------------------------------------------------------
(* One lemma per action.                                                   *)

\* A new state of the handshake that differs in pc only, and keeps it settled or unsettled for good, is in order.
LEMMA PcOK ==
  ASSUME NEW r, HndOK(r), NEW p \in PCs, r.pc \in Settled => p \in Settled, p \in {"find", "compute"} => r.selected \in Scram
  PROVE  LET q == [r EXCEPT !.pc = p]
         IN  HndOK(q) /\ q.pc = p /\ q.selected = r.selected /\ KeyOf(q) = KeyOf(r)
<1> DEFINE q == [r EXCEPT !.pc = p]
<1>1. r \in HndType
  BY DEF HndOK
<1>2. q \in HndType
  BY <1>1, ZenonT(60) DEF HndType
<1>3. /\ q.pc = p /\ q.selected = r.selected /\ q.key = r.key /\ q.rounds = r.rounds
      /\ q.password = r.password /\ q.salt = r.salt
  BY <1>1 DEF HndType
<1>4. KeyOf(q) = KeyOf(r)
  BY <1>3 DEF KeyOf
<1> HIDE DEF q
<1>5. HndOK(q)
  BY <1>2, <1>3, <1>4 DEF HndOK
<1> QED
  BY <1>3, <1>4, <1>5 DEF q

\* A failed handshake is settled.
LEMMA FailsKeeps ==
  ASSUME IInv, NEW h \in Handshakes, Fails(h), cache' = cache
  PROVE  IInv'
<1> DEFINE r == [hnd[h] EXCEPT !.pc = "failed"]
<1>1. HndOK(hnd[h]) /\ Goes8(h, r)
  BY DEF IInv, Fails
<1>2. HndOK(r) /\ r.pc = "failed" /\ r.selected = hnd[h].selected /\ KeyOf(r) = KeyOf(hnd[h])
  BY <1>1, PcOK DEF PCs, Settled
<1> HIDE DEF r, KeyOf
<1> QED
  BY <1>1, <1>2, Advance DEF Settled

\* AuthHnd.InitRequest.
LEMMA InitRequestKeeps ==
  ASSUME IInv, NEW h \in Handshakes, InitRequest(h)
  PROVE  IInv'
<1>1. CASE ~PrepareInitReq(h)
  BY <1>1, FailsKeeps DEF InitRequest
<1>2. CASE PrepareInitReq(h)
  <2> DEFINE r == [hnd[h] EXCEPT !.pc = "initReply"]
  <2>1. HndOK(hnd[h]) /\ Goes8(h, r) /\ cache' = cache /\ hnd[h].pc = "init"
    BY <1>2 DEF IInv, InitRequest
  <2>2. HndOK(r)
    BY <2>1, PcOK DEF PCs, Settled
  <2> HIDE DEF r
  <2> QED
    BY <2>1, <2>2, Advance DEF Settled
<1> QED
  BY <1>1, <1>2

\* What a method takes from a reply: numbers, and no rounds for SCRAMSHA256.
LEMMA DecodeType ==
  ASSUME NEW rep \in InitReplies, NEW m
  PROVE  /\ InitRepDecode(m, rep).salt \in Nat /\ InitRepDecode(m, rep).rounds \in Nat
         /\ m = "SCRAMSHA256" => InitRepDecode(m, rep).rounds = 0
<1>1. rep.salt \in Nat /\ rep.rounds \in Nat
  BY AuthAssumption DEF InitReplies, AuthAssumption
<1>2. CASE m = "SCRAMSHA256"
  BY <1>1, <1>2 DEF InitRepDecode, SCRAMSHA256InitRepDecode
<1>3. CASE m = "SCRAMPBKDF2SHA256"
  BY <1>1, <1>3 DEF InitRepDecode, SCRAMPBKDF2SHA256InitRepDecode
<1>4. CASE m = "X509"
  BY <1>4 DEF InitRepDecode, X509InitRepDecode
<1>5. CASE m \notin {"SCRAMSHA256", "SCRAMPBKDF2SHA256", "X509"}
  BY <1>5 DEF InitRepDecode, JWTInitRepDecode
<1> QED
  BY <1>2, <1>3, <1>4, <1>5

\* AuthInitReply.decode: the one action that sets salt and rounds, in a handshake that no cache points to.
LEMMA InitReplyKeeps ==
  ASSUME IInv, NEW h \in Handshakes, NEW rep \in InitReplies, InitReply(h, rep)
  PROVE  IInv'
<1>1. CASE rep.num = "outer" \/ rep.mt \notin hnd[h].methods
  BY <1>1, FailsKeeps DEF InitReply
<1>2. CASE ~(rep.num = "outer" \/ rep.mt \notin hnd[h].methods)
  <2> DEFINE d == InitRepDecode(rep.mt, rep)
             p == IF ~d.ok THEN "failed" ELSE IF rep.mt \in Scram THEN "find" ELSE "final"
             r == [hnd[h] EXCEPT !.pc = p, !.selected = rep.mt, !.salt = d.salt, !.rounds = d.rounds, !.challenge = h]
  <2>1. HndOK(hnd[h]) /\ Goes8(h, r) /\ cache' = cache /\ hnd[h].pc = "initReply"
    BY <1>2 DEF IInv, InitReply
  <2>2. hnd[h] \in HndType /\ hnd[h].key = NoValue
    BY <2>1 DEF HndOK, Settled
  <2>3. rep.mt \in Methods
    BY <1>2, <2>2 DEF HndType
  <2>4. d.salt \in Nat /\ d.rounds \in Nat /\ (rep.mt = "SCRAMSHA256" => d.rounds = 0)
    BY DecodeType
  <2>5. p \in PCs /\ (p \in {"find", "compute"} => rep.mt \in Scram)
    BY DEF PCs
  <2> HIDE DEF d, p
  <2>6. r \in HndType
    BY <2>2, <2>3, <2>4, <2>5, ZenonT(60) DEF HndType
  <2>7. r.pc = p /\ r.selected = rep.mt /\ r.rounds = d.rounds /\ r.key = NoValue
    BY <2>2 DEF HndType
  <2> HIDE DEF r
  <2>8. HndOK(r)
    BY <2>4, <2>5, <2>6, <2>7 DEF HndOK
  <2> QED
    BY <2>1, <2>8, Advance DEF Settled
<1> QED
  BY <1>1, <1>2

\* Entries that compare equal have the same key: SCRAMSHA256 ignores rounds, and has none.
LEMMA EqualKeys ==
  ASSUME IInv, NEW h \in Handshakes, NEW k \in Handshakes, NEW m \in Scram,
         hnd[h].selected = m, hnd[k].selected = m, Compare(m, k, h)
  PROVE  KeyOf(hnd[k]) = KeyOf(hnd[h])
<1>1. hnd[k].password = hnd[h].password /\ hnd[k].salt = hnd[h].salt
  BY DEF Compare
<1>2. hnd[k].rounds = hnd[h].rounds
  BY DEF Compare, Scram, IInv, HndOK
<1> QED
  BY <1>1, <1>2 DEF KeyOf

\* A handshake that takes its own key is in order.
LEMMA KeyedOK ==
  ASSUME NEW r, HndOK(r)
  PROVE  LET q == [r EXCEPT !.pc = "final", !.key = KeyOf(r)]
         IN  HndOK(q) /\ q.pc = "final" /\ q.selected = r.selected /\ KeyOf(q) = KeyOf(r)
<1> DEFINE q == [r EXCEPT !.pc = "final", !.key = KeyOf(r)]
<1>1. r \in HndType
  BY DEF HndOK
<1>2. r.password \in STRING /\ r.salt \in Nat /\ r.rounds \in Nat
  BY <1>1 DEF HndType
<1>3. KeyOf(r) \in KeyType
  BY <1>2 DEF KeyOf, KeyType
<1>4. "final" \in PCs
  BY DEF PCs
<1> HIDE DEF KeyOf
<1>5. q \in HndType
  BY <1>1, <1>3, <1>4, ZenonT(60) DEF HndType
<1>6. /\ q.pc = "final" /\ q.selected = r.selected /\ q.key = KeyOf(r) /\ q.rounds = r.rounds
      /\ q.password = r.password /\ q.salt = r.salt
  BY <1>1 DEF HndType
<1>7. KeyOf(q) = KeyOf(r)
  BY <1>6 DEF KeyOf
<1> HIDE DEF q
<1>8. HndOK(q)
  BY <1>5, <1>6, <1>7 DEF HndOK, Settled
<1> QED
  BY <1>6, <1>7, <1>8 DEF q

\* list.find: the key behind the pointer is the key of the handshake that asks.
LEMMA FindKeeps ==
  ASSUME IInv, NEW h \in Handshakes, find(h)
  PROVE  IInv'
<1> DEFINE m == hnd[h].selected
           c == cache[m]
<1>1. HndOK(hnd[h]) /\ hnd[h].pc = "find" /\ cache' = cache
  BY DEF IInv, find
<1>2. m \in Scram /\ CacheOK(m, c)
  BY <1>1 DEF HndOK, IInv
<1>3. CASE Goes8(h, [hnd[h] EXCEPT !.pc = "compute"])
  <2> DEFINE r == [hnd[h] EXCEPT !.pc = "compute"]
  <2>1. HndOK(r)
    BY <1>1, <1>2, PcOK DEF PCs, Settled
  <2>2. Goes8(h, r)
    BY <1>3
  <2> HIDE DEF r
  <2> QED
    BY <1>1, <2>1, <2>2, Advance DEF Settled
<1>4. ASSUME NEW i \in DOMAIN c.keys, Compare(m, c.keys[i], h),
             Goes8(h, [hnd[h] EXCEPT !.pc = "final", !.key = c.values[i]])
      PROVE  IInv'
  <2>1. c.keys \in Seq(Handshakes)
    BY <1>2 DEF CacheOK, CacheType
  <2>2. i \in 1 .. Len(c.keys) /\ c.keys[i] \in Handshakes
    BY <1>4, <2>1
  <2>3. hnd[c.keys[i]].selected = m /\ c.values[i] = KeyOf(hnd[c.keys[i]])
    BY <1>2, <2>2 DEF CacheOK
  <2>4. c.values[i] = KeyOf(hnd[h])
    BY <1>2, <1>4, <2>2, <2>3, EqualKeys
  <2> DEFINE r == [hnd[h] EXCEPT !.pc = "final", !.key = KeyOf(hnd[h])]
  <2>5. HndOK(r)
    BY <1>1, KeyedOK
  <2>6. Goes8(h, r)
    BY <1>4, <2>4
  <2> HIDE DEF r
  <2> QED
    BY <1>1, <2>5, <2>6, Advance DEF Settled
<1> QED
  BY <1>3, <1>4 DEF find

\* The ring: the next index stays in range, and an entry is overwritten or the list grows by one.
LEMMA InsertRing ==
  ASSUME IInv, NEW m \in Scram, NEW h \in Handshakes
  PROVE  LET c == cache[m]  q == Insert(c, h)
         IN  /\ q \in CacheType
             /\ Len(q.keys) = Len(q.values) /\ q.idx <= Len(q.keys) /\ Len(q.keys) <= maxEntry
             /\ \A i \in 1 .. Len(q.keys) :
                  \/ q.keys[i] = h /\ q.values[i] = valueFn(h)
                  \/ i \in 1 .. Len(c.keys) /\ q.keys[i] = c.keys[i] /\ q.values[i] = c.values[i]
<1> DEFINE c == cache[m]
           q == Insert(c, h)
           n == Len(c.keys)
           v == valueFn(h)
           next == IF c.idx + 1 >= maxEntry THEN 0 ELSE c.idx + 1
           ks == IF c.idx < n THEN [c.keys EXCEPT ![c.idx + 1] = h] ELSE Append(c.keys, h)
           vs == IF c.idx < n THEN [c.values EXCEPT ![c.idx + 1] = v] ELSE Append(c.values, v)
<1>1. c \in CacheType /\ Len(c.values) = n /\ c.idx <= n /\ n <= maxEntry
  BY DEF IInv, CacheOK
<1>2. c.idx \in 0 .. maxEntry - 1 /\ c.keys \in Seq(Handshakes) /\ c.values \in Seq(KeyType) /\ n \in Nat
  BY <1>1 DEF CacheType
<1>3. v \in KeyType
  <2>1. hnd[h] \in HndType
    BY DEF IInv
  <2>2. hnd[h].password \in STRING /\ hnd[h].salt \in Nat /\ hnd[h].rounds \in Nat
    BY <2>1 DEF HndType
  <2> QED
    BY <2>2 DEF valueFn, KeyType
<1>4. maxEntry \in Nat \ {0}
  BY AuthAssumption DEF AuthAssumption
<1>5. next \in 0 .. maxEntry - 1 /\ next <= c.idx + 1
  BY <1>2, <1>4
<1>7. q.idx = next /\ q.keys = ks /\ q.values = vs /\ q = [idx |-> q.idx, keys |-> q.keys, values |-> q.values]
  BY <1>1 DEF Insert, CacheType
<1> HIDE DEF q, v, c, next
<1>8. CASE c.idx < n
  <2>1. c.idx + 1 \in 1 .. n
    BY <1>2, <1>8
  <2>2. ks = [c.keys EXCEPT ![c.idx + 1] = h] /\ vs = [c.values EXCEPT ![c.idx + 1] = v]
    BY <1>8
  <2>3. ks \in Seq(Handshakes) /\ Len(ks) = n /\ \A i \in 1 .. n : ks[i] = IF i = c.idx + 1 THEN h ELSE c.keys[i]
    BY <1>2, <2>1, <2>2
  <2>4. vs \in Seq(KeyType) /\ Len(vs) = n /\ \A i \in 1 .. n : vs[i] = IF i = c.idx + 1 THEN v ELSE c.values[i]
    BY <1>1, <1>2, <1>3, <2>1, <2>2
  <2> HIDE DEF ks, vs, n
  <2>5. q \in CacheType
    BY <1>5, <1>7, <2>3, <2>4 DEF CacheType
  <2>6. q.idx <= n
    BY <1>2, <1>5, <1>7, <2>1
  <2> QED
    BY <1>1, <1>7, <2>3, <2>4, <2>5, <2>6 DEF c, q, v, n
<1>9. CASE ~(c.idx < n)
  <2>1. c.idx = n /\ n + 1 <= maxEntry
    BY <1>1, <1>2, <1>4, <1>9
  <2>2. ks = Append(c.keys, h) /\ vs = Append(c.values, v)
    BY <1>9
  <2>3. ks \in Seq(Handshakes) /\ Len(ks) = n + 1 /\ \A i \in 1 .. n + 1 : ks[i] = IF i = n + 1 THEN h ELSE c.keys[i]
    BY <1>2, <2>2
  <2>4. vs \in Seq(KeyType) /\ Len(vs) = n + 1 /\ \A i \in 1 .. n + 1 : vs[i] = IF i = n + 1 THEN v ELSE c.values[i]
    BY <1>1, <1>2, <1>3, <2>2
  <2> HIDE DEF ks, vs, n
  <2>5. q \in CacheType
    BY <1>5, <1>7, <2>3, <2>4 DEF CacheType
  <2>6. q.idx <= n + 1
    BY <1>5, <1>7, <2>1
  <2>7. \A i \in 1 .. n + 1 : i # n + 1 => i \in 1 .. n
    BY <1>2
  <2> QED
    BY <1>7, <2>1, <2>3, <2>4, <2>5, <2>6, <2>7 DEF c, q, v, n
<1> QED
  BY <1>8, <1>9

\* list.Get: the key is stored under a handshake that is settled by the same step.
LEMMA GetKeeps ==
  ASSUME IInv, NEW h \in Handshakes, Get(h)
  PROVE  IInv'
<1> DEFINE m == hnd[h].selected
           q == Insert(cache[m], h)
           r == [hnd[h] EXCEPT !.pc = "final", !.key = KeyOf(hnd[h])]
<1>1. valueFn(h) = KeyOf(hnd[h])
  BY DEF valueFn, KeyOf
<1>2. HndOK(hnd[h]) /\ hnd[h].pc = "compute" /\ hnd \in [Handshakes -> HndType] /\ cache \in [Scram -> CacheType]
  BY DEF IInv, Get
<1>3. m \in Scram
  BY <1>2 DEF HndOK
<1>4. HndOK(r) /\ r.pc = "final" /\ r.selected = m /\ KeyOf(r) = KeyOf(hnd[h])
  BY <1>2, KeyedOK
<1>5. hnd' = [hnd EXCEPT ![h] = r]
  BY <1>1 DEF Get, Goes8
<1>6. cache' = [cache EXCEPT ![m] = q]
  BY DEF Get
<1>7. r \in HndType
  BY <1>4 DEF HndOK
<1>8. /\ q \in CacheType
      /\ Len(q.keys) = Len(q.values) /\ q.idx <= Len(q.keys) /\ Len(q.keys) <= maxEntry
      /\ \A i \in 1 .. Len(q.keys) :
           \/ q.keys[i] = h /\ q.values[i] = KeyOf(hnd[h])
           \/ i \in 1 .. Len(cache[m].keys) /\ q.keys[i] = cache[m].keys[i] /\ q.values[i] = cache[m].values[i]
  BY <1>1, <1>3, InsertRing
<1> HIDE DEF q, r, m, KeyOf
<1>9. hnd' \in [Handshakes -> HndType] /\ \A k \in Handshakes : hnd'[k] = IF k = h THEN r ELSE hnd[k]
  BY <1>2, <1>5, <1>7
<1>10. \A k \in Handshakes : HndOK(hnd'[k])
  BY <1>4, <1>9 DEF IInv
<1>11. cache' \in [Scram -> CacheType] /\ \A o \in Scram : cache'[o] = IF o = m THEN q ELSE cache[o]
  BY <1>2, <1>3, <1>6, <1>8
<1>12. ASSUME NEW o \in Scram, NEW i \in 1 .. Len(cache[o].keys)
       PROVE  /\ hnd'[cache[o].keys[i]].pc \in Settled /\ hnd'[cache[o].keys[i]].selected = o
              /\ cache[o].values[i] = KeyOf(hnd'[cache[o].keys[i]])
  <2>1. CacheOK(o, cache[o])
    BY DEF IInv
  <2>2. cache[o].keys \in Seq(Handshakes)
    BY <2>1 DEF CacheOK, CacheType
  <2>3. cache[o].keys[i] \in Handshakes
    BY <2>2
  <2>4. hnd[cache[o].keys[i]].pc \in Settled /\ hnd[cache[o].keys[i]].selected = o
        /\ cache[o].values[i] = KeyOf(hnd[cache[o].keys[i]])
    BY <2>1 DEF CacheOK
  <2>5. cache[o].keys[i] # h
    BY <1>2, <2>4 DEF Settled
  <2> QED
    BY <1>9, <2>3, <2>4, <2>5
<1>13. ASSUME NEW o \in Scram PROVE CacheOK(o, cache[o])'
  <2>1. CASE o # m
    <3>1. cache'[o] = cache[o] /\ CacheOK(o, cache[o])
      BY <1>11, <2>1 DEF IInv
    <3> QED
      BY <3>1, <1>12 DEF CacheOK
  <2>2. CASE o = m
    <3>1. cache'[o] = q
      BY <1>11, <2>2
    <3>2. hnd'[h] = r
      BY <1>9
    <3>3. ASSUME NEW i \in 1 .. Len(q.keys)
          PROVE  hnd'[q.keys[i]].pc \in Settled /\ hnd'[q.keys[i]].selected = m /\ q.values[i] = KeyOf(hnd'[q.keys[i]])
      <4>1. CASE q.keys[i] = h /\ q.values[i] = KeyOf(hnd[h])
        BY <1>4, <3>2, <4>1 DEF Settled
      <4>2. CASE i \in 1 .. Len(cache[m].keys) /\ q.keys[i] = cache[m].keys[i] /\ q.values[i] = cache[m].values[i]
        BY <1>3, <1>12, <4>2
      <4> QED
        BY <1>8, <4>1, <4>2
    <3> QED
      BY <1>8, <2>2, <3>1, <3>3 DEF CacheOK
  <2> QED
    BY <2>1, <2>2
<1> QED
  BY <1>9, <1>10, <1>11, <1>13 DEF IInv

\* AuthHnd.FinalRequest.
LEMMA FinalRequestKeeps ==
  ASSUME IInv, NEW h \in Handshakes, FinalRequest(h)
  PROVE  IInv'
<1> DEFINE p == PrepareFinalReq(h)
           r == [hnd[h] EXCEPT !.pc = "finalReply", !.final = hnd[h].selected, !.proof = p]
<1>1. HndOK(hnd[h]) /\ Goes8(h, r) /\ cache' = cache /\ hnd[h].pc = "final"
  BY DEF IInv, FinalRequest
<1>2. hnd[h] \in HndType
  BY <1>1 DEF HndOK
<1>3. hnd[h].salt \in Nat /\ hnd[h].challenge \in Handshakes \cup {0} /\ hnd[h].key \in KeyType \cup {NoValue}
  BY <1>2 DEF HndType
<1>4. p \in [kind : {"proof"}, key : KeyType \cup {NoValue}, salt : Nat, server : Handshakes \cup {0},
             client : Handshakes] \cup {NoValue}
  BY <1>3 DEF PrepareFinalReq, clientProof
<1>5. "finalReply" \in PCs /\ hnd[h].selected \in Methods \cup {"none"}
  BY <1>2 DEF PCs, HndType
<1> HIDE DEF p
<1>6. r \in HndType
  BY <1>2, <1>4, <1>5, ZenonT(60) DEF HndType
<1>7. /\ r.pc = "finalReply" /\ r.selected = hnd[h].selected /\ r.key = hnd[h].key /\ r.rounds = hnd[h].rounds
      /\ r.password = hnd[h].password /\ r.salt = hnd[h].salt
  BY <1>2 DEF HndType
<1>8. KeyOf(r) = KeyOf(hnd[h])
  BY <1>7 DEF KeyOf
<1> HIDE DEF r, KeyOf
<1>9. HndOK(r)
  BY <1>1, <1>6, <1>7, <1>8 DEF HndOK, Settled
<1> QED
  BY <1>1, <1>7, <1>8, <1>9, Advance DEF Settled

\* AuthFinalReply.decode.
LEMMA FinalReplyKeeps ==
  ASSUME IInv, NEW h \in Handshakes, NEW mt \in {hnd[h].selected, "other"}, NEW shaped \in BOOLEAN,
         NEW idValid \in BOOLEAN, FinalReply(h, mt, shaped, idValid)
  PROVE  IInv'
<1> DEFINE b == (mt = "JWT")
           r == [hnd[h] EXCEPT !.pc = "done", !.answers = mt, !.cookie = b]
<1>1. CASE Fails(h)
  BY <1>1, FailsKeeps DEF FinalReply
<1>2. CASE Goes8(h, r)
  <2>1. HndOK(hnd[h]) /\ cache' = cache /\ hnd[h].pc = "finalReply"
    BY DEF IInv, FinalReply
  <2>2. hnd[h] \in HndType
    BY <2>1 DEF HndOK
  <2>3. "done" \in PCs /\ mt \in Methods \cup {"none", "other"} /\ b \in BOOLEAN
    BY <2>2 DEF PCs, HndType
  <2> HIDE DEF b
  <2>4. r \in HndType
    BY <2>2, <2>3, ZenonT(60) DEF HndType
  <2>5. /\ r.pc = "done" /\ r.selected = hnd[h].selected /\ r.key = hnd[h].key /\ r.rounds = hnd[h].rounds
        /\ r.password = hnd[h].password /\ r.salt = hnd[h].salt
    BY <2>2 DEF HndType
  <2>6. KeyOf(r) = KeyOf(hnd[h])
    BY <2>5 DEF KeyOf
  <2> HIDE DEF r, KeyOf
  <2>7. HndOK(r)
    BY <2>1, <2>4, <2>5, <2>6 DEF HndOK, Settled
  <2> QED
    BY <1>2, <2>1, <2>5, <2>6, <2>7, Advance DEF Settled
<1> QED
  BY <1>1, <1>2 DEF FinalReply

-----------------------------------------------------------------------------
\* Every step keeps the invariant.
LEMMA KeysStep ==
  ASSUME IInv, [AuthNext]_authVars
  PROVE  IInv'
<1>1. CASE UNCHANGED authVars
  BY <1>1 DEF authVars, IInv, HndOK, CacheOK
<1>2. CASE AuthNext
  BY <1>2, InitRequestKeeps, InitReplyKeeps, FindKeeps, GetKeeps, FinalRequestKeeps, FinalReplyKeeps DEF AuthNext
<1> QED
  BY <1>1, <1>2

\* The invariant says what KeysOwn says.
LEMMA KeysImplied == IInv => KeysOwn
<1> SUFFICES ASSUME IInv PROVE KeysOwn
  OBVIOUS
<1>1. \A h \in Handshakes : valueFn(h) = KeyOf(hnd[h])
  BY DEF valueFn, KeyOf
<1>2. ASSUME NEW h \in Handshakes, hnd[h].key # NoValue PROVE hnd[h].key = valueFn(h)
  BY <1>1, <1>2 DEF IInv, HndOK
<1>3. ASSUME NEW m \in Scram
      PROVE  /\ Len(cache[m].keys) = Len(cache[m].values) /\ Len(cache[m].keys) <= maxEntry
             /\ \A i \in DOMAIN cache[m].keys : cache[m].values[i] = valueFn(cache[m].keys[i])
  <2>1. CacheOK(m, cache[m])
    BY DEF IInv
  <2>2. cache[m].keys \in Seq(Handshakes)
    BY <2>1 DEF CacheOK, CacheType
  <2> QED
    BY <1>1, <2>1, <2>2 DEF CacheOK
<1> QED
  BY <1>2, <1>3 DEF KeysOwn

\* Every handshake signs with the key of its own password, salt and rounds, however many handshakes share
\* the caches and in whatever order they find, compute, store and overwrite keys (list.go, Compare).
THEOREM KeysAreOwn == AuthSpec => []KeysOwn
<1>1. AuthInit => IInv
  BY KeysInit
<1>2. IInv /\ [AuthNext]_authVars => IInv'
  BY KeysStep
<1>3. IInv => KeysOwn
  BY KeysImplied
<1> QED
  BY <1>1, <1>2, <1>3, PTL DEF AuthSpec

=============================================================================
