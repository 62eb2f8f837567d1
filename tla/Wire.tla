-------------------------------- MODULE Wire --------------------------------
(***************************************************************************)
(* The framing of messages (protocol/protocol.go, headers.go): Writer.Write *)
(* announces the length of a message and of each of its parts, writes them  *)
(* part by part, and Reader.IterateParts finds the parts by the announced   *)
(* lengths.  The reader is the driver's own, reading the replies of the     *)
(* database, or the one of the sniffer, reading the requests the driver     *)
(* has written.                                                             *)
(*                                                                          *)
(* Bytes are counted, not modelled: a text is [len, supp, hex, bad], of len *)
(* bytes in UTF-8 and supp supplementary characters (two bytes longer each  *)
(* in CESU-8), which cannot be encoded when bad.                            *)
(***************************************************************************)
EXTENDS Values

LOCAL INSTANCE SequencesExt

CONSTANTS
  Requests,                          \* sequences of messages [type, parts] a session writes
  SessionVars,                       \* session variables: NoVars, or a sequence of key-value texts
  Replies,                           \* replies [parts, padLast, reads, trace] of the database
  MaxInt16, MaxInt32, MaxUint32,     \* limits of the headers
  MaxUint16                          \* limit of the size of sub parameters

VARIABLES
  todo8,     \* messages the session has still to write
  pw,        \* Writer: [sv, svSent, hasError], and the variables sent so far
  stream,    \* messages on their way to the reader
  pr         \* Reader: the message being read, what was read, the verdict

wireVars == <<todo8, pw, stream, pr>>

LOCAL Total(f(_), s) == FoldLeft(LAMBDA a, e : a + f(e), 0, s)

segmentHeaderSize == 24
partHeaderSize == 16

padBytes(n) == IF n % 8 # 0 THEN 8 - (n % 8) ELSE 0

-----------------------------------------------------------------------------
(* The parts: size, and what encode writes.                                *)

Wrote8(n) == [n |-> n, ok |-> TRUE]
WriteError == [n |-> 0, ok |-> FALSE]

LOCAL All(f(_), s) == IF \E k \in DOMAIN s : ~f(s[k]).ok THEN WriteError ELSE Wrote8(Total(LAMBDA e : f(e).n, s))

\* Encoder.CESU8LIBytes.
LICesu8(t) == LET w == CESU8LIBytes(t) IN IF t.bad \/ w = Refused THEN WriteError ELSE Wrote8(w.size)
LIPlain(t) == LET w == LIBytes(t) IN IF w = Refused THEN WriteError ELSE Wrote8(w.size)

\* optType.size, optType.encode.
optSize(o) == IF o.t \in {"string", "bstring"} THEN 2 + o.len
              ELSE [boolean |-> 1, tinyint |-> 1, integer |-> 4, bigint |-> 8, double |-> 8][o.t]
optionsSize(os) == 2 * Len(os) + Total(optSize, os)
\* subPrmsSize.
subFieldSize(n) == IF n > 245 THEN 3 ELSE 1
subEncode(n) == CASE n <= 245 -> Wrote8(1)
                  [] n > 245 /\ n <= MaxUint16 -> Wrote8(3)
                  [] OTHER -> WriteError

\* Prms.Size: the length of a text in UTF-8.
RECURSIVE PrmsSize(_)
PrmsSize(ps) ==
  2 + Total(LAMBDA e : CASE e.t = "prms" -> PrmsSize(e.prms) + subFieldSize(PrmsSize(e.prms))
                         [] OTHER        -> VarFieldSize(e.text), ps)

\* Prms.Encode: the text in CESU-8.
RECURSIVE PrmsEncode(_)
PrmsEncode(ps) ==
  LET one(e) == CASE e.t = "bytes"  -> LIPlain(e.text)
                  [] e.t = "string" -> LICesu8(e.text)
                  [] OTHER -> LET h == subEncode(PrmsSize(e.prms))
                                  b == PrmsEncode(e.prms)
                              IN  IF h.ok /\ b.ok THEN Wrote8(h.n + b.n) ELSE WriteError
      w == All(one, ps)
  IN  IF Len(ps) > MaxInt16 \/ ~w.ok THEN WriteError ELSE Wrote8(2 + w.n)

clientInfoSize(texts) == Total(Cesu8FieldSize, texts)
clientInfoEncode(texts) == All(LICesu8, texts)

optionsEncode(os) == Wrote8(Total(LAMBDA o : 1 + 1 + optSize(o), os))

\* Of the data of every large object: its length.
writeLobRequestSize(lens) == Total(LAMBDA n : 21 + n, lens)
writeLobRequestEncode(lens) == Wrote8(Total(LAMBDA n : 8 + 1 + 8 + 4 + n, lens))
readLobRequestEncode == Wrote8(8 + 8 + 4 + 4)

commandEncode(text) == IF text.bad THEN WriteError ELSE Wrote8(Cesu8Size(text))

fixedSize == [statementID |-> 8, resultsetID |-> 8, fetchSize |-> 4, readLobRequest |-> 24]

\* size().
partSize(p) ==
  CASE p.kind = "command"         -> Cesu8Size(p.text)
    [] p.kind = "clientID"        -> p.text.len
    [] p.kind = "clientInfo"      -> clientInfoSize(p.items)
    [] p.kind = "options"         -> optionsSize(p.items)
    [] p.kind = "authentication"  -> PrmsSize(p.items)
    [] p.kind = "writeLobRequest" -> writeLobRequestSize(p.items)
    [] p.kind = "parameters"      -> p.rows * p.rowSize
    [] OTHER                      -> fixedSize[p.kind]

\* encode.
partEncode(p) ==
  CASE p.kind = "command"         -> commandEncode(p.text)
    [] p.kind = "clientID"        -> Wrote8(p.text.len)
    [] p.kind = "clientInfo"      -> clientInfoEncode(p.items)
    [] p.kind = "options"         -> optionsEncode(p.items)
    [] p.kind = "authentication"  -> PrmsEncode(p.items)
    [] p.kind = "writeLobRequest" -> writeLobRequestEncode(p.items)
    [] p.kind = "parameters"      -> Wrote8(p.rows * p.rowSize)
    [] p.kind = "readLobRequest"  -> readLobRequestEncode
    [] OTHER                      -> Wrote8(fixedSize[p.kind])

\* numArg().
partArgs(p) ==
  CASE p.kind \in {"options", "writeLobRequest"} -> Len(p.items)
    [] p.kind = "clientInfo" -> Len(p.items) \div 2
    [] p.kind = "parameters" -> p.rows
    [] OTHER                 -> 1

\* partHeader.setNumArg, and numArg of the reader.
setNumArg(n) ==
  CASE n <= MaxInt16 -> [ok |-> TRUE, count |-> n, big |-> 0]
    [] n > MaxInt16 /\ n <= MaxInt32 -> [ok |-> TRUE, count |-> -1, big |-> n]
    [] OTHER -> [ok |-> FALSE, count |-> 0, big |-> 0]
numArg(h) == IF h.count = -1 THEN h.big ELSE h.count

-----------------------------------------------------------------------------
(* Writer.                                                                 *)

ClientInfoSupported(mt) == mt \in {"prepare", "executeDirect", "execute"}

\* The part as it stands in the message: its header, the bytes of its body, its padding.
Framed(p, left) ==
  LET n == setNumArg(partArgs(p))
      w == partEncode(p)
  IN  [part |-> p, ok |-> n.ok /\ w.ok, count |-> n.count, big |-> n.big, bufferLength |-> partSize(p),
       bufferSize |-> left, data |-> w.n, pad |-> padBytes(partSize(p))]

Padded(p) == partSize(p) + padBytes(partSize(p))

\* _write after the message header: every part with what is left of the message at its start.
FramedAll(ps, msgSize) ==
  [k \in DOMAIN ps |->
     Framed(ps[k], msgSize - segmentHeaderSize - Total(LAMBDA p : partHeaderSize + Padded(p), SubSeq(ps, 1, k - 1)))]

msgSize8(ps) == segmentHeaderSize + partHeaderSize * Len(ps) + Total(Padded, ps)

NoVars == <<"nil">>                                              \* the nil map; an empty one is sent

\* clientInfo goes in front of the parts of the first message that supports it.
WithClientInfo(m) ==
  IF pw.sv # NoVars /\ ~pw.svSent /\ ClientInfoSupported(m.type)
  THEN <<[kind |-> "clientInfo", items |-> pw.sv]>> \o m.parts ELSE m.parts

\* Mutant: the size of the message is taken before clientInfo is added.
WriteMessage_SizeFirst(m) ==
  LET ps == WithClientInfo(m)
      sz == msgSize8(m.parts)
      fs == FramedAll(ps, sz)
      ok == sz <= MaxInt32 /\ \A k \in DOMAIN fs : fs[k].ok
  IN  /\ pw' = [pw EXCEPT !.svSent = @ \/ Len(ps) > Len(m.parts), !.hasError = @ \/ ~ok]
      /\ stream' = IF sz > MaxUint32 THEN stream
                   ELSE Append(stream, [from |-> "driver", torn |-> ~ok, varPartLength |-> sz, parts |-> fs])

\* Writer.Write.  What a failed write has buffered goes out with the next message.
WriteMessage(m) ==
  LET ps == WithClientInfo(m)
      sz == msgSize8(ps)
      fs == FramedAll(ps, sz)
      ok == sz <= MaxInt32 /\ \A k \in DOMAIN fs : fs[k].ok
  IN  /\ pw' = [pw EXCEPT !.svSent = @ \/ Len(ps) > Len(m.parts), !.hasError = @ \/ ~ok]
      /\ stream' = IF sz > MaxUint32 THEN stream
                   ELSE Append(stream, [from |-> "driver", torn |-> ~ok, varPartLength |-> sz, parts |-> fs])

WriteNextMessage ==
  /\ todo8 # <<>>
  /\ WriteMessage(Head(todo8))
  /\ todo8' = Tail(todo8)
  /\ UNCHANGED pr

-----------------------------------------------------------------------------
(* fieldnames.go: the names of the fields of a result set or of a statement follow the fields, *)
(* and a field refers to its names by their offsets.                                           *)

NoName == 0
noFieldName == -1
NameBytes(len) == 1 + len                                        \* length indicator and text

\* External: the table of the names, and the offset by which a field refers to the k-th of them.
OfsOf(part, k) == IF k = NoName THEN noFieldName ELSE Total(NameBytes, SubSeq(part.names, 1, k - 1))

\* Mutant: appended at the end.
insertOfs_Append(ofs, o) == IF o = noFieldName \/ \E k \in DOMAIN ofs : ofs[k] = o THEN ofs ELSE Append(ofs, o)
\* fieldNames.insertOfs: a sorted list without duplicates.
insertOfs(ofs, o) ==
  IF o = noFieldName \/ \E k \in DOMAIN ofs : ofs[k] = o THEN ofs
  ELSE SelectSeq(ofs, LAMBDA e : e < o) \o <<o>> \o SelectSeq(ofs, LAMBDA e : e > o)

\* ResultField.decode, ParameterField.decode: the offsets, in the order of the fields.
Offsets(part) == FoldLeft(LAMBDA ofs, k : insertOfs(ofs, OfsOf(part, k)), <<>>, part.refs)

\* fieldNames.decode: skips to the offset and reads the name that stands there (0: none does).
decodeNames(part) ==
  LET NameAt(pos) == IF \E k \in DOMAIN part.names : OfsOf(part, k) = pos
                     THEN CHOOSE k \in DOMAIN part.names : OfsOf(part, k) = pos ELSE 0
      read(st, o) == LET diff == o - st.pos
                         k    == NameAt(IF diff > 0 THEN st.at + diff ELSE st.at)
                         n    == IF k = 0 THEN 1 ELSE NameBytes(part.names[k])
                     IN  [pos |-> st.pos + n + diff, at |-> n + (IF diff > 0 THEN st.at + diff ELSE st.at),
                          handles |-> Append(st.handles, [ofs |-> o, name |-> k])]
  IN  FoldLeft(read, [pos |-> 0, at |-> 0, handles |-> <<>>], Offsets(part))

\* fieldNames.name.
nameOf(handles, o) ==
  IF \E k \in DOMAIN handles : handles[k].ofs = o
  THEN handles[CHOOSE k \in DOMAIN handles : handles[k].ofs = o].name ELSE NoName

-----------------------------------------------------------------------------
(* Reader: what the decoder of a part reads of it.                         *)

Wrap16(n) == ((n + MaxInt16 + 1) % (2 * (MaxInt16 + 1))) - (MaxInt16 + 1)     \* int16
ReadBytes(n) == [n |-> n, err |-> "nil"]
fixErrorSize == 18

\* optType.decode: a negative length cannot be allocated.
optDecode(o) == IF o.t \in {"string", "bstring"} THEN 2 + Wrap16(o.len) ELSE optSize(o)
optionsDecode(os) ==
  IF \E k \in DOMAIN os : optDecode(os[k]) < 0 THEN [n |-> 0, err |-> "panic"]
  ELSE ReadBytes(Total(LAMBDA o : 2 + optDecode(o), os))

\* HdbErrors.decodeNumArg.
errorsDecode(es) ==
  IF Len(es) = 1 THEN fixErrorSize + es[1].len + 1
  ELSE Total(LAMBDA e : fixErrorSize + e.len + padBytes(2 + e.len), es)

rowsAffectedDecode(h) == ReadBytes(4 * numArg(h))
writeLobReplyDecode(h) == ReadBytes(8 * numArg(h))
\* The reply to another request than the reader's own is refused.
readLobReplyDecode(p) == IF p.own THEN ReadBytes(8 + 1 + 4 + 3 + p.len) ELSE [n |-> 8, err |-> "decode"]
\* The fields, and behind them their names; some type code may be unknown.
metadataDecode(p, h) ==
  [n |-> p.fieldSize * numArg(h) + decodeNames(p).at, err |-> IF p.bad THEN "decode" ELSE "nil"]
textDecode(h) == ReadBytes(h.bufferLength)
clientInfoDecode(texts) == ReadBytes(Total(LAMBDA t : LICesu8(t).n, texts))
topologyDecode(hosts) == ReadBytes(Total(LAMBDA os : 2 + optionsDecode(os).n, hosts))
writeLobRequestDecode(lens) == ReadBytes(Total(LAMBDA n : 8 + 1 + 8 + 4 + n, lens))
readLobRequestDecode == ReadBytes(8 + 8 + 4 + 4)

\* decode, decodeNumArg, decodeBufLen of the parts.
partDecode(p, h) ==
  CASE p.kind = "rowsAffected"    -> rowsAffectedDecode(h)
    [] p.kind = "error"           -> ReadBytes(errorsDecode(p.items))
    [] p.kind = "writeLobReply"   -> writeLobReplyDecode(h)
    [] p.kind = "readLobReply"    -> readLobReplyDecode(p)
    [] p.kind = "metadata"        -> metadataDecode(p, h)
    [] p.kind \in {"command", "clientID"} -> textDecode(h)
    [] p.kind = "clientInfo"      -> clientInfoDecode(p.items)
    [] p.kind = "options"         -> optionsDecode(p.items)
    [] p.kind = "topology"        -> topologyDecode(p.items)
    [] p.kind = "writeLobRequest" -> writeLobRequestDecode(p.items)
    [] p.kind = "readLobRequest"  -> readLobRequestDecode
    [] OTHER                      -> ReadBytes(fixedSize[p.kind])

\* The parts that the reader can decode without knowing the statement (genPartTypeMap).
Generic(kind) == kind \notin {"parameters", "metadata", "authentication", "resultset"}

\* Mutant: the bytes that the decoder has left unread stay unread.
ReadPart_NoSkip(h) ==
  LET d == partDecode(h.part, h)
  IN  IF d.n > h.bufferLength THEN [n |-> d.n, err |-> "panic"] ELSE d
\* Reader.ReadPart.
ReadPart(h) ==
  LET d == partDecode(h.part, h)
  IN  IF d.n > h.bufferLength THEN [n |-> d.n, err |-> "panic"] ELSE [d EXCEPT !.n = h.bufferLength]

\* One part in IterateParts.
PartRead(h) ==
  IF \/ h.part.kind \in {"rowsAffected", "error"}
     \/ h.part.kind \in pr.reads
     \/ pr.trace /\ Generic(h.part.kind)
  THEN ReadPart(h) ELSE ReadBytes(h.bufferLength)

\* Where the header of the k-th part really stands in the message, and its end.
PlaceOf(m, k) ==
  segmentHeaderSize + Total(LAMBDA f : partHeaderSize + f.data + f.pad, SubSeq(m.parts, 1, k - 1))
EndOf(m) == PlaceOf(m, Len(m.parts) + 1)

Idle == [at |-> 0, pos |-> 0, msg |-> <<>>, verdict |-> "nil", rows |-> <<>>, errs |-> <<>>, handles |-> <<>>]

\* The message and the segment header.  After a torn message the reader takes anything for a header.
ReadHeaders ==
  /\ stream # <<>>
  /\ pr.at = 0
  /\ pr.verdict \in {"nil", "ok", "error"}
  /\ pr' = [pr EXCEPT !.at = 1, !.pos = segmentHeaderSize, !.msg = Head(stream), !.rows = <<>>, !.errs = <<>>,
                      !.handles = <<>>, !.verdict = IF Head(stream).torn THEN "lost" ELSE "nil"]
  /\ stream' = Tail(stream)
  /\ UNCHANGED <<todo8, pw>>

\* The next part: its header, its body, and its padding unless it is the last one.
NextPart ==
  /\ pr.at > 0
  /\ pr.at <= Len(pr.msg.parts)
  /\ pr.verdict = "nil"
  /\ LET h == pr.msg.parts[pr.at]
         r == PartRead(h)
         last == pr.at = Len(pr.msg.parts)
     IN  pr' = IF pr.pos # PlaceOf(pr.msg, pr.at) THEN [pr EXCEPT !.verdict = "lost"]
               ELSE [pr EXCEPT !.at = @ + 1,
                               !.pos = @ + partHeaderSize + r.n + (IF last THEN 0 ELSE padBytes(h.bufferLength)),
                               !.verdict = r.err,
                               !.rows = IF h.part.kind = "rowsAffected" THEN h.part.items ELSE @,
                               !.errs = IF h.part.kind = "error" THEN h.part.items ELSE @,
                               !.handles = IF h.part.kind = "metadata" /\ h.part.kind \in pr.reads
                                           THEN decodeNames(h.part).handles ELSE @]
  /\ UNCHANGED <<todo8, pw, stream>>

\* skipPaddingLastPart.
LastPadding(m) == m.varPartLength - pr.pos

\* The end of IterateParts.
EndMessage ==
  /\ pr.at > 0
  /\ pr.at > Len(pr.msg.parts)
  /\ pr.verdict = "nil"
  /\ pr' = [pr EXCEPT !.at = 0,
                      !.pos = @ + LastPadding(pr.msg),
                      !.verdict = CASE LastPadding(pr.msg) < 0 -> "panic"
                                    [] LastPadding(pr.msg) >= 0 /\ \E k \in DOMAIN pr.errs : ~pr.errs[k].warning -> "error"
                                    [] OTHER -> "ok"]
  /\ UNCHANGED <<todo8, pw, stream>>

-----------------------------------------------------------------------------
(* External: the database.  A single error is announced one byte longer than it is, several errors *)
(* are padded one by one; the last part of a message may be padded or not.                         *)

ReplyBody(p) ==
  CASE p.kind = "rowsAffected"  -> 4 * Len(p.items)
    [] p.kind = "error"         -> IF Len(p.items) = 1 THEN 19 + p.items[1].len
                                   ELSE Total(LAMBDA e : 18 + e.len + ((6 - e.len) % 8), p.items)
    [] p.kind = "writeLobReply" -> 8 * Len(p.items)
    [] p.kind = "readLobReply"  -> 16 + p.len
    [] p.kind = "metadata"      -> p.fieldSize * p.fields + Total(NameBytes, p.names)
    [] p.kind = "options"       -> Total(LAMBDA o : 2 + optSize(o), p.items)
    [] p.kind = "topology"      -> Total(LAMBDA os : 2 + Total(LAMBDA o : 2 + optSize(o), os), p.items)
    [] p.kind = "resultset"     -> p.len
    [] OTHER                    -> fixedSize[p.kind]
ReplyArgs(p) == CASE p.kind = "metadata" -> p.fields
                  [] p.kind \in {"rowsAffected", "error", "writeLobReply", "options", "topology"} -> Len(p.items)
                  [] OTHER -> 1
ReplyMessage(r) ==
  LET n  == Len(r.parts)
      fs == [k \in 1 .. n |->
               [part |-> r.parts[k], ok |-> TRUE, count |-> ReplyArgs(r.parts[k]), big |-> 0,
                bufferLength |-> ReplyBody(r.parts[k]), bufferSize |-> 0, data |-> ReplyBody(r.parts[k]),
                pad |-> IF k = n /\ ~r.padLast THEN 0 ELSE (-ReplyBody(r.parts[k])) % 8]]
  IN  [from |-> "database", torn |-> FALSE, varPartLength |-> 24 + Total(LAMBDA f : 16 + f.data + f.pad, fs), parts |-> fs]

-----------------------------------------------------------------------------
NoWriter == [sv |-> NoVars, svSent |-> FALSE, hasError |-> FALSE]
Reader(reads, trace) == Idle @@ [reads |-> reads, trace |-> trace]

WireOff == todo8 = <<>> /\ pw = NoWriter /\ stream = <<>> /\ pr = Reader({}, FALSE)

WireInit ==
  \/ /\ todo8 \in Requests
     /\ \E sv \in SessionVars : pw = [NoWriter EXCEPT !.sv = sv]
     /\ stream = <<>>
     /\ \E trace \in BOOLEAN : pr = Reader({}, trace)
  \/ /\ todo8 = <<>>
     /\ pw = NoWriter
     /\ \E r \in Replies : stream = <<ReplyMessage(r)>> /\ pr = Reader(r.reads, r.trace)

WireNext == WriteNextMessage \/ ReadHeaders \/ NextPart \/ EndMessage

-----------------------------------------------------------------------------
(* Properties.                                                             *)

\* What the driver puts on the wire is what its headers announce, for the parts of every request, the session
\* variables that travel with the first statement included: size() of every part counts exactly the bytes that
\* its encode writes, the padding included (Writer._write).  A failed write ends this, and sets hasError.
MessageFramed ==
  ~pw.hasError =>
    \A m \in {stream[k] : k \in {k \in DOMAIN stream : stream[k].from = "driver"}} :
      /\ m.varPartLength = EndOf(m)
      /\ \A k \in DOMAIN m.parts :
           LET f == m.parts[k]
           IN  /\ f.data = f.bufferLength
               /\ (f.data + f.pad) % 8 = 0
               /\ f.bufferSize = EndOf(m) - PlaceOf(m, k)
               /\ numArg(f) = partArgs(f.part)

\* A reader that follows the headers, the driver's own or the one of the sniffer, never loses its place, and
\* once IterateParts has returned without an error of the decoding, it stands at the end of the message: a
\* part that was skipped, read half or read whole, padded or not, a single error and its odd byte, several of
\* them.  It reports an error exactly when the database sent one that is more than a warning.
MessageRead ==
  ~pw.hasError =>
    /\ pr.verdict \notin {"lost", "panic"}
    /\ pr.verdict \in {"ok", "error"} =>
         /\ pr.pos = EndOf(pr.msg)
         /\ (pr.verdict = "error") <=>
              \E k \in DOMAIN pr.msg.parts : /\ pr.msg.parts[k].part.kind = "error"
                                             /\ \E e \in DOMAIN pr.msg.parts[k].part.items :
                                                  ~pr.msg.parts[k].part.items[e].warning

\* A field is given the name that stands at its offset, though the fields refer to the names in any order and
\* share them (fieldNames.insertOfs, decode, name).
NamesResolved ==
  \A k \in 1 .. (IF pr.verdict = "ok" THEN Len(pr.msg.parts) ELSE 0) :
    LET p == pr.msg.parts[k].part
    IN  (p.kind = "metadata" /\ p.kind \in pr.reads) =>
          \A r \in DOMAIN p.refs : nameOf(pr.handles, OfsOf(p, p.refs[r])) = p.refs[r]

=============================================================================
