-------------------------------- MODULE Lob --------------------------------
(***************************************************************************)
(* Large objects on the wire: the chunked read behind Scan (lobOutDescr    *)
(* and session.readLob) and the chunked write of input parameters          *)
(* (LobInDescr, WriteLobDescr, InputParameters and session.writeLobs),     *)
(* with the server that holds the data.                                    *)
(*                                                                         *)
(* The server counts a character lob in UTF-16 units: a supplementary      *)
(* character is two units, and a chunk may end between them.               *)
(***************************************************************************)
EXTENDS Cesu8
LOCAL INSTANCE SequencesExt
LOCAL INSTANCE FiniteSetsExt

CONSTANTS
    ReadLobs,           \* what is read: records [tr, handler, chars]
    ChunkSizes,         \* values given to SetLobChunkSize
    minLobChunkSize,    \* in the code 128; with 4 units a chunk has the 6 bytes of a pair
    maxLobChunkSize,    \* in the code math.MaxInt32
    MaxInline,          \* the most units the server puts into the row itself
    WriteRows,          \* what is written: sequences of rows of columns
    NumFieldSize,       \* bytes of a column that is no lob, its type code included
    LobFieldSize        \* bytes of a lob's locator, its type code included

VARIABLES
    lob,        \* the read: a record of ReadLobs and the chunk size in force
    rd,         \* [pc, b, last, ofs, wrote, err, pipe]: the descriptor and its loop
    wl          \* [pc, rows, pos, at, ids, stored, err, chunk]: the write

lobVars == <<lob, rd, wl>>

setLobChunkSize_NoMin(n) == IF n > maxLobChunkSize THEN maxLobChunkSize ELSE n

setLobChunkSize(n) ==
    CASE n < minLobChunkSize -> minLobChunkSize
      [] n > maxLobChunkSize -> maxLobChunkSize
      [] OTHER               -> n

(***************************************************************************)
(* The server's side of a read.                                            *)
(***************************************************************************)
Halves(c) == IF c = "S" THEN <<Broken["H"], Broken["L"]>>
             ELSE <<IF c \in DOMAIN Broken THEN Broken[c] ELSE EncodeRune(c)>>
Units(cs) == FlattenSeq([k \in DOMAIN cs |-> Halves(cs[k])])

Chunk(ofs, n) ==
    [b    |-> FlattenSeq(SubSeq(lob.units, ofs + 1, Min({ofs + n, Len(lob.units)}))),
     last |-> ofs + n >= Len(lob.units)]

(***************************************************************************)
(* lobOutDescr.write: the chunk is transformed in place, its incomplete    *)
(* tail is left out, and the units that were written are counted.          *)
(***************************************************************************)
DecodedUnits_Runes(out) == Len(SelectSeq(out, LAMBDA b : b \in {"a", "b1", "c1", "f1", "u1"}))

DecodedUnits(out) ==
    Len(SelectSeq(out, LAMBDA b : b \in {"a", "b1", "c1", "f1"}))
  + 2 * Len(SelectSeq(out, LAMBDA b : b = "u1"))

write(b) ==
    IF ~lob.tr THEN [out |-> b, n |-> Len(b), err |-> "none"]
    ELSE LET t == Transform("decode", lob.handler, TRUE, Len(b), FALSE, b)
         IN [out |-> t.out, n |-> DecodedUnits(t.out),
             err |-> IF t.err = "shortSrc" THEN "none" ELSE t.err]

\* What Scan does at its end: a pipe is closed, with the error if there is one.
ScanEnd(err) == [rd EXCEPT !.pc = "done", !.err = err,
                           !.pipe = IF err = "none" THEN "closed" ELSE "broken"]

Wrote(r, next) ==
    IF r.err # "none" THEN ScanEnd(r.err)
    ELSE LET done == [rd EXCEPT !.wrote = @ \o r.out, !.ofs = next]
         IN IF rd.last THEN [done EXCEPT !.pc = "done", !.pipe = "closed"]
            ELSE [done EXCEPT !.pc = "request"]

\* Scan: the data that came with the row, then the rest by requests.
scan == /\ rd.pc = "scan"
        /\ \E r \in {write(rd.b)} : rd' = Wrote(r, r.n)

\* readLob: one request at the offset and the reply to it.
readLob ==
    /\ rd.pc = "request"
    /\ LET c == Chunk(rd.ofs, lob.chunk)
       IN rd' = [rd EXCEPT !.b = c.b, !.last = c.last, !.pc = "write"]

\* ReadLobReply.Write: the chunk is written and the offset advanced.
Write == /\ rd.pc = "write"
         /\ \E r \in {write(rd.b)} : rd' = Wrote(r, rd.ofs + r.n)

\* The destination fails: nothing more is read.
WriterFails == /\ rd.pc \in {"scan", "write"}
               /\ rd' = ScanEnd("writer")

\* The server answers with an error: its "while parsing protocol" means that
\* the locator is no longer valid, which scanLob reports as such.
LobRefused == /\ rd.pc = "request"
              /\ \E e \in {"invalidLocator", "dbError"} : rd' = ScanEnd(e)

(***************************************************************************)
(* Writing.  A row is a sequence of columns: a number, or a lob with the   *)
(* length of its data; wl.at counts what its reader has delivered.         *)
(***************************************************************************)
Columns(r) == DOMAIN wl.rows[r]
IsLob(r, j) == wl.rows[r][j].lob
Length(r, j) == wl.rows[r][j].len

\* LobInDescr.FetchNext: io.CopyN reports the end only when it falls short.
FetchNext(at, len) ==
    IF at + wl.chunk <= len THEN [from |-> at, to |-> at + wl.chunk, last |-> FALSE]
    ELSE [from |-> at, to |-> len, last |-> TRUE]

SumOver(S, f(_)) == FoldSet(LAMBDA k, acc : f(k) + acc, 0, S)

\* InputParameters.size: the bytes of the rows before and of the fields of the
\* row, then the data of the row's lobs one after the other.
FieldBytes(r) == SumOver(Columns(r), LAMBDA j : IF IsLob(r, j) THEN LobFieldSize ELSE NumFieldSize)
FirstBytes(r, below) ==
    SumOver({j \in Columns(r) : j < below /\ IsLob(r, j)}, LAMBDA j : FetchNext(0, Length(r, j)).to)
RowBytes(r) == FieldBytes(r) + FirstBytes(r, Len(wl.rows[r]) + 1)
LobPos_OwnRow(r, j) == FieldBytes(r) + FirstBytes(r, j)
LobPos(r, j) == SumOver(1..(r - 1), RowBytes) + FieldBytes(r) + FirstBytes(r, j)

\* InputParameters.encode: where each byte of the part comes from.
RowLayout(r) ==
    FlattenSeq([j \in Columns(r) |->
        [k \in 1..(IF IsLob(r, j) THEN LobFieldSize ELSE NumFieldSize) |-> <<"field", r, j>>]])
    \o FlattenSeq([j \in Columns(r) |->
        IF IsLob(r, j) THEN [k \in 1..FetchNext(0, Length(r, j)).to |-> <<"lob", r, j, k>>]
        ELSE <<>>])
Layout == FlattenSeq([r \in DOMAIN wl.rows |-> RowLayout(r)])

LobStored(from, to) == [k \in 1..(to - from) |-> from + k]

\* A reader that fails does so before any data is sent, at the first chunk.
FirstFails == /\ wl.pc = "convert"
              /\ wl' = [wl EXCEPT !.pc = "done", !.err = "reader"]

\* The statement with the first chunks: the server stores what the positions
\* point at and returns the ids of the lobs that are not complete.
SendRows ==
    LET last == Len(wl.rows)
        open == {j \in Columns(last) : IsLob(last, j) /\ ~FetchNext(0, Length(last, j)).last}
    IN  /\ wl.pc = "convert"
        /\ wl' = [wl EXCEPT
             !.pc = IF open = {} THEN "done" ELSE "lobs",
             !.pos = [r \in DOMAIN wl.rows |-> [j \in Columns(r) |->
                         IF IsLob(r, j) THEN LobPos(r, j) ELSE 0]],
             !.at = [j \in Columns(last) |-> FetchNext(0, Length(last, j)).to],
             !.ids = SetToSortSeq(open, <),
             !.descrs = SetToSortSeq(open, <),
             !.stored = [j \in Columns(last) |-> LobStored(0, FetchNext(0, Length(last, j)).to)]]

\* session.writeLobs, one round: the ids are compared, each descriptor fetches
\* its next chunk, all go out in one request, the complete ones are removed.
writeLobs ==
    LET last == Len(wl.rows)
        chunk(j) == FetchNext(wl.at[j], Length(last, j))
        sent == Range(wl.descrs)
        more == SelectSeq(wl.descrs, LAMBDA j : ~chunk(j).last)
        open == {j \in Range(wl.ids) : ~chunk(j).last}
    IN  /\ wl.pc = "lobs"
        /\ IF wl.descrs # wl.ids
           THEN wl' = [wl EXCEPT !.pc = "done", !.err = "idMismatch"]
           ELSE wl' = [wl EXCEPT
                  !.at = [j \in DOMAIN @ |-> IF j \in sent THEN chunk(j).to ELSE @[j]],
                  !.stored = [j \in DOMAIN @ |->
                      IF j \in sent THEN @[j] \o LobStored(chunk(j).from, chunk(j).to) ELSE @[j]],
                  !.ids = SetToSortSeq(open, <),
                  !.descrs = more,
                  !.pc = IF more = <<>> THEN "done" ELSE "lobs"]

\* A reader fails in a later round: the lobs stay as far as they were sent.
ReaderFails == /\ wl.pc = "lobs"
               /\ wl' = [wl EXCEPT !.pc = "done", !.err = "reader"]

-----------------------------------------------------------------------------
NoRead == [pc |-> "off", b |-> <<>>, last |-> FALSE, ofs |-> 0, wrote |-> <<>>,
           err |-> "none", pipe |-> "open"]
NoWrite == [pc |-> "off", rows |-> <<>>, pos |-> <<>>, at |-> <<>>, ids |-> <<>>,
            descrs |-> <<>>, stored |-> <<>>, err |-> "none", chunk |-> 0]
NoLob == [tr |-> FALSE, handler |-> "nil", chars |-> <<>>, units |-> <<>>, chunk |-> 0]

LobOff == lob = NoLob /\ rd = NoRead /\ wl = NoWrite

\* A row with a lob was decoded: the server chose how much came with the row.
ReadInit ==
    \E l \in ReadLobs, n \in ChunkSizes, k \in 0..MaxInline :
        /\ lob = [tr |-> l.tr, handler |-> l.handler, chars |-> l.chars,
                  units |-> Units(l.chars), chunk |-> setLobChunkSize(n)]
        /\ rd = [NoRead EXCEPT !.pc = "scan", !.b = Chunk(0, k).b, !.last = Chunk(0, k).last]
        /\ wl = NoWrite

\* The arguments of a statement: only the last row has lobs longer than a chunk.
WriteInit ==
    \E rows \in WriteRows, n \in ChunkSizes :
        /\ \A r \in 1..(Len(rows) - 1) : \A j \in DOMAIN rows[r] :
               rows[r][j].lob => rows[r][j].len < setLobChunkSize(n)
        /\ wl = [NoWrite EXCEPT !.pc = "convert", !.rows = rows, !.chunk = setLobChunkSize(n)]
        /\ lob = NoLob /\ rd = NoRead

LobInit == ReadInit \/ WriteInit

ReadNext == /\ scan \/ readLob \/ Write \/ WriterFails \/ LobRefused
            /\ UNCHANGED <<lob, wl>>
WriteNext == /\ FirstFails \/ SendRows \/ writeLobs \/ ReaderFails
             /\ UNCHANGED <<lob, rd>>
LobNext == ReadNext \/ WriteNext

-----------------------------------------------------------------------------
(***************************************************************************)
(* Properties.                                                             *)
(***************************************************************************)
\* Scan succeeds although the end of the content is missing: from a surrogate
\* without its partner on, fewer bytes than a pair has were taken for incomplete.
EndDropped ==
    \E j \in DOMAIN lob.chars :
        /\ lob.chars[j] \in {"H", "L"}
        /\ Len(TextBytes("decode", From(lob.chars, j - 1))) < 6
        /\ rd.wrote = Encoded("decode", SubSeq(lob.chars, 1, j - 1))

\* A lob is read whole: whatever the chunk size and wherever a chunk ends, the
\* writer gets the content character by character, none twice and none left
\* out: with the replacing handler U+FFFD for what is no character, without it
\* everything up to the first of those.  Scan succeeds, and closes a pipe
\* without error, only when everything was delivered, except for EndDropped.
\* It fails for its data only if that is no text: with the replacing
\* handler only for a stray byte, whose replacement is longer and does not
\* always find the "enough space" of lob.go:197.  Two lone surrogates in a row
\* are counted as one unit when they are replaced, and left out.
LobReadWhole ==
    LET cs == lob.chars
        k == SoundPart(cs)
        good == IF k = 0 \/ lob.handler = "replace" THEN cs ELSE SubSeq(cs, 1, k - 1)
        want == IF lob.tr THEN Encoded("decode", good) ELSE FlattenSeq(lob.units)
    IN  /\ rd.pc = "done" => (rd.err = "none") = (rd.pipe = "closed")
        /\ rd.err = "invalid" => lob.handler = "nil" /\ k > 0
        /\ rd.err = "shortDst" => lob.handler = "replace" /\ "X" \in Range(cs)
        /\ ~(lob.handler = "replace" /\ LoneNext(cs)) =>
             /\ IsPrefix(rd.wrote, want)
             /\ (rd.pc = "done" /\ rd.err = "none") =>
                  \/ rd.wrote = want /\ (lob.tr /\ lob.handler = "nil" => k = 0)
                  \/ lob.tr /\ EndDropped

\* A lob is written whole: each position points at the first byte of the lob's
\* data in the part and the data of no other lob, the ids of the server and the
\* descriptors never get out of step, and when the statement succeeds the
\* server holds each byte of each lob once and in order.
LobWrittenWhole ==
    /\ wl.err # "idMismatch"
    /\ LET layout == Layout
       IN \A r \in DOMAIN wl.pos : \A j \in Columns(r) :
            IsLob(r, j) => \A k \in 1..FetchNext(0, Length(r, j)).to :
                               layout[wl.pos[r][j] + k] = <<"lob", r, j, k>>
    /\ (wl.pc = "done" /\ wl.err = "none") =>
         \A j \in DOMAIN wl.stored :
             IsLob(Len(wl.rows), j) => wl.stored[j] = [k \in 1..Length(Len(wl.rows), j) |-> k]

\* Scan and the write of a statement come to an end: every request brings the
\* read forward, because no chunk is smaller than a pair of surrogates, or than
\* what the decoder wants to see after a lone one.
LobEnds == <>(rd.pc \in {"off", "done"} /\ wl.pc \in {"off", "done"})

=============================================================================
