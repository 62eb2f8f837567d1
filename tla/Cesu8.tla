------------------------------- MODULE Cesu8 -------------------------------
(***************************************************************************)
(* The CESU-8 codec of driver/unicode/cesu8: what one call of              *)
(* Encoder.Transform and Decoder.Transform does to the bytes it is given,  *)
(* and a caller that hands a text over in pieces the way the readers and   *)
(* writers of golang.org/x/text/transform do.                              *)
(*                                                                         *)
(* A byte is a name: "a" is an ASCII character, "b1 b2" and "c1 c2 c3" are *)
(* characters of two and three bytes, "u1".."u4" is a supplementary        *)
(* character in UTF-8 and "h1 h2 h3" "l1 l2 l3" are the two surrogates of  *)
(* it in CESU-8 ("h1" and "l1" are both 0xED and are told apart by their   *)
(* second byte only), "f1 f2 f3" is U+FFFD, and "x" is a byte that occurs  *)
(* in no encoding.                                                         *)
(***************************************************************************)
EXTENDS Integers, Sequences
LOCAL INSTANCE SequencesExt

CONSTANTS
    Texts8,     \* the texts: sequences of members of DOMAIN Utf8 and Broken
    DstSizes    \* the sizes of the destination buffer

VARIABLES
    text,       \* [dir, handler, chars] and whether a cut fell inside a surrogate
    src,        \* the bytes given to Transform and not consumed
    left,       \* the bytes of the text the caller has not read yet
    dst,        \* the bytes produced
    verdict     \* "more", "eof", "error" or "off"

cesu8Vars == <<text, src, left, dst, verdict>>

(***************************************************************************)
(* The encodings.                                                          *)
(***************************************************************************)
RuneError == "Err"
Utf8 == [A |-> <<"a">>, B |-> <<"b1", "b2">>, C |-> <<"c1", "c2", "c3">>,
         S |-> <<"u1", "u2", "u3", "u4">>, F |-> <<"f1", "f2", "f3">>]
EncodeRune(r) == IF r = "S" THEN <<"h1", "h2", "h3", "l1", "l2", "l3">> ELSE Utf8[r]

\* Input that is no character: a stray byte and the surrogates on their own.
Broken == [X |-> <<"x">>, H |-> <<"h1", "h2", "h3">>, L |-> <<"l1", "l2", "l3">>]

RuneLen(r) == Len(EncodeRune(r))

From(p, i) == SubSeq(p, i + 1, Len(p))

(***************************************************************************)
(* unicode/utf8: an encoding that is invalid counts as a full rune.        *)
(***************************************************************************)
Width(b) == CASE b \in {"b1"} -> 2 [] b \in {"c1", "f1", "h1", "l1"} -> 3
              [] b = "u1" -> 4 [] OTHER -> 1

Follows(b) == CASE b = "b1" -> "b2" [] b = "c1" -> "c2" [] b = "c2" -> "c3"
                [] b = "f1" -> "f2" [] b = "f2" -> "f3" [] b = "u1" -> "u2"
                [] b = "u2" -> "u3" [] OTHER -> "none"

utf8FullRune(p) ==
    /\ p # <<>>
    /\ \/ Len(p) >= Width(p[1])
       \/ \E k \in 2..Len(p) : p[k] # Follows(p[k - 1])

utf8DecodeRune(p) ==
    IF \E r \in DOMAIN Utf8 : IsPrefix(Utf8[r], p)
    THEN LET r == CHOOSE r \in DOMAIN Utf8 : IsPrefix(Utf8[r], p)
         IN [r |-> r, n |-> Len(Utf8[r]), bad |-> FALSE]
    ELSE [r |-> RuneError, n |-> 1, bad |-> TRUE]

(***************************************************************************)
(* cesu8.go.                                                               *)
(***************************************************************************)
isSurrogate(p) ==
    Len(p) >= 3 /\ <<p[1], p[2]>> \in {<<"h1", "h2">>, <<"l1", "l2">>}

FullRune_OneHalf(p) == isSurrogate(p) \/ utf8FullRune(p)
FullRune(p) == IF isSurrogate(p) THEN isSurrogate(From(p, 3)) ELSE utf8FullRune(p)

decodeSurrogates(p) ==
    CASE ~isSurrogate(From(p, 3)) -> [r |-> RuneError, n |-> 3, bad |-> TRUE]
      [] isSurrogate(From(p, 3)) /\ p[1] = "h1" /\ p[4] = "l1"
                                  -> [r |-> "S", n |-> 6, bad |-> FALSE]
      [] OTHER                    -> [r |-> RuneError, n |-> 6, bad |-> TRUE]

DecodeRune(p) == IF isSurrogate(p) THEN decodeSurrogates(p) ELSE utf8DecodeRune(p)

\* Size counts a []byte with the CESU-8 decoder, StringSize a string with UTF-8's.
RECURSIVE SizeWith(_, _)
SizeWith(p, surrogates) ==
    IF p = <<>> THEN 0
    ELSE LET d == IF surrogates THEN DecodeRune(p) ELSE utf8DecodeRune(p)
         IN RuneLen(IF d.bad THEN "F" ELSE d.r) + SizeWith(From(p, d.n), surrogates)

Size8(p) == SizeWith(p, TRUE)
StringSize8(p) == SizeWith(p, FALSE)

(***************************************************************************)
(* Transform.  `c` is the call, `s` the state of its loop: n bytes read,   *)
(* the bytes written, and, when dst is the same slice as src (alias), what *)
(* the writes left of the source.                                          *)
(***************************************************************************)
Overwrite(b, j, bytes) ==
    [k \in DOMAIN b |-> IF k - j \in DOMAIN bytes THEN bytes[k - j] ELSE b[k]]

\* One turn of the loop of Encoder.Transform and of Decoder.Transform.
TransformRune(c, s, p) ==
    LET encode == c.dir = "encode"
        d == IF encode THEN utf8DecodeRune(p) ELSE DecodeRune(p)
        r == IF d.bad THEN "F" ELSE d.r
        bytes == IF encode THEN EncodeRune(r) ELSE Utf8[r]
    IN  CASE p = <<>> -> [s EXCEPT !.err = "none"]
          [] p # <<>> /\ ~c.atEOF /\ ~(IF encode THEN utf8FullRune(p) ELSE FullRune(p))
                /\ Len(p) < (IF encode THEN 4 ELSE 6) -> [s EXCEPT !.err = "shortSrc"]
          [] OTHER ->
               IF d.bad /\ c.handler = "nil" THEN [s EXCEPT !.err = "invalid"]
               ELSE IF Len(s.out) + Len(bytes) > c.cap THEN [s EXCEPT !.err = "shortDst"]
               ELSE [s EXCEPT !.n = @ + d.n, !.out = @ \o bytes,
                              !.b = IF c.alias THEN Overwrite(@, Len(s.out), bytes) ELSE @]

\* (The set of one element makes TLC evaluate the state once per turn.)
RECURSIVE TransformLoop(_, _)
TransformLoop(c, s) ==
    IF s.err # "go" THEN s
    ELSE CHOOSE end \in {TransformLoop(c, t) :
                             t \in {TransformRune(c, s, p) : p \in {From(s.b, s.n)}}} : TRUE

Transform(dir, handler, alias, cap, atEOF, b) ==
    TransformLoop([dir |-> dir, handler |-> handler, alias |-> alias, cap |-> cap,
                   atEOF |-> atEOF],
                  [b |-> b, n |-> 0, out |-> <<>>, err |-> "go"])

(***************************************************************************)
(* The caller: transform.Reader and transform.Writer read a piece, call    *)
(* Transform on what they have, and call again while the destination was   *)
(* too short.                                                              *)
(***************************************************************************)
TextBytes(dir, cs) ==
    FlattenSeq([k \in DOMAIN cs |->
        CASE cs[k] \in DOMAIN Broken -> Broken[cs[k]]
          [] OTHER -> IF dir = "decode" THEN EncodeRune(cs[k]) ELSE Utf8[cs[k]]])

Cesu8Off == /\ text = [dir |-> "off", handler |-> "nil", chars |-> <<>>, inside |-> FALSE]
            /\ src = <<>> /\ left = <<>> /\ dst = <<>> /\ verdict = "off"

Cesu8Init ==
    \E dir \in {"encode", "decode"}, handler \in {"nil", "replace"}, cs \in Texts8 :
        /\ text = [dir |-> dir, handler |-> handler, chars |-> cs, inside |-> FALSE]
        /\ src = <<>> /\ left = TextBytes(dir, cs) /\ dst = <<>> /\ verdict = "more"

\* One read of the source, which may report its end with the last bytes or
\* after them, and one Transform of everything at hand.
Piece(k, atEOF, cap) ==
    LET b == src \o SubSeq(left, 1, k)
        t == Transform(text.dir, text.handler, FALSE, cap, atEOF, b)
        inside == Len(b) >= 2 /\ SubSeq(b, Len(b) - 1, Len(b))
                                     \in {<<"h1", "h2">>, <<"l1", "l2">>}
    IN  /\ verdict = "more"
        /\ atEOF => k = Len(left)
        /\ left' = From(left, k)
        /\ src' = From(b, t.n)
        /\ dst' = dst \o t.out
        /\ verdict' = CASE t.err = "invalid" -> "error"
                        [] t.err = "none" /\ atEOF -> "eof"
                        [] OTHER -> "more"
        /\ text' = [text EXCEPT !.inside = @ \/ (text.dir = "decode" /\ inside)]

Cesu8Next == \E k \in 0..Len(left), atEOF \in BOOLEAN, cap \in DstSizes :
                 Piece(k, atEOF, cap)

-----------------------------------------------------------------------------
(***************************************************************************)
(* Properties.                                                             *)
(***************************************************************************)
\* What the text means, character by character: a surrogate on its own is one
\* invalid character of CESU-8 and three invalid bytes of UTF-8.
Encoded(dir, cs) ==
    FlattenSeq([k \in DOMAIN cs |->
        CASE cs[k] \in {"H", "L"} /\ dir = "encode" -> Utf8.F \o Utf8.F \o Utf8.F
          [] cs[k] \in {"H", "L"} /\ dir = "decode" -> Utf8.F
          [] cs[k] = "X" -> Utf8.F
          [] OTHER -> IF dir = "encode" THEN EncodeRune(cs[k]) ELSE Utf8[cs[k]]])
Sound(cs) == \A k \in DOMAIN cs : cs[k] \notin DOMAIN Broken
SoundPart(cs) == SelectInSeq(cs, LAMBDA c : c \in DOMAIN Broken)

\* Two surrogates that are no pair: the decoder takes them for one error.
LoneNext(cs) == \E k \in 1..(Len(cs) - 1) : cs[k] \in {"H", "L"} /\ cs[k + 1] \in {"S", "H", "L"}

\* However a text is cut into pieces and however small the destination is, the
\* codec without a handler produces, character by character, what the text means
\* up to the first that is no character, and all of it when it reports no
\* error.  With the replacing handler it produces U+FFFD for each of those;
\* when decoding, this takes that no two lone surrogates follow each other and
\* that no cut falls between the second and the third byte of a surrogate, which
\* FullRune takes for broken bytes.  Without such a cut the codec reports no
\* error but at the first of what is no character.  The length StringSize, for
\* a []byte of characters Size, announces ahead is the length that is written.
Cesu8Whole ==
    LET cs == text.chars
        k == SoundPart(cs)
        good == IF k = 0 THEN cs ELSE SubSeq(cs, 1, k - 1)
    IN  /\ text.handler = "nil" =>
             /\ IsPrefix(dst, Encoded(text.dir, good))
             /\ verdict = "eof" => Sound(cs) /\ dst = Encoded(text.dir, cs)
             /\ verdict = "error" /\ ~text.inside => k > 0 /\ dst = Encoded(text.dir, good)
        /\ text.handler = "replace" =>
             /\ verdict # "error"
             /\ text.dir = "encode" \/ ~(text.inside \/ LoneNext(cs)) =>
                  /\ IsPrefix(dst, Encoded(text.dir, cs))
                  /\ verdict = "eof" => dst = Encoded(text.dir, cs)
        /\ verdict = "eof" /\ text.dir = "encode" =>
             /\ Len(dst) = StringSize8(TextBytes("encode", cs))
             /\ Sound(cs) => Len(dst) = Size8(TextBytes("encode", cs))

=============================================================================
