------------------------------- MODULE Values -------------------------------
(***************************************************************************)
(* The life of a parameter value: the conversion of what the application   *)
(* passes to the type of the field (protocol/convert.go), its size and its *)
(* encoding (protocol/parameter.go, encoding/encode.go), and the decoding  *)
(* of the same value when it is selected again (protocol/decode.go,        *)
(* encoding/decode.go).                                                    *)
(*                                                                         *)
(* A Go value is [kind, named, n, d, ok, ...]: a number n/d, a text (its   *)
(* length, its supplementary characters, whether it is hexadecimal) or a   *)
(* time.  The widths of integers, the digits of decimals and the parts of  *)
(* a day are constants, so that TLC meets their limits.                    *)
(***************************************************************************)
EXTENDS Integers, Sequences, FiniteSets

LOCAL INSTANCE Bitwise

CONSTANTS
  TinyBits, SmallBits, IntBits, BigBits,   \* widths of the integers: 8, 16, 32, 64
  MaxReal, MaxDouble,                      \* largest float32, float64
  RealBits, DoubleBits,                    \* of the mantissa of a float32, a float64: 24, 53
  LenSmall, LenMedium, LenBig,             \* 245, MaxInt16, MaxInt32
  Hours, Minutes, Seconds,                 \* of a day, an hour, a minute
  Ticks, TickNs,                           \* ticks of a second, nanoseconds of a tick: 10^7, 100
  Digits, Bias, MantBits, ExpBits,         \* of a decimal: 34, 6176, 113, 14
  ByteBits, WordBytes,                     \* of a byte and of a big.Word
  Fixed8Size, Fixed12Size, Fixed16Size,    \* bytes of the fixed decimals
  ParamFields, GoValues                    \* fields, and the values passed for each of them

VARIABLES
  field,    \* ParameterField: [tc, prec, scale]
  gov,      \* what the application passes
  conv,     \* NamedValue.Value after Convert
  size,     \* prmSize
  written,  \* what encodePrm writes
  back,     \* what the result set holds
  out,      \* what decodeResult returns
  phase

valuesVars == <<field, gov, conv, size, written, back, out, phase>>

-----------------------------------------------------------------------------
(* convert.go.  A conversion yields a set of outcomes, since the conversion of a float that *)
(* does not fit to an integer is up to the platform.                                        *)

Nil == [kind |-> "nil"]
Refused == [kind |-> "error"]
Panicked == [kind |-> "panic"]
Num(k, n, d) == [kind |-> k, n |-> n, d |-> d, ok |-> TRUE]

MaxI64 == 2^(BigBits - 1) - 1
MinI64 == -2^(BigBits - 1)
Wrap64(n) == ((n + 2^(BigBits - 1)) % 2^BigBits) - 2^(BigBits - 1)      \* int64(uint64)

Numbers == {"int", "uint", "uint64", "float"}

Abs(n) == IF n < 0 THEN -n ELSE n
BitLen(n) == CHOOSE k \in 0 .. 31 : (k = 0 \/ 2^(k - 1) <= Abs(n)) /\ (k = 31 \/ Abs(n) < 2^k)

\* The float next to n with a mantissa of so many bits, of two the even one.  It serves for n/d
\* too, because the denominators of the numbers that become floats are powers of two.
FloatOf(n, bits) ==
  LET u  == IF BitLen(n) > bits THEN 2^(BitLen(n) - bits) ELSE 1
      q  == Abs(n) \div u
      rest == 2 * (Abs(n) % u)
      m  == IF rest > u \/ (rest = u /\ q % 2 = 1) THEN (q + 1) * u ELSE q * u
  IN  IF n < 0 THEN -m ELSE m

convertBool(v) ==
  CASE v.kind = "bool"              -> {Num("bool", v.n, 1)}
    [] v.kind \in Numbers           -> {Num("bool", IF v.n # 0 \/ ~v.ok THEN 1 ELSE 0, 1)}
    [] v.kind = "string" /\ v.parse = "bool" -> {Num("bool", v.n, 1)}
    [] OTHER                        -> {Refused}

\* Mutant: the limits themselves are refused.
InRange_Strict(i, lo, hi) == {IF i >= hi \/ i <= lo THEN Refused ELSE Num("int", i, 1)}
\* i64 > maxI64 || i64 < minI64.
InRange(i, lo, hi) == {IF i > hi \/ i < lo THEN Refused ELSE Num("int", i, 1)}

\* int64(v) of a float: truncation; out of range, the largest or the smallest integer.
Int64Of(v) ==
  LET t == IF v.n >= 0 THEN v.n \div v.d ELSE -((-v.n) \div v.d)
  IN  IF v.ok /\ t \in MinI64 .. MaxI64 THEN {t} ELSE {MinI64, MaxI64}

\* The types of the language are checked one by one, named types by their kind: there the check
\* of the high bit is only made for uint64.
convertInteger(v, lo, hi) ==
  CASE v.kind = "bool"   -> {Num("int", v.n, 1)}
    [] v.kind = "int"    -> InRange(v.n, lo, hi)
    [] v.kind \in {"uint", "uint64"} /\ ~(v.named /\ v.kind = "uint") ->
         IF v.n > MaxI64 THEN {Refused} ELSE InRange(v.n, lo, hi)
    [] v.kind = "uint" /\ v.named -> InRange(Wrap64(v.n), lo, hi)
    [] v.kind = "float"  ->
         UNION {IF v.ok /\ v.n = FloatOf(i, DoubleBits) * v.d THEN InRange(i, lo, hi) ELSE {Refused} : i \in Int64Of(v)}
    [] v.kind = "string" ->
         IF v.parse = "number" /\ v.d = 1 /\ v.n \in MinI64 .. MaxI64 THEN InRange(v.n, lo, hi)
         ELSE {Refused}
    [] OTHER             -> {Refused}

\* float64(v) of an integer and ParseFloat round.  math.Abs(f64) > maxF64: false for NaN.
convertFloat(v, max) ==
  CASE v.kind = "bool"   -> {Num("float", v.n, 1)}
    [] v.kind \in Numbers \/ (v.kind = "string" /\ v.parse = "number") ->
         LET f == FloatOf(v.n, DoubleBits)
         IN  IF (v.ok /\ Abs(f) > max * v.d) \/ (~v.ok /\ v.n # 0) THEN {Refused}
             ELSE {[Num("float", f, v.d) EXCEPT !.ok = v.ok]}
    [] OTHER             -> {Refused}

convertTime(v) == IF v.kind = "time" THEN {v} ELSE {Refused}

\* A big.Rat that is passed by value stays a value, and a nil *big.Rat the pointer it is; SetInt
\* of a nil *big.Int and Rat of a nil *big.Float dereference it.
convertDecimal(v) ==
  CASE v.kind \in {"rat", "ratvalue", "nilrat"} -> {v}
    [] v.kind = "nilbig"          -> {Panicked}
    [] v.kind \in Numbers \cup {"bool"} \/ (v.kind = "string" /\ v.parse = "number") ->
         IF v.ok THEN {Num("rat", v.n, v.d)} ELSE {Refused}
    [] OTHER                      -> {Refused}

convertBytes(v) == IF v.kind \in {"string", "bytes"} THEN {v} ELSE {Refused}

convertLob(v) ==
  IF v.kind \in {"string", "bytes", "reader"} THEN {[v EXCEPT !.kind = "lobInDescr"]} ELSE {Refused}

IntTcs  == {"tinyint", "smallint", "integer", "bigint"}
FloatTcs == {"real", "double"}
TimeTcs == {"date", "time", "timestamp", "longdate", "seconddate", "daydate", "secondtime"}
FixedTcs == {"fixed8", "fixed12", "fixed16"}
VarTcs  == {"varchar", "alphanum"}

IntBitsOf(tc) == CASE tc = "tinyint" -> TinyBits [] tc = "smallint" -> SmallBits
                   [] tc = "integer" -> IntBits  [] tc = "bigint" -> BigBits
MinOf(tc) == IF tc = "tinyint" THEN 0 ELSE -2^(IntBitsOf(tc) - 1)
MaxOf(tc) == IF tc = "tinyint" THEN 2^TinyBits - 1 ELSE 2^(IntBitsOf(tc) - 1) - 1

ConvertTo(tc, v) ==
  CASE tc = "boolean"      -> convertBool(v)
    [] tc \in IntTcs       -> convertInteger(v, MinOf(tc), MaxOf(tc))
    [] tc = "real"         -> convertFloat(v, MaxReal)
    [] tc = "double"       -> convertFloat(v, MaxDouble)
    [] tc \in TimeTcs      -> convertTime(v)
    [] tc \in FixedTcs \cup {"decimal"} -> convertDecimal(v)
    [] tc \in VarTcs \cup {"nvarchar", "stpoint"} -> convertBytes(v)
    [] tc = "nclob"        -> convertLob(v)

DecimalTcs == FixedTcs \cup {"decimal"}

\* A pointer stands for what it points to, or for NULL.  The pointers to the numbers of math/big
\* are cases of their own in convertDecimal, before it looks at nil.
convertField(tc, v) ==
  CASE v.kind \in {"nil", "nilptr"} -> {Nil}
    [] v.kind \in {"nilrat", "nilbig"} /\ tc \notin DecimalTcs -> {Nil}
    [] v.kind = "ptr"               -> ConvertTo(tc, v.to)
    [] OTHER                        -> ConvertTo(tc, v)

-----------------------------------------------------------------------------
(* julian.go, datetime.go.                                                 *)

gregorianDay == 2299161
julianHdb == 1721423

\* t.Before(gregorianDate), 1582-10-15.
BeforeGregorian(t) ==
  \/ t.y < 1582
  \/ t.y = 1582 /\ (t.mo < 10 \/ (t.mo = 10 /\ t.d < 15))

TimeToDay(t) ==
  LET a == (14 - t.mo) \div 12
      y == t.y + 4800 - a
      m == t.mo + 12 * a - 3
      c == t.d + (153 * m + 2) \div 5 + 365 * y + y \div 4
  IN  IF BeforeGregorian(t) THEN c - 32083 ELSE c - y \div 100 + y \div 400 - 32045


DayToTime(jd) ==
  LET f == IF jd < gregorianDay THEN jd + 1401
           ELSE jd + 1401 + (((4 * jd + 274277) \div 146097) * 3) \div 4 - 38
      e == 4 * f + 3
      h == 5 * ((e % 1461) \div 4) + 2
      month == ((h \div 153 + 2) % 12) + 1
  IN  [y |-> e \div 1461 - 4716 + (14 - month) \div 12, mo |-> month, d |-> ((h % 153) \div 5) + 1]

Time(date, h, mi, s, ns) ==
  [kind |-> "time", y |-> date.y, mo |-> date.mo, d |-> date.d, h |-> h, mi |-> mi, s |-> s, ns |-> ns]

SecsPerDay == Hours * Minutes * Seconds

convertTimeToDayDate(t) == TimeToDay(t) - julianHdb
convertDaydateToTime(daydate) == DayToTime(daydate + julianHdb)

SecondOfDay(t) == (t.h * Minutes + t.mi) * Seconds + t.s
AtSecond(date, sec, ns) ==
  Time(date, sec \div (Minutes * Seconds), (sec \div Seconds) % Minutes, sec % Seconds, ns)

convertTimeToLongdate(t) ==
  ((convertTimeToDayDate(t) - 1) * SecsPerDay + SecondOfDay(t)) * Ticks + t.ns \div TickNs + 1
convertLongdateToTime(longdate) ==
  LET l == longdate - 1
      d == l % (Ticks * SecsPerDay)
  IN  AtSecond(convertDaydateToTime(l \div (Ticks * SecsPerDay) + 1), d \div Ticks, (d % Ticks) * TickNs)

convertTimeToSeconddate(t) == (convertTimeToDayDate(t) - 1) * SecsPerDay + SecondOfDay(t) + 1
convertSeconddateToTime(seconddate) ==
  LET l == seconddate - 1
  IN  AtSecond(convertDaydateToTime(l \div SecsPerDay + 1), l % SecsPerDay, 0)

convertTimeToSecondtime(t) == SecondOfDay(t) + 1
convertSecondtimeToTime(secondtime) == AtSecond([y |-> 1, mo |-> 1, d |-> 1], secondtime - 1, 0)

\* The null values: the day after 9999-12-31, and two seconds after the day.
daydateNullValue == 3652062
longdateNullValue == (daydateNullValue - 1) * SecsPerDay * Ticks + 1
seconddateNullValue == (daydateNullValue - 1) * SecsPerDay + 1
secondtimeNullValue == SecsPerDay + 2

-----------------------------------------------------------------------------
(* decimal.go.                                                             *)

\* big.Int.QuoRem truncates.
Quo(a, b) == IF a < 0 THEN -((-a) \div b) ELSE a \div b

\* The loop starts with int(k / log2(10)), at least 1; a negative number ends it at once.
digits10(p) ==
  LET k == (BitLen(p) * 1000) \div 3322
      start == IF k < 1 THEN 1 ELSE k
  IN  CHOOSE i \in start .. 10 : p < 10^i /\ \A j \in start .. (i - 1) : p >= 10^j

\* Normalization: trailing zeros go to the exponent.
RECURSIVE Norm(_, _, _)
Norm(m, exp, maxExp) ==
  IF exp < maxExp /\ m % 10 = 0 THEN Norm(Quo(m, 10), exp + 1, maxExp) ELSE [m |-> m, exp |-> exp]

\* m.Add(m, natOne), and what happens when that takes a digit more.
RoundUp(m, exp, digits, maxExp) ==
  LET shift == IF digits < maxExp - exp THEN digits ELSE maxExp - exp
      s == IF shift < 1 THEN 1 ELSE shift
  IN  IF m + 1 = 10^digits THEN [m |-> 10^(digits - s), exp |-> exp + s, over |-> shift < 1]
      ELSE [m |-> m + 1, exp |-> exp, over |-> FALSE]

\* x as a/b * 10^shift, and the exponent of its first digit.
Scaled(x, shift) ==
  LET a == IF shift < 0 THEN x.n * 10^(-shift) ELSE x.n
      b == IF shift > 0 THEN x.d * 10^shift ELSE x.d
  IN  [a |-> a, b |-> b, shift |-> shift,
       exp |-> IF x.d = 1 THEN digits10(x.n) - 1 ELSE IF a < b THEN shift - 1 ELSE shift]

\* round (business >= 0.5 up).
Rounded(a, b, exp, digits, maxExp) ==
  LET m == Quo(a, b)
      rest == a - m * b
  IN  IF rest # 0 /\ 2 * rest >= b THEN RoundUp(m, exp, digits, maxExp)
      ELSE [m |-> m, exp |-> exp, over |-> FALSE]

\* The mantissa of s when exp is the exponent of its last digit.
Mantissa(s, exp, digits, maxExp) ==
  LET shift == exp - s.shift
  IN  Rounded(IF shift < 0 THEN s.a * 10^(-shift) ELSE s.a,
              IF shift >= 0 /\ exp > 0 THEN s.b * 10^shift ELSE s.b, exp, digits, maxExp)

\* The exponent of the last digit, from the one of the first digit.
LastExp(exp, digits, minExp) ==
  IF exp < minExp \/ exp - digits + 1 >= minExp THEN exp - digits + 1 ELSE minExp

Normalized(r, maxExp, overflow, underflow) ==
  LET z == Norm(r.m, r.exp, maxExp)
  IN  [m |-> z.m, exp |-> z.exp, overflow |-> overflow \/ r.over, underflow |-> underflow]

convertRatToDecimal(x, digits, minExp, maxExp) ==
  IF x.n = 0 THEN [m |-> 0, exp |-> 0, overflow |-> FALSE, underflow |-> FALSE]
  ELSE LET s == Scaled(x, IF x.d = 1 THEN 0 ELSE digits10(x.n) - digits10(x.d))
           exp == LastExp(s.exp, digits, minExp)
       IN  Normalized(Mantissa(s, exp, digits, maxExp), maxExp, exp > maxExp, s.exp < minExp)

convertDecimalToRat(m, exp) ==
  IF exp < 0 THEN Num("rat", m, 10^(-exp)) ELSE Num("rat", m * 10^exp, 1)

convertRatToFixed(x, prec, scale) ==
  LET a == x.n * 10^scale
      m == Quo(a, x.d)
      r == IF 2 * (a - m * x.d) >= x.d THEN m + 1 ELSE m
  IN  [m |-> r, overflow |-> r <= -(10^prec) \/ r >= 10^prec]

convertFixedToRat(m, scale) == Num("rat", m, 10^scale)

-----------------------------------------------------------------------------
(* Fields (encode.go, decode.go, field.go).                                *)

varSize(n) ==
  CASE n <= LenSmall  -> n + 1
    [] n > LenSmall /\ n <= LenMedium -> n + 3
    [] n > LenMedium /\ n <= LenBig   -> n + 5
    [] OTHER          -> -1

\* A text has length len in UTF-8, and supp characters of 4 bytes that take 6 in CESU-8.
Cesu8Size(v) == v.len + 2 * v.supp
VarFieldSize(v) == varSize(v.len)
Cesu8FieldSize(v) == varSize(Cesu8Size(v))
\* Mutant: a byte for every digit.
HexFieldSize_Digits(v) == varSize(v.len)
HexFieldSize(v) == varSize(v.len \div 2)       \* panics if the length is odd

Written(n, pay) == [kind |-> "bytes", size |-> n, pay |-> pay]

\* The length indicator and the bytes it announces; n bytes follow.
varFieldInd(n, data) ==
  CASE n <= LenSmall  -> Written(1 + n, [ind |-> "small", num |-> n, data |-> data])
    [] n > LenSmall /\ n <= LenMedium -> Written(3 + n, [ind |-> "medium", num |-> n, data |-> data])
    [] n > LenMedium /\ n <= LenBig   -> Written(5 + n, [ind |-> "big", num |-> n, data |-> data])
    [] OTHER          -> Refused

LIBytes(v) == varFieldInd(v.len, [len |-> v.len, supp |-> v.supp, hex |-> v.hex])
\* The supplementary characters are written as surrogate pairs.
CESU8LIBytes(v) == varFieldInd(Cesu8Size(v), [len |-> Cesu8Size(v), supp |-> v.supp, hex |-> v.hex])
HexField(v) ==
  IF v.hex = "no" THEN Refused
  ELSE varFieldInd(v.len \div 2, [len |-> v.len \div 2, supp |-> 0, hex |-> v.hex])

\* A decimal: the mantissa, its overflow into the exponent, the sign.
Decimal(m, exp) ==
  Written(16, [neg |-> m < 0, mant |-> Abs(m) % 2^MantBits,
               exp |-> ((exp + Bias) | (Abs(m) \div 2^MantBits)) % 2^ExpBits])

DecimalField(v) ==
  LET c == convertRatToDecimal(v, Digits, -Bias, 3 * 2^(ExpBits - 2) - 1 - Bias)
  IN  IF c.overflow THEN Refused
      ELSE IF c.underflow THEN Decimal(0, 0) ELSE Decimal(c.m, c.exp)

\* The bytes of a number, least significant first.
ByteOf(n, j) == (n \div 2^(ByteBits * (j - 1))) % 2^ByteBits
WordBits == ByteBits * WordBytes
NumWords(n) == CHOOSE k \in 0 .. 5 : n < 2^(WordBits * k) /\ (k = 0 \/ n >= 2^(WordBits * (k - 1)))

\* Fixed: the words of a negative number are inverted, then 1 is added; bytes beyond the words
\* are filled.
Fixed(m, bytes) ==
  LET inv == 2^(WordBits * NumWords(-m)) - 1 - (-m) + 1
      w   == IF m < 0 THEN inv ELSE m
      fill == IF m < 0 THEN 2^ByteBits - 1 ELSE 0
  IN  Written(bytes, [j \in 1 .. bytes |-> IF j <= WordBytes * NumWords(w) THEN ByteOf(w, j) ELSE fill])

encodeFixed(v, bytes, prec, scale) ==
  LET c == convertRatToFixed(v, prec, scale)
  IN  IF c.overflow THEN Refused ELSE Fixed(c.m, bytes)

\* The bytes of a negative number are inverted, then 1 is added.
DecodedFixed(b) ==
  LET neg == b[Len(b)] >= 2^(ByteBits - 1)
      byte(j) == IF neg THEN 2^ByteBits - 1 - b[j] ELSE b[j]
      num[j \in 0 .. Len(b)] == IF j = 0 THEN 0 ELSE num[j - 1] + byte(j) * 2^(ByteBits * (j - 1))
  IN  IF neg THEN -(num[Len(b)] + 1) ELSE num[Len(b)]

FixedSizeOf(tc) == CASE tc = "fixed8" -> Fixed8Size [] tc = "fixed12" -> Fixed12Size
                     [] tc = "fixed16" -> Fixed16Size

\* The most significant bit of year and hour is set; months are counted from 0.
YearBit == 32768
HourBit == 128
encodeDate(t) == <<YearBit + t.y, t.mo - 1, t.d>>
encodeTime(t) == <<HourBit + t.h, t.mi, t.s * Ticks + t.ns \div TickNs>>

\* "store in utc": the zone is some hours ahead of UTC.
asTime(v) == [v EXCEPT !.h = @ - v.zone]

TimeField(tc, v) ==
  LET t == asTime(v)
  IN  CASE tc = "date"       -> Written(4, encodeDate(t))
        [] tc = "time"       -> Written(4, encodeTime(t))
        [] tc = "timestamp"  -> Written(8, encodeDate(t) \o encodeTime(t))
        [] tc = "longdate"   -> Written(8, convertTimeToLongdate(t))
        [] tc = "seconddate" -> Written(8, convertTimeToSeconddate(t))
        [] tc = "daydate"    -> Written(4, convertTimeToDayDate(t))
        [] tc = "secondtime" -> Written(4, convertTimeToSecondtime(t))

\* booleanFalseValue, booleanNullValue, booleanTrueValue.
BooleanField(v) == Written(1, CASE v.kind = "nil" -> 1 [] v.kind # "nil" /\ v.n = 1 -> 2 [] OTHER -> 0)

\* asInt: E(i64).
IntField(tc, v) == Written(IntBitsOf(tc), v.n % 2^IntBitsOf(tc))
DecodedInt(tc, u) == IF tc # "tinyint" /\ u >= 2^(IntBitsOf(tc) - 1) THEN u - 2^IntBitsOf(tc) ELSE u

-----------------------------------------------------------------------------
(* parameter.go: prmSize and encodePrm.  The unit of integers is the bit, as their widths are *)
(* constants; that of the other fields is the byte.                                            *)

supportNullValue(tc) == tc # "boolean"

prmSize(f, v) ==
  IF v = Nil /\ supportNullValue(f.tc) THEN 0
  ELSE CASE f.tc = "boolean"     -> 1
         [] f.tc \in IntTcs      -> IntBitsOf(f.tc)
         [] f.tc \in {"real", "date", "time", "daydate", "secondtime"} -> 4
         [] f.tc \in {"double", "timestamp", "longdate", "seconddate"} -> 8
         [] f.tc = "decimal"     -> 16
         [] f.tc \in FixedTcs    -> FixedSizeOf(f.tc)
         [] f.tc \in VarTcs      -> VarFieldSize(v)
         [] f.tc = "nvarchar"    -> Cesu8FieldSize(v)
         [] f.tc = "stpoint"     -> HexFieldSize(v)
         [] f.tc = "nclob"       -> 9

\* The type code with its high bit set (0xb0 for secondtime) announces NULL.
encodePrm(f, v) ==
  IF v = Nil /\ supportNullValue(f.tc) THEN [Written(0, 0) EXCEPT !.kind = "null"]
  ELSE CASE f.tc = "boolean"     -> BooleanField(v)
         [] f.tc \in IntTcs      -> IntField(f.tc, v)
         [] f.tc = "real"        -> Written(4, [f |-> [n |-> FloatOf(v.n, RealBits), d |-> v.d], ok |-> v.ok])
         [] f.tc = "double"      -> Written(8, [f |-> [n |-> v.n, d |-> v.d], ok |-> v.ok])
         [] f.tc \in TimeTcs     -> TimeField(f.tc, v)
         [] f.tc = "decimal"     -> DecimalField(v)
         [] f.tc \in FixedTcs    -> encodeFixed(v, FixedSizeOf(f.tc), f.prec, f.scale)
         [] f.tc \in VarTcs      -> LIBytes(v)
         [] f.tc = "nvarchar"    -> CESU8LIBytes(v)
         [] f.tc = "stpoint"     -> HexField(v)
         [] f.tc = "nclob"       -> Written(9, [data |-> v])

\* big.Rat instead of *big.Rat, or a nil one; an odd number of hexadecimal digits.
Panics(f, v) ==
  \/ f.tc \in DecimalTcs /\ v.kind \in {"ratvalue", "nilrat"}
  \/ f.tc = "stpoint" /\ v.kind # "nil" /\ v.len % 2 = 1

-----------------------------------------------------------------------------
(* The database (external): it keeps the value, and returns it in the format of results.  *)

NullPay(tc) ==
  CASE tc = "boolean"    -> 1
    [] tc \in IntTcs \cup FixedTcs -> [notNull |-> FALSE]
    [] tc \in FloatTcs   -> [ones |-> TRUE]
    [] tc \in {"date", "time", "timestamp"} -> <<0, 0, 0, 0, 0, 0>>
    [] tc = "longdate"   -> longdateNullValue
    [] tc = "seconddate" -> seconddateNullValue
    [] tc = "daydate"    -> daydateNullValue
    [] tc = "secondtime" -> secondtimeNullValue
    [] tc = "decimal"    -> [neg |-> FALSE, mant |-> 0, exp |-> 2^ExpBits - 1]
    [] OTHER             -> [ind |-> "null", num |-> 0]

Stored(f, w) ==
  CASE w.kind = "null" -> NullPay(f.tc)
    [] w.kind # "null" /\ f.tc \in IntTcs \cup FixedTcs -> [notNull |-> TRUE, pay |-> w.pay]
    [] w.kind # "null" /\ f.tc \in FloatTcs -> [ones |-> FALSE, pay |-> w.pay]
    [] w.kind # "null" /\ f.tc = "alphanum" -> [w.pay EXCEPT !.num = @ + 1, !.data.len = @ + 1]
    [] OTHER -> w.pay

-----------------------------------------------------------------------------
(* decode.go.                                                              *)

\* decodeDate, decodeTime: NULL if the most significant bit is not set.
DecodedDate(p) == [y |-> p[1] % 16384, mo |-> p[2] + 1, d |-> p[3]]
DecodedTime(date, p) ==
  Time(date, p[1] % HourBit, p[2], p[3] \div Ticks, (p[3] % Ticks) * TickNs)
NullDate(p) == p[1] < YearBit
NullTime(p) == p[1] < HourBit
FirstDay == [y |-> 1, mo |-> 1, d |-> 1]

DecodedTimeField(tc, p) ==
  CASE tc = "date"       -> IF NullDate(p) THEN Nil ELSE Time(DecodedDate(p), 0, 0, 0, 0)
    [] tc = "time"       -> IF NullTime(p) THEN Nil ELSE DecodedTime(FirstDay, p)
    [] tc = "timestamp"  ->
         LET q == SubSeq(p, 4, 6)
         IN  IF NullDate(p) \/ NullTime(q) THEN Nil ELSE DecodedTime(DecodedDate(p), q)
    [] tc = "longdate"   -> IF p = longdateNullValue THEN Nil ELSE convertLongdateToTime(p)
    [] tc = "seconddate" -> IF p = seconddateNullValue THEN Nil ELSE convertSeconddateToTime(p)
    [] tc = "daydate"    ->
         IF p = daydateNullValue THEN Nil
         ELSE AtSecond(convertDaydateToTime(p), 0, 0)
    [] tc = "secondtime" -> IF p = secondtimeNullValue THEN Nil ELSE convertSecondtimeToTime(p)

\* Decimal: all three upper bits of the exponent for NULL, two for what is not supported.
DecodedDecimal(p) ==
  LET top == p.exp \div 2^(ExpBits - 3)
  IN  IF top = 7 THEN Nil ELSE IF top = 6 THEN Refused
      ELSE convertDecimalToRat(IF p.neg THEN -p.mant ELSE p.mant, p.exp - Bias)

DecodedFixedField(p, scale) == IF ~p.notNull THEN Nil ELSE convertFixedToRat(DecodedFixed(p.pay), scale)

DecodedBoolean(p) == IF p = 1 THEN Nil ELSE Num("bool", IF p = 0 THEN 0 ELSE 1, 1)
DecodedFloat(p) == IF p.ones THEN Nil ELSE [Num("float", p.pay.f.n, p.pay.f.d) EXCEPT !.ok = p.pay.ok]

\* varFieldInd, LIBytes: as many bytes as announced.
DecodedBytes(p) == [kind |-> "bytes", len |-> p.num, supp |-> p.data.supp, hex |-> p.data.hex]
NullVar(p) == p.ind = "null"

VarField(p) == IF NullVar(p) THEN Nil ELSE DecodedBytes(p)
\* The first byte is not part of the text.
AlphanumField(p) == IF NullVar(p) THEN Nil ELSE [DecodedBytes(p) EXCEPT !.len = @ - 1]
Cesu8Field(p) == IF NullVar(p) THEN Nil ELSE [DecodedBytes(p) EXCEPT !.len = @ - 2 * p.data.supp]
DecodedHex(p) == IF NullVar(p) THEN Nil ELSE [DecodedBytes(p) EXCEPT !.len = 2 * @, !.hex = "lower"]

decodeResult(f, p) ==
  CASE f.tc = "boolean"   -> DecodedBoolean(p)
    [] f.tc \in IntTcs    -> IF ~p.notNull THEN Nil ELSE Num("int", DecodedInt(f.tc, p.pay), 1)
    [] f.tc \in FloatTcs  -> DecodedFloat(p)
    [] f.tc \in TimeTcs   -> DecodedTimeField(f.tc, p)
    [] f.tc = "decimal"   -> DecodedDecimal(p)
    [] f.tc \in FixedTcs  -> DecodedFixedField(p, f.scale)
    [] f.tc = "varchar"   -> VarField(p)
    [] f.tc = "alphanum"  -> AlphanumField(p)
    [] f.tc = "nvarchar"  -> Cesu8Field(p)
    [] f.tc = "stpoint"   -> DecodedHex(p)

-----------------------------------------------------------------------------
None == [kind |-> "none"]

ValuesOff ==
  /\ field = [tc |-> "boolean", prec |-> 0, scale |-> 0] /\ gov = Nil /\ conv = None /\ size = 0
  /\ written = None /\ back = None /\ out = None /\ phase = "off"

ValuesInit ==
  /\ field \in ParamFields /\ gov \in GoValues[field.tc]
  /\ conv = None /\ size = 0 /\ written = None /\ back = None /\ out = None /\ phase = "bind"

\* ParameterField.Convert.
ConvertArg ==
  /\ phase = "bind"
  /\ conv' \in convertField(field.tc, gov)
  /\ phase' = CASE conv' = Refused -> "refused" [] conv' = Panicked -> "panic" [] OTHER -> "bound"
  /\ UNCHANGED <<field, gov, size, written, back, out>>

\* The value as InputParameters.size and encode treat it.
Encode ==
  /\ phase = "bound"
  /\ IF Panics(field, conv)
     THEN phase' = "panic" /\ UNCHANGED <<size, written>>
     ELSE /\ size' = prmSize(field, conv)
          /\ written' = encodePrm(field, conv)
          /\ phase' = IF written' = Refused THEN "refused" ELSE IF field.tc = "nclob" THEN "lob" ELSE "written"
  /\ UNCHANGED <<field, gov, conv, back, out>>

Store ==
  /\ phase = "written"
  /\ back' = Stored(field, written)
  /\ phase' = "stored"
  /\ UNCHANGED <<field, gov, conv, size, written, out>>

Decode ==
  /\ phase = "stored"
  /\ out' = decodeResult(field, back)
  /\ phase' = "done"
  /\ UNCHANGED <<field, gov, conv, size, written, back>>

ValuesNext == ConvertArg \/ Encode \/ Store \/ Decode
-----------------------------------------------------------------------------
(* Reference definitions.                                                  *)

Pointee == IF gov.kind = "ptr" THEN gov.to ELSE gov

\* Two numbers the conversion takes for another one: the high bit of a named uint, and the float
\* next to the largest integer on platforms where the conversion saturates, although it "should
\* work for overflow" (convert.go:199).
Misread(v) ==
  \/ v.kind = "uint" /\ v.named /\ v.n > MaxI64
  \/ v.kind = "float" /\ v.n = (MaxI64 + 1) * v.d

\* Values convertDecimal accepts or does not expect, and then panics on: "should never happen"
\* (encode.go:442, 460).
Unexpected(f, v) == f.tc \in DecimalTcs /\ v.kind \in {"ratvalue", "nilrat", "nilbig"}

Dist(x, y) == Abs(x.n * y.d - y.n * x.d)     \* of the difference, the numerator

\* The numbers a mantissa of so many bits can represent.
Floats(bits) == UNION {{m * 2^k : m \in -(2^bits) .. 2^bits} : k \in 0 .. 8 - bits}
\* No float lies between o and x, and x itself is no other float.
Neighbour(o, x, bits) ==
  /\ o.d = x.d /\ o.n \in Floats(bits)
  /\ \A m \in Floats(bits) : ~(o.n < m /\ m <= x.n) /\ ~(x.n <= m /\ m < o.n)
Nearest(o, x, bits) ==
  /\ Neighbour(o, x, bits)
  /\ \A m \in Floats(bits) : Abs(o.n - x.n) <= Abs(m - x.n)
MinExp == -Bias
\* 10^e is the value of the last digit of x.
LastDigit(x) ==
  LET Fits(e) == IF e < 0 THEN Abs(x.n) * 10^(-e) < 10^Digits * x.d ELSE Abs(x.n) < 10^(e + Digits) * x.d
  IN  CHOOSE e \in MinExp .. 9 : Fits(e) /\ (e = MinExp \/ ~Fits(e - 1))
HalfUnit(x, y, e) ==
  IF e < 0 THEN 2 * Dist(x, y) * 10^(-e) <= x.d * y.d ELSE 2 * Dist(x, y) <= 10^e * x.d * y.d
Exact(x) == LET e == LastDigit(x) IN IF e < 0 THEN (x.n * 10^(-e)) % x.d = 0 ELSE x.n % (10^e * x.d) = 0

\* What a type keeps of a time.
Kept(tc, t) ==
  LET date == IF tc \in {"time", "secondtime"} THEN FirstDay ELSE [y |-> t.y, mo |-> t.mo, d |-> t.d]
      ns == t.ns - (t.ns % TickNs)
  IN  CASE tc \in {"date", "daydate"} -> Time(date, 0, 0, 0, 0)
        [] tc \in {"seconddate", "secondtime"} -> Time(date, t.h - t.zone, t.mi, t.s, 0)
        [] OTHER -> Time(date, t.h - t.zone, t.mi, t.s, ns)

\* Ten days do not exist in the calendar of the database.
Skipped(t) == t.y = 1582 /\ t.mo = 10 /\ t.d \in 5 .. 14

Same(f, v, o) ==
  IF v.kind \in {"nil", "nilptr", "nilrat", "nilbig"} THEN o = Nil
  ELSE CASE f.tc = "boolean"    -> o.n = (IF v.ok /\ v.n = 0 THEN 0 ELSE 1)
         [] f.tc \in IntTcs     -> o.n * v.d = v.n
         [] f.tc = "double"     -> o.ok = v.ok /\ (v.ok => Nearest(o, v, DoubleBits))
         [] f.tc = "real"       -> o.ok = v.ok /\ (v.ok => Neighbour(o, v, RealBits))
         [] f.tc \in TimeTcs    -> Skipped(v) \/ o = Kept(f.tc, v)
         [] f.tc = "decimal"    ->
              /\ Exact(v) => Dist(o, v) = 0
              /\ v.n >= 0 => HalfUnit(o, v, LastDigit(v))
         [] f.tc \in FixedTcs   ->
              IF v.n >= 0 THEN HalfUnit(o, v, -f.scale) ELSE Dist(o, v) * 10^f.scale < v.d * o.d
         [] OTHER               -> o.len = v.len /\ o.supp = v.supp

\* What can be stored in the field.
Storable(f, v) ==
  CASE v.kind \in {"nil", "nilptr", "nilrat", "nilbig"} -> TRUE
    [] v.kind \in {"int", "uint", "uint64"} ->
         CASE f.tc \in IntTcs   -> v.n \in MinOf(f.tc) .. MaxOf(f.tc)
           [] f.tc = "real"     -> Abs(v.n) <= MaxReal
           [] f.tc = "decimal"  -> Abs(v.n) < 10^Digits
           [] f.tc \in FixedTcs -> Abs(v.n) * 10^f.scale < 10^f.prec
           [] OTHER             -> f.tc \in {"boolean", "double"}
    [] v.kind = "time"   -> f.tc \in TimeTcs
    [] v.kind \in {"rat", "ratvalue"} ->
         \/ f.tc = "decimal" /\ Abs(v.n) < 10^Digits * v.d
         \/ f.tc \in FixedTcs /\ (Abs(v.n) + v.d) * 10^f.scale < 10^f.prec * v.d
    [] v.kind = "string" /\ v.parse = "text" ->
         \/ f.tc \in VarTcs /\ v.len <= LenBig
         \/ f.tc = "nvarchar" /\ Cesu8Size(v) <= LenBig
         \/ f.tc = "stpoint" /\ v.hex # "no" /\ v.len % 2 = 0
    [] OTHER -> FALSE
-----------------------------------------------------------------------------

\* What fits the field is not refused by the conversion or the encoding and does not panic, except
\* the values of math/big that convertDecimal does not expect.
FittingAccepted ==
  phase \in {"refused", "panic"} => ~Storable(field, Pointee) \/ Unexpected(field, Pointee)

\* prmSize announces as many bytes as encodePrm writes: the part and the message have the length
\* their headers say.
SizeExact == phase \in {"written", "lob"} => written.size = size

\* "round (business >= 0.5 up)" (decimal.go:135): a decimal that is stored is the value rounded to the
\* digits of the type, whatever its sign.  digits10 compares a negative number with powers of ten and
\* stops at its first estimate, so a negative mantissa may have a digit too many, whose bits are
\* or-ed into the exponent.
DecimalRounded == phase = "done" /\ field.tc = "decimal" => HalfUnit(out, Pointee, LastDigit(Pointee))
=============================================================================
