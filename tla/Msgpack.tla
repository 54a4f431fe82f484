------------------------------ MODULE Msgpack ------------------------------
(***************************************************************************)
(* msgpack5: values to bytes and bytes, in a list of buffers, to values.   *)
(*                                                                         *)
(* A value is a record with its type in t.  An integer is a sign and the   *)
(* bytes of its magnitude, highest first and none of them a leading zero,  *)
(* so that 64 bits need no arithmetic.  A float is opaque: near says that  *)
(* four bytes hold it within TOLERANCE.  A map is the sequence of its      *)
(* pairs.  Strings are code units.                                         *)
(***************************************************************************)
EXTENDS BufferList

CONSTANTS ExtTypes,          \* the types registered with register()
          Compatible,        \* options.compatibilityMode
          Float64            \* options.forceFloat64

ASSUME MsgpackAssumption ==
    ExtTypes \subseteq 0 .. 127 /\ Compatible \in BOOLEAN /\ Float64 \in BOOLEAN

Nil == [t |-> "nil"]
Bool(x) == [t |-> "bool", v |-> x]
Integer(neg, mag) == [t |-> "int", neg |-> neg, mag |-> mag]
Float(id, near) == [t |-> "float", id |-> id, near |-> near]
Str(units) == [t |-> "str", v |-> units]
Bin(bytes) == [t |-> "bin", v |-> bytes]
Arr(values) == [t |-> "array", v |-> values]
Dictionary(pairs) == [t |-> "map", v |-> pairs]
Date(sec, ms) == [t |-> "date", sec |-> sec, ms |-> ms]
Ext(type, data) == [t |-> "ext", type |-> type, v |-> data]

(***************************************************************************)
(* Magnitudes.                                                             *)
(***************************************************************************)
Stripped(bytes) ==
    LET significant == {i \in 1 .. Len(bytes) : bytes[i] # 0}
    IN IF significant = {} THEN << >> ELSE SubSeq(bytes, Least(significant), Len(bytes))

Padded(mag, n) == Repeat(0, n - Len(mag)) \o mag

AtMost(x, y) ==
    Len(x) < Len(y) \/ (Len(x) = Len(y) /\ Compare(x, y) # 1)

\* -n in two's complement of as many bytes: each byte complemented, with the
\* carry of the ones below, lowest byte first.
Negated(bytes) ==
    FoldRight(LAMBDA byte, s :
                LET v == (255 - byte) + s.carry
                IN [bytes |-> <<v % 256>> \o s.bytes, carry |-> v \div 256],
              bytes, [bytes |-> << >>, carry |-> 1]).bytes

MaxSafe == <<31, 255, 255, 255, 255, 255, 255>>      \* 9007199254740991

\* A length in n bytes.
LengthBytes(len, n) ==
    [i \in 1 .. n |->
        CASE i = n -> len % 256
          [] i = n - 1 -> (len \div 256) % 256
          [] i = n - 2 -> (len \div 65536) % 256
          [] OTHER -> len \div 16777216]

BytesLength(b) == FoldLeft(LAMBDA n, byte : n * 256 + byte, 0, b)

(***************************************************************************)
(* Encoding.                                                               *)
(***************************************************************************)
EncodeString(units) ==
    LET bytes == utf8ToBytes(units)
        len == Len(bytes)
    IN (IF len < 32 THEN <<160 + len>>
        ELSE IF len <= 255 /\ ~ Compatible THEN <<217, len>>
        ELSE IF len <= 65535 THEN <<218>> \o LengthBytes(len, 2)
        ELSE <<219>> \o LengthBytes(len, 4)) \o bytes

EncodeBuffer(bytes) ==
    LET len == Len(bytes)
    IN (IF len <= 255 THEN <<196, len>>
        ELSE IF len <= 65535 THEN <<197>> \o LengthBytes(len, 2)
        ELSE <<198>> \o LengthBytes(len, 4)) \o bytes

ArrayHeader(len) ==
    IF len < 16 THEN <<144 + len>>
    ELSE IF len < 65536 THEN <<220>> \o LengthBytes(len, 2)
    ELSE <<221>> \o LengthBytes(len, 4)

\* The two bytes of the header wrap at 65536 keys.
MapHeader(len) == IF len < 16 THEN <<128 + len>> ELSE <<222>> \o LengthBytes(len, 2)

encodeFloat(f, wide) ==
    IF wide \/ ~ f.near THEN <<203>> \o Repeat(f.id, 8) ELSE <<202>> \o Repeat(f.id, 4)

write64BitInt(v) == IF v.neg THEN Negated(Padded(v.mag, 8)) ELSE Padded(v.mag, 8)

Doubled(v) == <<203, IF v.neg THEN 1 ELSE 0>> \o v.mag      \* encodeFloat(obj, true)

EncodePositive(v) ==
    LET mag == v.mag
    IN IF AtMost(mag, <<127>>) THEN IF mag = << >> THEN <<0>> ELSE mag
       ELSE IF Len(mag) = 1 THEN <<204>> \o mag
       ELSE IF Len(mag) = 2 THEN <<205>> \o mag
       ELSE IF Len(mag) <= 4 THEN <<206>> \o Padded(mag, 4)
       ELSE IF AtMost(mag, MaxSafe) THEN <<207>> \o Padded(mag, 8)
       ELSE Doubled(v)

\* The last bound of four bytes is obj > -214748365 in the code.
EncodeNegative(v) ==
    LET mag == v.mag
    IN IF AtMost(mag, <<32>>) THEN Negated(mag)
       ELSE IF AtMost(mag, <<128>>) THEN <<208>> \o Negated(mag)
       ELSE IF AtMost(mag, <<128, 0>>) THEN <<209>> \o Negated(Padded(mag, 2))
       ELSE IF AtMost(mag, <<12, 204, 204, 204>>) THEN <<210>> \o Negated(Padded(mag, 4))
       ELSE IF AtMost(mag, MaxSafe) THEN <<211>> \o write64BitInt(v)
       ELSE Doubled(v)

\* For seconds from 1970 on below 2^34: nanos * 4 + seconds / 2^32 and the
\* seconds' low 32 bits.
encodeDate(sec, ms) ==
    LET low == Padded(Stripped(SubSeq(Padded(sec, 5), 2, 5)), 4)
        upper == LengthBytes(ms * 4000000 + Padded(sec, 5)[1], 4)
    IN IF ms # 0 \/ Len(sec) > 4 THEN <<215, 255>> \o upper \o low
       ELSE <<214, 255>> \o low

\* register: the type goes before what the type's own encoder gives.
ExtHeader(len) ==
    CASE len = 1 -> <<212>> [] len = 2 -> <<213>> [] len = 4 -> <<214>>
      [] len = 8 -> <<215>> [] len = 16 -> <<216>>
      [] len \notin {1, 2, 4, 8, 16} /\ len < 256 -> <<199, len>>
      [] len >= 256 /\ len < 65536 -> <<200>> \o LengthBytes(len, 2)
      [] OTHER -> <<201>> \o LengthBytes(len, 4)

RECURSIVE encode(_)

encode(v) ==
    CASE v.t = "nil" -> <<192>>
      [] v.t = "bool" -> <<IF v.v THEN 195 ELSE 194>>
      [] v.t = "str" -> EncodeString(v.v)
      [] v.t = "bin" -> EncodeBuffer(v.v)
      [] v.t = "array" ->
            ArrayHeader(Len(v.v)) \o Concat([i \in 1 .. Len(v.v) |-> encode(v.v[i])])
      [] v.t = "date" -> encodeDate(v.sec, v.ms)
      [] v.t = "ext" -> ExtHeader(Len(v.v)) \o <<v.type>> \o v.v
      [] v.t = "map" ->
            MapHeader(Len(v.v))
            \o Concat([i \in 1 .. Len(v.v) |-> encode(v.v[i][1]) \o encode(v.v[i][2])])
      [] v.t = "float" -> encodeFloat(v, Float64)
      [] v.t = "int" -> IF v.neg THEN EncodeNegative(v) ELSE EncodePositive(v)

(***************************************************************************)
(* Decoding.  A result is "ok" with a value and its bytes, "short" where   *)
(* the code returns null, or "error" where it throws.  flips are the       *)
(* offsets at which readInt64BE has negated eight bytes in the list itself.*)
(***************************************************************************)
Ok(value, size) == [st |-> "ok", value |-> value, size |-> size, flips |-> {}]
Short == [st |-> "short", value |-> Nil, size |-> 0, flips |-> {}]
Failed == [st |-> "error", value |-> Nil, size |-> 0, flips |-> {}]

\* The bytes a first byte must come with, itself included.
getSize(first) ==
    CASE first \in {196, 204, 208, 217} -> 2
      [] first \in {197, 199, 205, 209, 212, 218, 222} -> 3
      [] first \in {200, 213} -> 4
      [] first \in {198, 202, 206, 210, 219} -> 5
      [] first \in {201, 214} -> 6
      [] first \in {203, 207, 211} -> 9
      [] first = 215 -> 10
      [] first = 216 -> 18
      [] OTHER -> -1

hasMinBufferSize(first, length) == getSize(first) = -1 \/ length >= getSize(first)

isValidDataSize(dataLength, bufLength, headerLength) == bufLength >= headerLength + dataLength

Read(bufs, offset, n) == slice(bufs, offset, offset + n)

Unsigned(bytes) == Integer(FALSE, Stripped(bytes))
SignedInt(bytes) ==
    IF bytes[1] >= 128 THEN Integer(TRUE, Stripped(Negated(bytes))) ELSE Unsigned(bytes)

\* The slice that readInt64BE negates is a view where the eight bytes lie in
\* one buffer: then the list keeps the magnitude.
readInt64BE(bufs, offset) ==
    LET bytes == Read(bufs, offset, 8)
    IN [Ok(SignedInt(bytes), 9) EXCEPT !.flips =
            IF bytes[1] >= 128 /\ IsView(bufs, offset, offset + 8)
            THEN {offset} ELSE {}]

\* Strings (Make is "text") and buffers: `header` bytes, then len bytes of data.
DecodeData(bufs, offset, len, header, Make) ==
    LET data == Read(bufs, offset + header, len)
    IN IF ~ isValidDataSize(len, Length(bufs) - offset, header) THEN Short
       ELSE Ok(IF Make = "text" THEN Str(utf8Slice(data, 0, len)) ELSE Bin(data), header + len)

\* upper / 4 nanoseconds, its two low bits above the lower 32 of the seconds.
decodeTimestamp(data, header) ==
    CASE Len(data) = 4 -> Ok(Date(Stripped(data), 0), 4 + header)
      [] Len(data) = 8 ->
            Ok(Date(Stripped(<<data[4] % 4>> \o SubSeq(data, 5, 8)),
                    (BytesLength(SubSeq(data, 1, 4)) \div 4) \div 1000000), 8 + header)
      [] OTHER -> Failed

decodeExt(bufs, offset, type, size, header) ==
    LET data == Read(bufs, offset + header, size)
    IN IF type = -1 THEN decodeTimestamp(data, header)
       ELSE IF type \in ExtTypes THEN Ok(Ext(type, data), header + size)
       ELSE Failed

\* The type of a fixext is signed, that of the others is not.
decodeFixExt(bufs, offset, size) ==
    LET type == Read(bufs, offset + 1, 1)[1]
    IN decodeExt(bufs, offset, IF type >= 128 THEN type - 256 ELSE type, size, 2)

DecodeSizedExt(bufs, offset, n) ==
    LET len == BytesLength(Read(bufs, offset + 1, n))
    IN IF ~ isValidDataSize(len, Length(bufs) - offset, 2 + n) THEN Short
       ELSE decodeExt(bufs, offset, Read(bufs, offset + 1 + n, 1)[1], len, 2 + n)

\* What the result's own property is set to: a key that came before is
\* replaced in its place.
WithPair(pairs, key, value) ==
    IF \E i \in 1 .. Len(pairs) : pairs[i][1] = key
    THEN [i \in 1 .. Len(pairs) |-> IF pairs[i][1] = key THEN <<key, value>> ELSE pairs[i]]
    ELSE Append(pairs, <<key, value>>)

RECURSIVE tryDecode(_, _)

\* n values one behind the other: what decodeArray and decodeMap loop over.
DecodeValues(bufs, offset, n) ==
    FoldLeft(LAMBDA s, i :
                IF s.st # "ok" THEN s
                ELSE LET r == tryDecode(bufs, offset + s.size)
                     IN [st |-> r.st, value |-> Append(s.value, r.value),
                         size |-> s.size + r.size, flips |-> s.flips \cup r.flips],
             [st |-> "ok", value |-> << >>, size |-> 0, flips |-> {}], Indices(0, n))

decodeArray(bufs, offset, length, header) ==
    LET r == DecodeValues(bufs, offset + header, length)
    IN [r EXCEPT !.value = Arr(@), !.size = @ + header]

DictionaryOf(values, length) ==
    LET set(pairs, i) == WithPair(pairs, values[2 * i + 1], values[2 * i + 2])
    IN Dictionary(FoldLeft(set, << >>, Indices(0, length)))

AsMap(r, length, header) ==
    [r EXCEPT !.value = IF r.st = "ok" THEN DictionaryOf(@, length) ELSE Nil,
              !.size = @ + header]

decodeMap(bufs, offset, length, header) ==
    AsMap(DecodeValues(bufs, offset + header, 2 * length), length, header)

DecodeScalar(bufs, offset, first) ==
    LET width == getSize(first) - 1
        data == Read(bufs, offset + 1, width)
    IN CASE first = 192 -> Ok(Nil, 1)
         [] first \in {194, 195} -> Ok(Bool(first = 195), 1)
         [] first \in 204 .. 207 -> Ok(Unsigned(data), width + 1)
         [] first \in 208 .. 210 -> Ok(SignedInt(data), width + 1)
         [] first = 211 -> readInt64BE(bufs, offset + 1)
         [] first \in {202, 203} -> Ok(Float(Last(data), first = 202), width + 1)
         [] first \in (196 .. 198) \cup (217 .. 219) ->
                DecodeData(bufs, offset, BytesLength(data), width + 1,
                           IF first >= 217 THEN "text" ELSE "bytes")

\* Five types of 1 to 16 bytes of data, three with 1 to 4 bytes that give the size.
DecodeExts(bufs, offset, first) ==
    IF first \in 212 .. 216 THEN decodeFixExt(bufs, offset, 2 ^ (first - 212))
    ELSE DecodeSizedExt(bufs, offset, 2 ^ (first - 199))

DecodeContainer(bufs, offset, first) ==
    LET left == Length(bufs) - offset
        size(n) == BytesLength(Read(bufs, offset + 1, n))
    IN CASE first = 220 -> IF left < 3 THEN Short ELSE decodeArray(bufs, offset, size(2), 3)
         [] first = 221 -> IF left < 5 THEN Short ELSE decodeArray(bufs, offset, size(4), 5)
         [] first = 222 -> decodeMap(bufs, offset, size(2), 3)
         [] first = 223 -> Failed
         [] first \in 144 .. 159 -> decodeArray(bufs, offset, first - 144, 1)
         [] first \in 128 .. 143 -> decodeMap(bufs, offset, first - 128, 1)

DecodeAt(bufs, offset, first) ==
    CASE first < 128 -> Ok(Unsigned(<<first>>), 1)
      [] first >= 224 -> Ok(SignedInt(<<first>>), 1)
      [] first \in 160 .. 191 -> DecodeData(bufs, offset, first - 160, 1, "text")
      [] first \in (128 .. 159) \cup (220 .. 223) -> DecodeContainer(bufs, offset, first)
      [] first \in (199 .. 201) \cup (212 .. 216) -> DecodeExts(bufs, offset, first)
      [] first = 193 -> Failed
      [] OTHER -> DecodeScalar(bufs, offset, first)

DecodeIfWhole(bufs, offset, first, left) ==
    IF hasMinBufferSize(first, left) THEN DecodeAt(bufs, offset, first) ELSE Short

tryDecode(bufs, offset) ==
    LET left == Length(bufs) - offset
    IN IF left <= 0 THEN Short
       ELSE DecodeIfWhole(bufs, offset, Read(bufs, offset, 1)[1], left)

\* The list after readInt64BE has written to it.
Flipped(bufs, flips) ==
    [i \in 1 .. Len(bufs) |-> [j \in 1 .. Len(bufs[i]) |->
        LET o == Before(bufs, i - 1) + j - 1
            of == {a \in flips : o \in a .. a + 7}
            first == Least(of)
        IN IF of = {} THEN bufs[i][j] ELSE Negated(Read(bufs, first, 8))[o - first + 1]]]

\* decode: what is left of the list, and the result.
Decoded(bufs, r) ==
    [st |-> r.st, value |-> r.value,
     bufs |-> IF r.st = "ok" THEN consume(Flipped(bufs, r.flips), r.size)
              ELSE Flipped(bufs, r.flips)]

decode(bufs) == Decoded(bufs, tryDecode(bufs, 0))
=============================================================================
