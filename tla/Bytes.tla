------------------------------- MODULE Bytes -------------------------------
(***************************************************************************)
(* The Buffer of the browser bundles (feross/buffer, base64-js and ieee754 *)
(* inside msgpack5.js): the pure operations on byte sequences that the     *)
(* codecs are built from.  A buffer is a sequence of bytes; offsets are    *)
(* the code's, from 0.  A string is a sequence of UTF-16 code units.       *)
(* RangeError stands for any throw of a bounds check.                      *)
(***************************************************************************)
EXTENDS Integers, Sequences, SequencesExt

RangeError == "RangeError"
Replacement == 65533                        \* the code unit U+FFFD

At(b, i) == b[i + 1]
Lowest(x, y) == IF x < y THEN x ELSE y
Highest(x, y) == IF x > y THEN x ELSE y
Least(S) == CHOOSE x \in S : \A y \in S : x <= y
Most(S) == CHOOSE x \in S : \A y \in S : x >= y
Indices(from, to) == [i \in 1 .. Highest(to - from, 0) |-> from + i - 1]
Repeat(x, n) == [i \in 1 .. n |-> x]
Concat(bs) == FlattenSeq(bs)

(***************************************************************************)
(* Slices, copies and fills.                                               *)
(***************************************************************************)
Clamp(i, len) == IF i < 0 THEN Highest(i + len, 0) ELSE Lowest(i, len)

Slice(b, start, end) ==
    LET s == Clamp(start, Len(b))
    IN SubSeq(b, s + 1, Highest(Clamp(end, Len(b)), s))

\* The bytes that `order` lists, one after the other: what a loop over a
\* shared memory does.
Blit(mem, to, from, order) ==
    FoldLeft(LAMBDA m, i : [m EXCEPT ![to + i + 1] = m[from + i + 1]], mem, order)

CopyLen(len, targetLen, targetStart, start, end) ==
    Lowest(Lowest(end, len) - start, targetLen - targetStart)

\* Mutant: the copy always ascends, so that an overlapping one reads bytes
\* it has already overwritten.
CopyWithinMutant(b, targetStart, start, end) ==
    Blit(b, targetStart, start, Indices(0, CopyLen(Len(b), Len(b), targetStart, start, end)))

\* buf.copy(buf, targetStart, start, end) for 0 <= start < end.
CopyWithin(b, targetStart, start, end) ==
    LET ts == Lowest(targetStart, Len(b))
        asc == Indices(0, CopyLen(Len(b), Len(b), ts, start, end))
    IN IF start < ts /\ ts < end
       THEN Blit(b, ts, start, Reverse(asc))
       ELSE Blit(b, ts, start, asc)

\* buf.copy(target, targetStart, start, end) into another buffer.
CopyTo(target, targetStart, b, start, end) ==
    LET n == CopyLen(Len(b), Len(target), Lowest(targetStart, Len(target)), start, end)
    IN [i \in 1 .. Len(target) |->
            IF i > targetStart /\ i <= targetStart + n
            THEN b[i - targetStart + start] ELSE target[i]]

Fill(b, bytes, start, end) ==
    IF Len(b) < start \/ Len(b) < end THEN RangeError
    ELSE [i \in 1 .. Len(b) |->
            IF i > start /\ i <= end
            THEN At(bytes, (i - 1 - start) % Len(bytes)) ELSE b[i]]

\* swap16, swap32 and swap64 for width 2, 4 and 8.
SwapBytes(b, width) ==
    IF Len(b) % width # 0 THEN RangeError
    ELSE [i \in 1 .. Len(b) |->
            LET o == (i - 1) % width IN b[i - o + (width - 1 - o)]]

(***************************************************************************)
(* Comparison and search.                                                  *)
(***************************************************************************)
Compare(a, b) ==
    LET differ == {i \in 1 .. Lowest(Len(a), Len(b)) : a[i] # b[i]}
        x == IF differ = {} THEN Len(a) ELSE a[Least(differ)]
        y == IF differ = {} THEN Len(b) ELSE b[Least(differ)]
    IN IF x < y THEN -1 ELSE IF y < x THEN 1 ELSE 0

\* The loop of arrayIndexOf: `found` is where the match in progress began.
Searches == [arr : Seq(Nat), val : Seq(Nat), i : Nat, found : Nat \cup {-1}]
Search[s \in Searches] ==
    IF s.i >= Len(s.arr) THEN -1
    ELSE IF At(s.arr, s.i) = At(s.val, IF s.found = -1 THEN 0 ELSE s.i - s.found)
    THEN LET f == IF s.found = -1 THEN s.i ELSE s.found
         IN IF s.i - f + 1 = Len(s.val) THEN f
            ELSE Search[[s EXCEPT !.i = @ + 1, !.found = f]]
    ELSE Search[[s EXCEPT !.i = (IF s.found # -1 THEN s.found ELSE @) + 1, !.found = -1]]

\* buf.indexOf(val, byteOffset) for a val that is a buffer.
IndexOf(b, val, byteOffset) ==
    LET from == IF byteOffset < 0 THEN Highest(Len(b) + byteOffset, 0) ELSE byteOffset
    IN IF Len(b) = 0 \/ from >= Len(b) \/ val = << >> THEN -1
       ELSE Search[[arr |-> b, val |-> val, i |-> from, found |-> -1]]

LastIndexOf(b, val, byteOffset) ==
    LET given == IF byteOffset < 0 THEN Len(b) + byteOffset
                 ELSE Lowest(byteOffset, Len(b) - 1)
        from == Lowest(given, Len(b) - Len(val))
        hits == {i \in 0 .. from : SubSeq(b, i + 1, i + Len(val)) = val}
    IN IF Len(b) = 0 \/ given < 0 \/ val = << >> \/ hits = {} THEN -1 ELSE Most(hits)

(***************************************************************************)
(* UTF-8.                                                                  *)
(***************************************************************************)
IsLead(u) == u >= 55296 /\ u <= 56319
IsTrail(u) == u >= 56320 /\ u <= 57343
IsSurrogate(u) == IsLead(u) \/ IsTrail(u)

\* The bytes of a code point.
Utf8Bytes(cp) ==
    IF cp < 128 THEN <<cp>>
    ELSE IF cp < 2048 THEN <<192 + cp \div 64, 128 + (cp % 64)>>
    ELSE IF cp < 65536
    THEN <<224 + cp \div 4096, 128 + ((cp \div 64) % 64), 128 + (cp % 64)>>
    ELSE <<240 + cp \div 262144, 128 + ((cp \div 4096) % 64),
           128 + ((cp \div 64) % 64), 128 + (cp % 64)>>

\* One code unit of utf8ToBytes: `lead` is a pending lead surrogate or 0.
\* A second lead takes the place of the first and is lost when it is last.
Utf8Unit(s, u, last) ==
    LET bad == Utf8Bytes(Replacement)
    IN IF IsSurrogate(u) /\ s.lead = 0
       THEN IF IsTrail(u) \/ last
            THEN [s EXCEPT !.bytes = @ \o bad]
            ELSE [s EXCEPT !.lead = u]
       ELSE IF IsLead(u)
       THEN [bytes |-> s.bytes \o bad, lead |-> u]
       ELSE IF IsTrail(u)
       THEN [bytes |-> s.bytes \o Utf8Bytes((s.lead - 55296) * 1024 + (u - 56320) + 65536),
             lead |-> 0]
       ELSE [bytes |-> s.bytes \o (IF s.lead # 0 THEN bad ELSE << >>) \o Utf8Bytes(u),
             lead |-> 0]

utf8ToBytes(str) ==
    FoldLeft(LAMBDA s, i : Utf8Unit(s, str[i], i = Len(str)),
             [bytes |-> << >>, lead |-> 0], [i \in 1 .. Len(str) |-> i]).bytes

IsTail(byte) == byte \div 64 = 2

SequenceBytes(first) ==
    IF first > 239 THEN 4 ELSE IF first > 223 THEN 3 ELSE IF first > 191 THEN 2 ELSE 1

\* The code point that starts at b[i], or -1: cut short, a tail that is not
\* one, an overlong form, a surrogate or more than Unicode has.
CodePoint(b, i, end) ==
    LET n == SequenceBytes(At(b, i))
        tail(k) == At(b, i + k) % 64
        tails == \A k \in 1 .. n - 1 : IsTail(At(b, i + k))
    IN IF i + n > end THEN -1
       ELSE CASE n = 1 -> IF At(b, i) < 128 THEN At(b, i) ELSE -1
              [] n = 2 -> LET cp == (At(b, i) % 32) * 64 + tail(1)
                          IN IF tails /\ cp > 127 THEN cp ELSE -1
              [] n = 3 -> LET cp == (At(b, i) % 16) * 4096 + tail(1) * 64 + tail(2)
                          IN IF tails /\ cp > 2047 /\ ~ IsSurrogate(cp) THEN cp ELSE -1
              [] n = 4 -> LET cp == (At(b, i) % 16) * 262144 + tail(1) * 4096
                                    + tail(2) * 64 + tail(3)
                          IN IF tails /\ cp > 65535 /\ cp < 1114112 THEN cp ELSE -1

Units(cp) ==
    IF cp > 65535
    THEN <<55296 + (cp - 65536) \div 1024, 56320 + ((cp - 65536) % 1024)>>
    ELSE <<cp>>

\* utf8Slice: a byte that starts no code point becomes U+FFFD.
utf8Slice(b, start, end) ==
    LET step[i \in Nat] ==
            IF i >= end THEN << >>
            ELSE LET cp == CodePoint(b, i, end)
                 IN IF cp = -1 THEN <<Replacement>> \o step[i + 1]
                    ELSE Units(cp) \o step[i + SequenceBytes(At(b, i))]
    IN step[start]

(***************************************************************************)
(* UTF-16, hexadecimal and base 64.                                        *)
(***************************************************************************)
utf16leToBytes(str) ==
    Concat([i \in 1 .. Len(str) |-> <<str[i] % 256, str[i] \div 256>>])

\* The last byte of an odd number has no second byte (undefined * 256 is
\* NaN, and fromCharCode(NaN) is 0).
utf16leSlice(b) ==
    [i \in 1 .. (Len(b) + 1) \div 2 |->
        IF 2 * i > Len(b) THEN 0 ELSE b[2 * i - 1] + 256 * b[2 * i]]

\* A base 64 string is a sequence of the numbers its characters stand for,
\* with Pad for the equals sign.
Pad == 64
Triplet(x, y, z) ==
    <<x \div 4, (x % 4) * 16 + y \div 16, (y % 16) * 4 + z \div 64, z % 64>>

fromByteArray(b) ==
    LET extra == Len(b) % 3
        whole == Len(b) - extra
        parts == [k \in 1 .. whole \div 3 |-> Triplet(b[3*k - 2], b[3*k - 1], b[3*k])]
    IN Concat(parts) \o
       (IF extra = 0 THEN << >>
        ELSE SubSeq(Triplet(b[whole + 1], IF extra = 2 THEN b[Len(b)] ELSE 0, 0), 1, extra + 1)
             \o Repeat(Pad, 3 - extra))

placeHoldersCount(s) ==
    IF s # << >> /\ s[Len(s) - 1] = Pad THEN 2
    ELSE IF s # << >> /\ s[Len(s)] = Pad THEN 1 ELSE 0

toByteArray(s) ==
    LET holders == placeHoldersCount(s)
        digit(i) == IF s[i] = Pad THEN 0 ELSE s[i]
        three(k) == LET a == 4 * k - 3
                    IN <<digit(a) * 4 + digit(a + 1) \div 16,
                         (digit(a + 1) % 16) * 16 + digit(a + 2) \div 4,
                         (digit(a + 2) % 4) * 64 + digit(a + 3)>>
        all == Concat([k \in 1 .. Len(s) \div 4 |-> three(k)])
    IN SubSeq(all, 1, Len(all) - holders)
=============================================================================
