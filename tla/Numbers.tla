------------------------------ MODULE Numbers ------------------------------
(***************************************************************************)
(* How the Buffer of the browser bundles reads and writes numbers.  The    *)
(* code's bytes count to 256 and its floats have 23 or 52 bits of mantissa *)
(* in 4 or 8 bytes; here both sizes are parameters, so that every number   *)
(* of a small format can be checked.                                       *)
(***************************************************************************)
EXTENDS Bytes

CONSTANTS Base,       \* the values of a byte
          Mantissa,   \* mLen: the mantissa's bits in a float
          EMax,       \* the exponent that means infinity
          Rounds      \* whether rt is half a unit, as for mLen = 23

(***************************************************************************)
(* Integers of n bytes.                                                    *)
(***************************************************************************)
checkOffset(b, o, n) == o >= 0 /\ o + n <= Len(b)

checkInt(b, v, o, n, max, min) == v <= max /\ v >= min /\ o + n <= Len(b)

\* The loops with mul, from the highest byte down.
readUIntLE(b, o, n) ==
    LET val[i \in 1 .. n] == At(b, o + i - 1) + (IF i = n THEN 0 ELSE Base * val[i + 1])
    IN IF ~ checkOffset(b, o, n) THEN RangeError ELSE val[1]

readUIntBE(b, o, n) ==
    LET val[i \in 1 .. n] == At(b, o + i - 1) + (IF i = 1 THEN 0 ELSE Base * val[i - 1])
    IN IF ~ checkOffset(b, o, n) THEN RangeError ELSE val[n]

Signed(val, n) == IF val >= Base ^ n \div 2 THEN val - Base ^ n ELSE val

readIntLE(b, o, n) ==
    IF ~ checkOffset(b, o, n) THEN RangeError ELSE Signed(readUIntLE(b, o, n), n)

readIntBE(b, o, n) ==
    IF ~ checkOffset(b, o, n) THEN RangeError ELSE Signed(readUIntBE(b, o, n), n)

\* readInt8, readInt16 and readInt32 test the sign bit of the last byte.
Sign(b, o, n, high, val) ==
    IF ~ checkOffset(b, o, n) THEN RangeError
    ELSE IF At(b, high) >= Base \div 2 THEN val - Base ^ n ELSE val

readUInt16LE(b, o) ==
    IF ~ checkOffset(b, o, 2) THEN RangeError ELSE At(b, o) + At(b, o + 1) * Base
readUInt16BE(b, o) ==
    IF ~ checkOffset(b, o, 2) THEN RangeError ELSE At(b, o) * Base + At(b, o + 1)
readUInt32LE(b, o) ==
    IF ~ checkOffset(b, o, 4) THEN RangeError
    ELSE readUInt16LE(b, o) + readUInt16LE(b, o + 2) * Base * Base
readUInt32BE(b, o) ==
    IF ~ checkOffset(b, o, 4) THEN RangeError
    ELSE readUInt16BE(b, o) * Base * Base + readUInt16BE(b, o + 2)
readInt8(b, o) ==
    IF ~ checkOffset(b, o, 1) THEN RangeError ELSE Sign(b, o, 1, o, At(b, o))
readInt16LE(b, o) ==
    IF ~ checkOffset(b, o, 2) THEN RangeError ELSE Sign(b, o, 2, o + 1, readUInt16LE(b, o))
readInt16BE(b, o) ==
    IF ~ checkOffset(b, o, 2) THEN RangeError ELSE Sign(b, o, 2, o, readUInt16BE(b, o))
readInt32LE(b, o) ==
    IF ~ checkOffset(b, o, 4) THEN RangeError ELSE Sign(b, o, 4, o + 3, readUInt32LE(b, o))
readInt32BE(b, o) ==
    IF ~ checkOffset(b, o, 4) THEN RangeError ELSE Sign(b, o, 4, o, readUInt32BE(b, o))

\* The bytes of b with the n bytes from o replaced by new.
Put(b, o, new) == [i \in 1 .. Len(b) |->
                      IF i > o /\ i <= o + Len(new) THEN new[i - o] ELSE b[i]]

LittleEndian(v, n) == [i \in 1 .. n |-> (v \div Base ^ (i - 1)) % Base]

writeUIntLE(b, v, o, n) ==
    IF ~ checkInt(b, v, o, n, Base ^ n - 1, 0) THEN RangeError
    ELSE Put(b, o, LittleEndian(v, n))
writeUIntBE(b, v, o, n) ==
    IF ~ checkInt(b, v, o, n, Base ^ n - 1, 0) THEN RangeError
    ELSE Put(b, o, Reverse(LittleEndian(v, n)))

\* (value / mul) >> 0 drops the fraction towards zero; from the first byte
\* that is not zero on, a negative value's bytes are one less.
Truncated(v, m) == IF v >= 0 THEN v \div m ELSE -((-v) \div m)

\* Mutant: the borrow is forgotten once the byte before is zero.
SignedBytesMutant(v, n) ==
    FoldLeft(LAMBDA s, i :
                LET sub == IF v < 0 /\ s[i] # 0 THEN 1 ELSE 0
                IN Append(s, (Truncated(v, Base ^ i) - sub) % Base),
             <<v % Base>>, Indices(1, n))

SignedBytes(v, n) ==
    FoldLeft(LAMBDA s, i :
                LET sub == IF v < 0 /\ (\E k \in 1 .. i : s[k] # 0) THEN 1 ELSE 0
                IN Append(s, (Truncated(v, Base ^ i) - sub) % Base),
             <<v % Base>>, Indices(1, n))

writeIntLE(b, v, o, n) ==
    IF ~ checkInt(b, v, o, n, (Base ^ n \div 2) - 1, -(Base ^ n \div 2))
    THEN RangeError ELSE Put(b, o, SignedBytes(v, n))
writeIntBE(b, v, o, n) ==
    IF ~ checkInt(b, v, o, n, (Base ^ n \div 2) - 1, -(Base ^ n \div 2))
    THEN RangeError ELSE Put(b, o, Reverse(SignedBytes(v, n)))

\* writeUInt8 .. writeUInt32LE and BE, writeInt8 .. writeInt32LE and BE: the
\* bytes of the value in two's complement, by shifts.
writeFixed(b, v, o, n, signed, little) ==
    LET half == Base ^ n \div 2
        max == IF signed THEN half - 1 ELSE Base ^ n - 1
        bytes == LittleEndian(v, n)
    IN IF ~ checkInt(b, v, o, n, max, IF signed THEN -half ELSE 0) THEN RangeError
       ELSE Put(b, o, IF little THEN bytes ELSE Reverse(bytes))

(***************************************************************************)
(* Floats: [s, e, m] is what the bytes hold.  A value is a whole number of *)
(* quarters of the smallest positive float.                                *)
(***************************************************************************)
Scale == 4
Infinity == Scale * 2 ^ (Mantissa + EMax - 1)
NaN == -Infinity - 1

floatRead(f) ==
    LET mag == IF f.e = 0 THEN f.m ELSE (f.m + 2 ^ Mantissa) * 2 ^ (f.e - 1)
    IN IF f.e = EMax
       THEN IF f.m # 0 THEN NaN ELSE IF f.s = 1 THEN -Infinity ELSE Infinity
       ELSE (IF f.s = 1 THEN -1 ELSE 1) * mag * Scale

\* Half a unit less than nothing: what is added before the mantissa is cut.
Rounded(value, unit) ==
    IF Rounds THEN (2 * value + unit - 1) \div (2 * unit) ELSE value \div unit

floatWrite(v) ==
    LET value == IF v < 0 THEN -v ELSE v
        e == Most({0} \cup {k \in 1 .. EMax : value >= Scale * 2 ^ (Mantissa + k - 1)})
        unit == Scale * 2 ^ (IF e = 0 THEN 0 ELSE e - 1)
        m == Rounded(value, unit)
        up == IF m >= 2 ^ (Mantissa + (IF e = 0 THEN 0 ELSE 1)) THEN 1 ELSE 0
        s == IF v < 0 THEN 1 ELSE 0
    IN IF v = NaN THEN [s |-> 0, e |-> EMax, m |-> 1]
       ELSE IF e + up >= EMax THEN [s |-> s, e |-> EMax, m |-> 0]
       ELSE [s |-> s, e |-> e + up, m |-> IF up = 1 THEN 0 ELSE m % 2 ^ Mantissa]
=============================================================================
