--------------------------- MODULE StringDecoder ---------------------------
(***************************************************************************)
(* string_decoder in msgpack5.js: turns a stream's buffers into strings,   *)
(* keeping back the bytes of a character that a buffer ends in.  A decoder *)
(* is [need, total, char]: the bytes missing, the bytes of the character   *)
(* and those kept.  Strings are code units, those of base 64 its digits.   *)
(***************************************************************************)
EXTENDS Bytes

NewDecoder == [need |-> 0, total |-> 0, char |-> Repeat(0, 4)]

\* buf.toString(encoding, start, end)
ToText(enc, b, start, end) ==
    CASE enc = "utf8" -> utf8Slice(b, start, end)
      [] enc = "utf16le" -> utf16leSlice(Slice(b, start, end))
      [] enc = "base64" -> fromByteArray(Slice(b, start, end))
      [] OTHER -> Slice(b, start, end)

Result(text, d) == [text |-> text, d |-> d]

\* Copies b[0 .. n-1] into lastChar at a position.
Kept(d, at, b, n) == [d EXCEPT !.char = CopyTo(@, at, b, 0, n)]

(***************************************************************************)
(* fillLast: the rest of a character begun in an earlier buffer.  A text   *)
(* of Undefined says that it is still not complete.                        *)
(***************************************************************************)
Undefined == <<-1>>                         \* no code unit

fillLast(enc, d, b) ==
    LET p == d.total - d.need
        whole == Kept(d, p, b, d.need)
    IN IF d.need <= Len(b) THEN Result(ToText(enc, whole.char, 0, d.total), whole)
       ELSE Result(Undefined, [Kept(d, p, b, Len(b)) EXCEPT !.need = @ - Len(b)])

\* The first of the missing bytes that continues no character, or -1.
utf8CheckExtraBytes(d, b) ==
    LET wrong == {k \in 0 .. Lowest(d.need, Len(b)) - 1 : ~ IsTail(At(b, k))}
    IN IF wrong = {} THEN -1 ELSE Least(wrong)

\* Mutant: a byte that continues no character is swallowed with the others.
utf8FillLastMutant(d, b) ==
    LET k == utf8CheckExtraBytes(d, b)
    IN IF k # -1 THEN Result(Repeat(Replacement, d.total - d.need + k), d)
       ELSE fillLast("utf8", d, b)

utf8FillLast(d, b) ==
    LET k == utf8CheckExtraBytes(d, b)
    IN IF k # -1
       THEN Result(Repeat(Replacement, d.total - d.need + k), [d EXCEPT !.need = k])
       ELSE fillLast("utf8", d, b)

(***************************************************************************)
(* text: the characters that are whole; the rest is kept.                  *)
(***************************************************************************)
utf8CheckByte(byte) ==
    IF byte <= 127 THEN 0
    ELSE IF byte \div 32 = 6 THEN 2
    ELSE IF byte \div 16 = 14 THEN 3
    ELSE IF byte \div 8 = 30 THEN 4 ELSE -1

\* <<bytes of the character the buffer ends in, bytes of it missing>>: the
\* last three bytes are looked at, back to one that continues nothing.
utf8CheckIncomplete(b, i) ==
    LET back == {k \in 1 .. 3 : Len(b) - k >= i}
        heads == {k \in back : utf8CheckByte(At(b, Len(b) - k)) >= 0}
        k == Least(heads)
        nb == utf8CheckByte(At(b, Len(b) - k))
    IN IF heads = {} \/ nb = 0 \/ (k = 3 /\ nb = 2) THEN <<0, 0>>
       ELSE <<nb, nb - k>>

utf8Text(d, b, i) ==
    LET part == utf8CheckIncomplete(b, i)
        end == Len(b) - (part[1] - part[2])
    IN IF part[2] <= 0 THEN Result(ToText("utf8", b, i, Len(b)), [d EXCEPT !.need = part[2]])
       ELSE Result(ToText("utf8", b, i, end),
                   [Kept(d, 0, Slice(b, end, Len(b)), Len(b) - end)
                        EXCEPT !.need = part[2], !.total = part[1]])

KeepLast(d, b, n, total) ==
    [Kept(d, 0, Slice(b, Len(b) - n, Len(b)), n) EXCEPT !.need = total - n, !.total = total]

utf16Text(d, b, i) ==
    LET text == ToText("utf16le", b, i, Len(b))
    IN IF (Len(b) - i) % 2 = 1
       THEN Result(ToText("utf16le", b, i, Len(b) - 1), KeepLast(d, b, 1, 2))
       ELSE IF IsLead(Last(text))
       THEN Result(Front(text), KeepLast(d, b, 2, 4))
       ELSE Result(text, d)

base64Text(d, b, i) ==
    LET n == (Len(b) - i) % 3
    IN IF n = 0 THEN Result(ToText("base64", b, i, Len(b)), d)
       ELSE Result(ToText("base64", b, i, Len(b) - n), KeepLast(d, b, n, 3))

Text(enc, d, b, i) ==
    CASE enc = "utf8" -> utf8Text(d, b, i)
      [] enc = "utf16le" -> utf16Text(d, b, i)
      [] enc = "base64" -> base64Text(d, b, i)

(***************************************************************************)
(* write and end.                                                          *)
(***************************************************************************)
simpleWrite(enc, d, b) == Result(ToText(enc, b, 0, Len(b)), d)

write(enc, d, b) ==
    LET filled == IF enc = "utf8" THEN utf8FillLast(d, b) ELSE fillLast(enc, d, b)
        i == IF d.need = 0 THEN 0 ELSE filled.d.need
        now == IF d.need = 0 THEN Result(<< >>, d)
               ELSE Result(filled.text, [filled.d EXCEPT !.need = 0])
        rest == Text(enc, now.d, b, i)
    IN IF enc \notin {"utf8", "utf16le", "base64"} THEN simpleWrite(enc, d, b)
       ELSE IF b = << >> THEN Result(<< >>, d)
       ELSE IF d.need # 0 /\ filled.text = Undefined THEN Result(<< >>, filled.d)
       ELSE IF i < Len(b) THEN Result(now.text \o rest.text, rest.d)
       ELSE now

\* What is left of a character when the stream ends.
end(enc, d) ==
    LET n == d.total - d.need
    IN IF enc \notin {"utf8", "utf16le", "base64"} \/ d.need = 0 THEN << >>
       ELSE IF enc = "utf8" THEN Repeat(Replacement, n)
       ELSE ToText(enc, d.char, 0, n)
=============================================================================
