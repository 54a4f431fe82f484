----------------------------- MODULE BufferList -----------------------------
(***************************************************************************)
(* bl, the list of buffers in msgpack5.js that the decoder reads its input *)
(* from: `bufs` is a sequence of buffers, and every operation behaves as   *)
(* if their bytes lay one after the other.                                 *)
(***************************************************************************)
EXTENDS Bytes

Length(bufs) ==
    LET n[i \in 0 .. Len(bufs)] == IF i = 0 THEN 0 ELSE n[i - 1] + Len(bufs[i]) IN n[Len(bufs)]

\* The bytes before buffer i (from 0).
Before(bufs, i) == Length(SubSeq(bufs, 1, i))

\* <<buffer, position in it>> of an offset; the end of the list is a
\* position in its last buffer.
_offset(bufs, offset) ==
    LET i == Least({k \in 0 .. Len(bufs) - 1 :
                      offset < Before(bufs, k + 1) \/ k = Len(bufs) - 1})
    IN IF offset = 0 THEN <<0, 0>> ELSE <<i, offset - Before(bufs, i)>>

_appendBuffer(bufs, b) == Append(bufs, b)

append(bufs, more) == bufs \o more

\* Mutant: the position in the first buffer is kept for the ones after it.
GatheredMutant(bufs, first, start, bytes) ==
    FoldLeft(LAMBDA s, i :
                LET n == Highest(Lowest(s.left, Len(At(bufs, i)) - start), 0)
                IN [got |-> s.got \o SubSeq(At(bufs, i), start + 1, start + n),
                    left |-> s.left - n],
             [got |-> << >>, left |-> bytes], Indices(first, Len(bufs))).got

\* The loop of copy over the buffers from the one of `start` on.
Gathered(bufs, first, start, bytes) ==
    FoldLeft(LAMBDA s, i :
                LET from == IF i = first THEN start ELSE 0
                    n == Lowest(s.left, Len(At(bufs, i)) - from)
                IN [got |-> s.got \o SubSeq(At(bufs, i), from + 1, from + n),
                    left |-> s.left - n],
             [got |-> << >>, left |-> bytes], Indices(first, Len(bufs))).got

InOneBuffer(bufs, s, e) ==
    LET off == _offset(bufs, s) IN e - s <= Len(At(bufs, off[1])) - off[2]

\* copy without a destination, for what slice gives it.
copy(bufs, srcStart, srcEnd) ==
    LET s == Highest(srcStart, 0)
        e == Lowest(srcEnd, Length(bufs))
        off == _offset(bufs, s)
    IN IF s >= Length(bufs) \/ e <= 0 THEN << >>
       ELSE IF s = 0 /\ e = Length(bufs) THEN Concat(bufs)
       ELSE IF InOneBuffer(bufs, s, e)
       THEN Slice(At(bufs, off[1]), off[2], off[2] + e - s)
       ELSE Gathered(bufs, off[1], off[2], e - s)

FromEnd(bufs, i) == IF i < 0 THEN i + Length(bufs) ELSE i

slice(bufs, start, end) == copy(bufs, FromEnd(bufs, start), FromEnd(bufs, end))

\* Whether a slice is a view on one of the buffers, so that a byte written
\* to it changes the list.
IsView(bufs, start, end) ==
    /\ start < Length(bufs) /\ end > 0
    /\ \/ Len(bufs) = 1 /\ start = 0 /\ end = Length(bufs)
       \/ ~ (start = 0 /\ end = Length(bufs)) /\ InOneBuffer(bufs, start, end)

\* An end of 0 is the end of the list: `end || this.length`.
shallowSlice(bufs, start, end) ==
    LET e == FromEnd(bufs, IF end = 0 THEN Length(bufs) ELSE end)
        s == FromEnd(bufs, start)
        from == _offset(bufs, s)
        to == _offset(bufs, e)
        part == SubSeq(bufs, from[1] + 1, to[1] + 1)
        ended == IF to[2] = 0 THEN SubSeq(part, 1, Len(part) - 1)
                 ELSE [part EXCEPT ![Len(part)] = SubSeq(@, 1, to[2])]
    IN IF from[2] = 0 THEN ended
       ELSE [ended EXCEPT ![1] = SubSeq(@, from[2] + 1, Len(@))]

consume(bufs, bytes) ==
    LET gone == {k \in 0 .. Len(bufs) : Before(bufs, k) <= bytes}
        k == Most(gone)
        kept == SubSeq(bufs, k + 1, Len(bufs))
    IN IF kept = << >> THEN kept
       ELSE [kept EXCEPT ![1] = SubSeq(@, bytes - Before(bufs, k) + 1, Len(@))]

\* The byte at an offset, undefined where there is none.
get(bufs, index) == slice(bufs, index, index + 1)
=============================================================================
