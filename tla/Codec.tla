------------------------------- MODULE Codec -------------------------------
(***************************************************************************)
(* The codecs of the browser bundles at work: bytes that one side writes   *)
(* reach the other in pieces cut anywhere.  A run plays one part:          *)
(*   values  msgpack's Decoder, a Transform over a list of buffers;        *)
(*   text    a StringDecoder;                                              *)
(*   list    the list of buffers itself, appended to and consumed;         *)
(*   frames  hub messages of the binary protocol, parsed piece by piece;   *)
(*   buffer  one Buffer that is copied and filled in place;                *)
(*   number  numbers written to a Buffer and read back.                    *)
(***************************************************************************)
EXTENDS HubProtocolMsgpack, StringDecoder

CONSTANTS Inputs,       \* [part, ...] records: what a run is given
          MaxPieces,    \* the pieces a wire is cut into, the last one aside
          Base, Mantissa, EMax, Rounds

Num == INSTANCE Numbers

VARIABLES input,        \* the member of Inputs
          wire,         \* the bytes not delivered yet
          pieces,       \* the pieces or steps so far
          cuts,         \* history: where the wire was cut into pieces
          bufs,         \* the Decoder's _chunks, or the list
          decoder,      \* the StringDecoder
          out,          \* what came out: values, text, messages or bytes
          st,           \* "open", or how it ended
          last          \* the last operation on the buffer

vars == <<input, wire, pieces, cuts, bufs, decoder, out, st, last>>

Written(i) ==
    CASE i.part = "values" -> Concat([k \in 1 .. Len(i.values) |-> encode(i.values[k])])
      [] i.part = "frames" -> Concat([k \in 1 .. Len(i.messages) |-> writeMessage(i.messages[k])])
      [] i.part \in {"text", "list"} -> i.bytes
      [] i.part \in {"buffer", "number"} -> << >>

Init ==
    /\ input \in Inputs
    /\ wire = Written(input)
    /\ pieces = 0
    /\ cuts = {}
    /\ bufs = << >>
    /\ decoder = NewDecoder
    /\ out = IF input.part \in {"buffer", "number"} THEN input.bytes ELSE << >>
    /\ st = "open"
    /\ last = [op |-> "none", before |-> << >>]

Part(p) == input.part = p /\ st = "open"

\* The next n bytes are delivered; the last piece is all there is.
Piece(n) ==
    /\ n \in 1 .. Len(wire)
    /\ pieces < MaxPieces \/ n = Len(wire)
    /\ wire' = Slice(wire, n, Len(wire))
    /\ pieces' = pieces + 1
    /\ cuts' = IF input.part = "values" THEN cuts \cup {Len(Written(input)) - Len(wire')} ELSE cuts

(***************************************************************************)
(* Decoder._transform: values are decoded and pushed for as long as there  *)
(* are bytes.  A nil is null, and push(null) ends the readable side: what  *)
(* is pushed after it only gives an error event.  Where decode throws, an  *)
(* error is emitted and the chunk's callback never called.                 *)
(***************************************************************************)
RECURSIVE Drain(_, _)

pushed(d, value) ==
    IF d.st = "ended" \/ value = Nil THEN [d EXCEPT !.st = "ended"]
    ELSE [d EXCEPT !.out = Append(@, value)]

Drained(r, d) ==
    CASE r.st = "ok"    -> [pushed(d, r.value) EXCEPT !.bufs = r.bufs]
      [] r.st = "short" -> [d EXCEPT !.bufs = r.bufs]
      [] r.st = "error" -> [d EXCEPT !.bufs = r.bufs, !.st = "error"]

\* Mutant: one value is decoded of a chunk, what follows it has to wait.
DrainOnMutant(r, d) == Drained(r, d)

DrainOn(r, d) ==
    IF r.st = "ok" /\ Length(r.bufs) > 0 THEN Drain(r.bufs, pushed(d, r.value))
    ELSE Drained(r, d)

Drain(list, d) == DrainOn(decode(list), d)

_transform(n) ==
    /\ input.part = "values" /\ st \in {"open", "ended"}
    /\ Piece(n)
    /\ \E d \in {Drain(_appendBuffer(bufs, Slice(wire, 0, n)),
                       [bufs |-> bufs, out |-> out, st |-> st])} :
          bufs' = d.bufs /\ out' = d.out /\ st' = d.st
    /\ UNCHANGED <<input, decoder, last>>

(***************************************************************************)
(* A text, the list, the frames.                                           *)
(***************************************************************************)
TextWrite(n) ==
    /\ Part("text")
    /\ Piece(n)
    /\ LET r == write(input.enc, decoder, Slice(wire, 0, n))
       IN decoder' = r.d /\ out' = out \o r.text
    /\ UNCHANGED <<input, bufs, st, last>>

TextEnd ==
    /\ Part("text")
    /\ wire = << >>
    /\ out' = out \o end(input.enc, decoder)
    /\ st' = "ended"
    /\ UNCHANGED <<input, wire, pieces, cuts, bufs, decoder, last>>

\* out is what the list stands for: the bytes appended and not consumed.
ListAppend(n) ==
    /\ Part("list")
    /\ Piece(n)
    /\ bufs' = _appendBuffer(bufs, Slice(wire, 0, n))
    /\ out' = out \o Slice(wire, 0, n)
    /\ UNCHANGED <<input, decoder, st, last>>

ListConsume(n) ==
    /\ Part("list")
    /\ bufs # << >>
    /\ n \in 1 .. Len(out)
    /\ bufs' = consume(bufs, n)
    /\ out' = Slice(out, n, Len(out))
    /\ UNCHANGED <<input, wire, pieces, cuts, decoder, st, last>>

\* The first n bytes arrive as the data of one event.
Receive(n) ==
    /\ Part("frames")
    /\ n \in 1 .. Len(wire)
    /\ \E r \in {parseMessages(Slice(wire, 0, n))} : out' = r.messages /\ st' = r.st
    /\ pieces' = n
    /\ UNCHANGED <<input, wire, cuts, bufs, decoder, last>>

(***************************************************************************)
(* One buffer, changed in place, and numbers.                              *)
(***************************************************************************)
Operate(op, result) ==
    /\ pieces < input.steps
    /\ pieces' = pieces + 1
    /\ last' = op
    /\ out' = result
    /\ UNCHANGED <<input, wire, cuts, bufs, decoder, st>>

CopyStep ==
    /\ Part("buffer")
    /\ \E ts \in 0 .. Len(out), s \in 0 .. Len(out) - 1, e \in 1 .. Len(out) :
          /\ s < e
          /\ Operate([op |-> "copy", before |-> out, at |-> ts, from |-> s, to |-> e],
                     CopyWithin(out, ts, s, e))

FillStep ==
    /\ Part("buffer")
    /\ \E s \in 0 .. Len(out) - 1, e \in 1 .. Len(out), bytes \in input.fills :
          /\ s < e
          /\ Operate([op |-> "fill", before |-> out, bytes |-> bytes, from |-> s, to |-> e],
                     Fill(out, bytes, s, e))

SwapStep ==
    /\ Part("buffer")
    /\ \E width \in {2, 4, 8} :
          /\ Len(out) % width = 0
          /\ Operate([op |-> "swap", before |-> out, width |-> width], SwapBytes(out, width))

Limit(n) == Base ^ n

\* An integer of n bytes, by one of the four general writers.
WriteInt ==
    /\ Part("number")
    /\ \E n \in 1 .. 4, at \in 0 .. Len(out), signed \in BOOLEAN, little \in BOOLEAN :
       \E v \in (IF signed THEN -(Limit(n) \div 2) .. (Limit(n) \div 2) - 1 ELSE 0 .. Limit(n) - 1) :
          LET result == IF signed
                        THEN IF little THEN Num!writeIntLE(out, v, at, n)
                             ELSE Num!writeIntBE(out, v, at, n)
                        ELSE IF little THEN Num!writeUIntLE(out, v, at, n)
                             ELSE Num!writeUIntBE(out, v, at, n)
          IN Operate([op |-> "int", before |-> out, v |-> v, n |-> n, at |-> at,
                      signed |-> signed, little |-> little], result)

WriteFloat ==
    /\ Part("number")
    /\ \E v \in -(Num!Infinity + 1) .. Num!Infinity :
          Operate([op |-> "float", before |-> out, v |-> v, f |-> Num!floatWrite(v)], out)

Next ==
    \/ \E n \in 1 .. Len(wire) :
          _transform(n) \/ TextWrite(n) \/ ListAppend(n) \/ Receive(n)
    \/ \E n \in 1 .. Len(out) : ListConsume(n)
    \/ TextEnd
    \/ CopyStep \/ FillStep \/ SwapStep
    \/ WriteInt \/ WriteFloat

Spec == Init /\ [][Next]_vars

-----------------------------------------------------------------------------
(***************************************************************************)
(* Properties.                                                             *)
(***************************************************************************)

\* However the bytes of a stream are cut, the Decoder pushes the values that
\* were encoded up to the first nil, which ends the stream, in their order and
\* none of them early, and it has pushed all of them when the last byte has come
\* (Decoder._transform, decode and encode of msgpack5).  A value whose own bytes
\* came in one piece is exactly what was sent; one that was cut is too, but for
\* the signs of negative integers of eight bytes within an array or a map: the
\* first attempt negates them in the list itself (readInt64BE), and the next
\* reads what it left.
Sent(values) ==
    LET nils == {k \in DOMAIN values : values[k] = Nil}
    IN IF nils = {} THEN values ELSE SubSeq(values, 1, Least(nils) - 1)

RECURSIVE Unsigned64(_)
Unsigned64(v) ==
    CASE v.t = "int"   -> IF v.neg /\ encode(v)[1] = 211 THEN [v EXCEPT !.neg = FALSE] ELSE v
      [] v.t = "array" -> Arr([i \in DOMAIN v.v |-> Unsigned64(v.v[i])])
      [] v.t = "map"   -> Dictionary([i \in DOMAIN v.v |-> <<v.v[i][1], Unsigned64(v.v[i][2])>>])
      [] OTHER         -> v

Cut(values, k) ==
    LET upto(m) == Len(Concat([i \in 1 .. m |-> encode(values[i])]))
    IN \E c \in cuts : upto(k - 1) < c /\ c < upto(k)

ValuesAsSent ==
    LET sent == Sent(input.values)
    IN input.part = "values" =>
        /\ st # "error" /\ Len(out) <= Len(sent)
        /\ st = "ended" => Len(out) = Len(sent) /\ sent # input.values
        /\ wire = << >> => Len(out) = Len(sent) /\ (st = "open" <=> sent = input.values)
        /\ \A k \in DOMAIN out :
              \/ out[k] = sent[k]
              \/ /\ Cut(input.values, k) /\ sent[k].t \in {"array", "map"}
                 /\ Unsigned64(out[k]) = Unsigned64(sent[k])

\* The list of buffers answers as one buffer would: its length, each slice,
\* each byte and each shallow copy are those of the bytes appended and not
\* yet consumed, wherever the cuts are (bl).  A start beyond the end is left
\* out: then bl gives bytes where a Buffer gives none.
ListIsFlat ==
    input.part = "list" =>
        /\ Concat(bufs) = out /\ Length(bufs) = Len(out)
        /\ \A s, e \in -Len(out) .. Len(out) :
              FromEnd(bufs, s) <= FromEnd(bufs, e) =>
              slice(bufs, s, e) = IF FromEnd(bufs, e) <= 0 THEN << >> ELSE Slice(out, s, e)
        /\ \A s \in 0 .. Len(out) : \A e \in s .. Len(out) :
              bufs # << >> /\ e > 0 => Concat(shallowSlice(bufs, s, e)) = Slice(out, s, e)

\* A text that comes in pieces is the text of all its bytes: a character is
\* neither split, lost nor repeated at a cut, and bytes that are no character
\* give the same replacements (StringDecoder's write and end).
TextAsWhole ==
    input.part = "text" =>
        LET whole == ToText(input.enc, input.bytes, 0, Len(input.bytes))
        IN st = "ended" => out = whole

\* Data that ends inside a message is refused as a whole; data that ends
\* with one gives exactly the messages up to there, with what was written
\* (BinaryMessageFormat and MessagePackHubProtocol).  A stream invocation is
\* a message only servers read.
Expected(m) == IF m.type = Invocation THEN m ELSE Ignored

FramesWhole ==
    input.part = "frames" /\ st # "open" =>
        LET ends == {k \in 1 .. Len(input.messages) :
                        Len(Concat([i \in 1 .. k |-> writeMessage(input.messages[i])])) = pieces}
        IN IF ends = {} THEN st \in {NoSize, Incomplete} /\ out = << >>
           ELSE st = "ok" /\ out = [i \in 1 .. Least(ends) |-> Expected(input.messages[i])]

\* What an operation leaves in a buffer is what it promises of the bytes
\* before it, and a search finds the nearest occurrence (copy with source
\* and target that overlap, fill, swap, indexOf, lastIndexOf, compare).
Occurs(b, val) == {i \in 0 .. Len(b) - Len(val) : SubSeq(b, i + 1, i + Len(val)) = val}

BufferAsPromised ==
    input.part = "buffer" =>
        /\ last.op = "copy" =>
              LET n == Lowest(last.to - last.from, Len(out) - last.at)
              IN out = SubSeq(last.before, 1, last.at)
                       \o SubSeq(last.before, last.from + 1, last.from + n)
                       \o SubSeq(last.before, last.at + n + 1, Len(out))
        /\ last.op = "fill" =>
              \A i \in 1 .. Len(out) :
                 out[i] = IF i \in last.from + 1 .. last.to
                          THEN At(last.bytes, (i - last.from - 1) % Len(last.bytes))
                          ELSE last.before[i]
        /\ last.op = "swap" => SwapBytes(out, last.width) = last.before
        /\ \A val \in input.fills \cup {SubSeq(out, 2, 3)}, o \in 0 .. Len(out) - 1 :
              LET at == IndexOf(out, val, o)
                  back == LastIndexOf(out, val, o)
                  later == {i \in Occurs(out, val) : i >= o}
                  earlier == {i \in Occurs(out, val) : i <= o}
              IN /\ at = IF later = {} THEN -1 ELSE Least(later)
                 /\ back = IF earlier = {} THEN -1 ELSE Most(earlier)
                 /\ Compare(out, val) = -Compare(val, out)

\* A number that was written is read back by every reader of its format, and
\* no other byte changes; a float is the nearest one, towards zero when two
\* are as near (read and write of Buffer and of ieee754).
IntReadBack ==
    LET n == last.n
        at == last.at
        read == IF last.signed
                THEN IF last.little THEN Num!readIntLE(out, at, n) ELSE Num!readIntBE(out, at, n)
                ELSE IF last.little THEN Num!readUIntLE(out, at, n) ELSE Num!readUIntBE(out, at, n)
        short == CASE n = 2 /\ last.little -> IF last.signed THEN Num!readInt16LE(out, at)
                                              ELSE Num!readUInt16LE(out, at)
                   [] n = 2 /\ ~ last.little -> IF last.signed THEN Num!readInt16BE(out, at)
                                                ELSE Num!readUInt16BE(out, at)
                   [] n = 4 /\ last.little -> IF last.signed THEN Num!readInt32LE(out, at)
                                              ELSE Num!readUInt32LE(out, at)
                   [] n = 4 /\ ~ last.little -> IF last.signed THEN Num!readInt32BE(out, at)
                                                ELSE Num!readUInt32BE(out, at)
                   [] n = 1 /\ last.signed -> Num!readInt8(out, at)
                   [] OTHER -> last.v
    IN IF at + n > Len(last.before) THEN out = RangeError
       ELSE /\ read = last.v /\ short = last.v
            /\ Num!Put(out, at, SubSeq(last.before, at + 1, at + n)) = last.before
            /\ n # 3 => out = Num!writeFixed(last.before, last.v, at, n, last.signed, last.little)

Floats == {Num!floatRead([s |-> s, e |-> e, m |-> m]) :
              s \in 0 .. 1, e \in 0 .. EMax - 1, m \in 0 .. 2 ^ Mantissa - 1}

FloatReadBack ==
    LET got == Num!floatRead(last.f)
        off(x) == IF x > last.v THEN x - last.v ELSE last.v - x
    IN got \notin {Num!NaN, Num!Infinity, -Num!Infinity} =>
           \A x \in Floats : off(got) <= off(x)

NumbersReadBack ==
    input.part = "number" =>
        /\ last.op = "int" => IntReadBack
        /\ last.op = "float" => FloatReadBack

\* What was cut into pieces is put together again, as bytes and as text.
PiecesWhole == ListIsFlat /\ TextAsWhole /\ FramesWhole

\* The bytes below: copies within a buffer, and numbers read back as written.
BytesAsWritten == BufferAsPromised /\ NumbersReadBack
=============================================================================
