------------------------- MODULE HubProtocolMsgpack -------------------------
(***************************************************************************)
(* signalr-protocol-msgpack.js: hub messages as msgpack arrays, each with  *)
(* its length before it as a variable-length integer of at most five       *)
(* bytes, so that one piece of binary data can hold several.               *)
(***************************************************************************)
EXTENDS Msgpack

Number(n) == Integer(FALSE, Stripped(LengthBytes(n, 4)))

(***************************************************************************)
(* BinaryMessageFormat.                                                    *)
(***************************************************************************)
LengthPrefix(size) ==
    LET p[n \in Nat] == IF n < 128 THEN <<n>> ELSE <<128 + (n % 128)>> \o p[n \div 128]
    IN p[size]

frame(output) == LengthPrefix(Len(output)) \o output

Incomplete == "Incomplete message."
NoSize == "Cannot read message size."
TooBig == "Messages bigger than 2GB are not supported."

\* An error is thrown over all that was parsed before it.
Thrown(r) == IF r.st = "ok" THEN r ELSE [r EXCEPT !.messages = << >>]

\* Mutant: a message that is cut short is given as far as it came.
parseMutant(input) ==
    LET from[offset \in Nat] ==
            IF offset >= Len(input) THEN [st |-> "ok", messages |-> << >>]
            ELSE LET most == Lowest(5, Len(input) - offset)
                     ends == {k \in 1 .. most : At(input, offset + k - 1) < 128}
                     n == IF ends = {} THEN most ELSE Least(ends)
                     size == FoldLeft(LAMBDA v, k : v * 128 + (At(input, offset + n - k) % 128),
                                      0, [k \in 1 .. n |-> k])
                     rest == from[offset + n + size]
                 IN IF ends = {} THEN [st |-> NoSize, messages |-> << >>]
                    ELSE [rest EXCEPT !.messages =
                            <<Slice(input, offset + n, offset + n + size)>> \o @]
    IN Thrown(from[0])

\* The messages of the input, or the error that the whole of it is refused
\* with.  The fifth byte of a length has three bits.
parse(input) ==
    LET from[offset \in Nat] ==
            IF offset >= Len(input) THEN [st |-> "ok", messages |-> << >>]
            ELSE LET most == Lowest(5, Len(input) - offset)
                     ends == {k \in 1 .. most : At(input, offset + k - 1) < 128}
                     n == IF ends = {} THEN most ELSE Least(ends)
                     size == FoldLeft(LAMBDA v, k : v * 128 + (At(input, offset + n - k) % 128),
                                      0, [k \in 1 .. n |-> k])
                     rest == from[offset + n + size]
                 IN IF ends = {} /\ n < 5 THEN [st |-> NoSize, messages |-> << >>]
                    ELSE IF n = 5 /\ At(input, offset + 4) > 7
                    THEN [st |-> TooBig, messages |-> << >>]
                    ELSE IF Len(input) < offset + n + size
                    THEN [st |-> Incomplete, messages |-> << >>]
                    ELSE [rest EXCEPT !.messages =
                            <<Slice(input, offset + n, offset + n + size)>> \o @]
    IN Thrown(from[0])

(***************************************************************************)
(* MessagePackHubProtocol.                                                 *)
(***************************************************************************)
Invocation == 1
StreamItem == 2
Completion == 3
StreamInvocation == 4
Ping == 6
Close == 7

InvalidPayload == [type |-> "error"]
Ignored == [type |-> "null"]

IsNumber(v, n) == v.t = "int" /\ v = Number(n)

\* typeof headers === "object"
readHeaders(properties) ==
    Len(properties) >= 2 /\ properties[2].t \in {"nil", "array", "map", "bin", "date", "ext"}

Falsy(v) ==
    \/ v.t = "nil"
    \/ v.t = "str" /\ v.v = << >>
    \/ v.t = "bool" /\ v.v = FALSE
    \/ v.t = "int" /\ v.mag = << >>

createInvocationMessage(p) ==
    IF ~ readHeaders(p) \/ Len(p) < 5 THEN InvalidPayload
    ELSE [type |-> Invocation, headers |-> p[2], id |-> IF Falsy(p[3]) THEN Nil ELSE p[3],
          target |-> p[4], arguments |-> p[5]]

createStreamItemMessage(p) ==
    IF ~ readHeaders(p) \/ Len(p) < 4 THEN InvalidPayload
    ELSE [type |-> StreamItem, headers |-> p[2], id |-> p[3], item |-> p[4]]

\* The result kinds: 1 is an error, 2 no result and 3 a result.
createCompletionMessage(p) ==
    IF ~ readHeaders(p) \/ Len(p) < 4 \/ (~ IsNumber(p[4], 2) /\ Len(p) < 5) THEN InvalidPayload
    ELSE [type |-> Completion, headers |-> p[2], id |-> p[3],
          error |-> IF IsNumber(p[4], 1) THEN p[5] ELSE Nil,
          result |-> IF IsNumber(p[4], 3) THEN p[5] ELSE Nil]

createPingMessage(p) == [type |-> Ping]

createCloseMessage(p) ==
    IF Len(p) < 2 THEN InvalidPayload ELSE [type |-> Close, error |-> p[2]]

MessageOf(r) ==
    LET p == r.value.v
        is(n) == IsNumber(p[1], n)
    IN IF r.st # "ok" \/ r.value.t # "array" \/ r.value.v = << >> THEN InvalidPayload
       ELSE CASE is(Invocation) -> createInvocationMessage(p)
              [] is(StreamItem) -> createStreamItemMessage(p)
              [] is(Completion) -> createCompletionMessage(p)
              [] is(Ping) -> createPingMessage(p)
              [] is(Close) -> createCloseMessage(p)
              [] OTHER -> Ignored

parseMessage(payload) ==
    IF payload = << >> THEN InvalidPayload ELSE MessageOf(decode(<<payload>>))

Parsed(frames, messages) ==
    LET bad == InvalidPayload \in {messages[i] : i \in DOMAIN messages}
    IN Thrown([st |-> IF bad THEN "Invalid payload." ELSE frames.st, messages |-> messages])

ParseFrames(frames) ==
    Parsed(frames, [i \in DOMAIN frames.messages |-> parseMessage(frames.messages[i])])

parseMessages(input) == ParseFrames(parse(input))

\* The array an invocation is written as; the two differ in the type.
writeInvocation(m) ==
    frame(encode(Arr(<<Number(Invocation), m.headers, m.id, m.target, m.arguments>>)))
writeStreamInvocation(m) ==
    frame(encode(Arr(<<Number(StreamInvocation), m.headers, m.id, m.target, m.arguments>>)))

writeMessage(m) ==
    IF m.type = Invocation THEN writeInvocation(m) ELSE writeStreamInvocation(m)
=============================================================================
