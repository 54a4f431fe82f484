------------------------------ MODULE MCCodec ------------------------------
EXTENDS Codec

Minus(n) == Integer(TRUE, Stripped(LengthBytes(n, 4)))

Long == Str(Repeat(97, 32))
Euro == Str(<<8364, 233>>)
Clef == Str(<<55348, 56606>>)

\* Streams of values: one of each format, several at once, nested, and longer
\* than what the short formats hold.
Values ==
    { <<Number(0), Number(127), Number(128), Number(255), Number(256), Number(65535)>>,
      <<Number(65536), Unsigned(<<255, 255, 255, 255>>), Unsigned(<<1, 0, 0, 0, 0>>)>>,
      <<Unsigned(MaxSafe), Minus(1), Minus(32), Minus(33), Minus(128), Minus(129)>>,
      <<Minus(32768), Minus(32769), Minus(214748364), Minus(214748365)>>,
      <<Integer(TRUE, <<128, 0, 0, 0>>), Integer(TRUE, MaxSafe), Bool(TRUE), Bool(FALSE)>>,
      <<Long, Str(<< >>), Euro>>,
      <<Bin(<< >>), Bin(<<1, 2, 3>>), Clef, Float(7, TRUE), Float(9, FALSE)>>,
      <<Arr(<<Number(300), Arr(<< >>), Euro>>), Dictionary(<<<<Euro, Number(1)>>, <<Clef, Arr(<<Number(2)>>)>>>>)>>,
      <<Arr([i \in 1 .. 16 |-> Number(i)]), Number(5)>>,
      <<Dictionary([i \in 1 .. 16 |-> <<Str(<<96 + i>>), Number(i)>>])>>,
      <<Date(<<1, 2>>, 0), Date(<<1, 2>>, 500), Date(<<1, 0, 0, 0, 3>>, 1), Date(<<3, 0, 0, 0, 0>>, 0)>>,
      <<Ext(5, <<1>>), Ext(5, <<1, 2>>), Ext(5, <<1, 2, 3>>), Ext(5, <<1, 2, 3, 4>>)>>,
      <<Ext(5, Repeat(1, 8)), Ext(5, Repeat(2, 16)), Ext(5, << >>)>>,
      <<Bool(TRUE), Arr(<<Nil, Number(1)>>), Nil, Number(300), Nil, Euro>>,
      <<Arr(<<Integer(TRUE, MaxSafe), Number(300), Integer(TRUE, <<1, 0, 0, 0, 0>>), Euro>>), Minus(7)>>,
      <<Dictionary(<<<<Euro, Integer(TRUE, <<5, 0, 0, 0, 0>>)>>, <<Clef, Number(300)>>>>), Bool(TRUE)>>,
      <<Arr(<<Date(<<9>>, 0), Ext(5, <<1, 2>>), Number(70000), Unsigned(<<1, 0, 0, 0, 0>>)>>)>> }

\* Bytes that are a character, a part of one and none at all.
TextBytes == {65, 128, 194, 226, 240}
Texts == UNION {[1 .. n -> TextBytes] : n \in 1 .. 4}
Emoji == <<240, 159, 152, 128, 226, 130, 172, 65>>

Headers == Dictionary(<< >>)
Call(id, arguments) ==
    [type |-> Invocation, headers |-> Headers, id |-> id, target |-> Str(<<101>>),
     arguments |-> Arr(arguments)]
StreamCall(id) == [Call(id, << >>) EXCEPT !.type = StreamInvocation]

MCInputs ==
    {[part |-> "values", values |-> v] : v \in Values}
    \cup {[part |-> "text", enc |-> "utf8", bytes |-> b] : b \in Texts \cup {Emoji}}
    \cup {[part |-> "text", enc |-> "utf16le", bytes |-> b] :
            b \in {<<65, 0, 52, 216, 30, 221>>, <<52, 216, 52, 216, 65>>, <<30, 221, 52, 216>>}}
    \cup {[part |-> "text", enc |-> "base64", bytes |-> Repeat(200, n)] : n \in 1 .. 8}
    \cup {[part |-> "text", enc |-> "latin1", bytes |-> <<1, 200, 3>>]}
    \cup {[part |-> "list", bytes |-> <<1, 2, 3, 4, 5, 6>>]}
    \cup {[part |-> "frames", messages |-> <<Call(Str(<<49>>), <<Number(1), Euro>>), Call(Nil, << >>)>>],
          [part |-> "frames", messages |-> <<Call(Nil, <<Bin(Repeat(97, 130))>>), StreamCall(Str(<<50>>))>>]}
    \cup {[part |-> "buffer", bytes |-> <<1, 1, 2, 1>>, steps |-> 2, fills |-> {<<0>>, <<1, 2>>, <<1, 1, 2>>}]}
    \cup {[part |-> "number", bytes |-> <<0, 3, 1, 2, 0>>, steps |-> 1]}
=============================================================================
