----------------------------- MODULE MCUnitBench -----------------------------
(* Instances of UnitBench for TLC. *)
EXTENDS UnitBench

Names == {"echo", "broadcast", "SendGroup", "sendToClient", "RestBroadcast",
          "RestSendToUser"}

\* One scenario, or two in a row one of which sends to groups: the numbers of
\* that one are asked for in a way of their own.
OneOrTwo ==
  {<<a>> : a \in Names}
  \cup UNION {{<<a, "SendGroup">>, <<"SendGroup", a>>} : a \in {"echo", "RestBroadcast", "sendToClient"}}

EachTransport == {<<"websockets">>, <<"longpolling">>, <<"serversentevents">>}

AllGroups == <<"small", "big", "tiny", "overlap">>
AllSizes  == <<"s256", "s2k", "s16k", "s128k">>
=============================================================================
