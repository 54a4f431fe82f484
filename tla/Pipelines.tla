------------------------------ MODULE Pipelines ------------------------------
(***************************************************************************)
(* The pipelines gen_complex_pipeline.py prints: for a transport, a        *)
(* scenario and a number of units, how many connections are opened, at     *)
(* what rate, and the steps the bench tool plays on them.  Each scenario   *)
(* file holds tables per unit and one function per unit with the text of   *)
(* its pipeline; the functions of units 3, 4 and 6 to 9 only raise.        *)
(*                                                                         *)
(* websocketsecho and its kin are the tables of the file of that name, its *)
(* Rounds the number of up/scenario pairs in the functions' texts.         *)
(***************************************************************************)
EXTENDS Naturals, Sequences

UnitSizes == <<1, 2, 5, 10, 20, 50, 100>>
Units     == {UnitSizes[i] : i \in DOMAIN UnitSizes}

\* The entry of unit u in a table {1:.., 2:.., 5:.., 10:.., 20:.., 50:.., 100:..}.
At(u, table) == table[CHOOSE i \in DOMAIN UnitSizes : UnitSizes[i] = u]

\* Connections of the websockets and server-sent events files, and their rate.
Connections(max, u) == IF max THEN 1500 * u ELSE 1000 * u
EvenRate(max, u)    == 200
SlowRate(max, u)    == IF max /\ u <= 5 THEN 100 ELSE 200

\* The long polling files have tables of their own.
PollConnections(max, u) ==
  IF max THEN At(u, <<750, 1500, 3000, 7500, 15000, 30000, 75000>>) ELSE 500 * u
PollRate(max, u) == IF u = 100 THEN 200 ELSE 100

Load(connection, rate, base, step) ==
  [connection |-> connection, concurrent |-> rate, base |-> base, step |-> step]

websocketsecho(max, u) ==
  Load(Connections(max, u), SlowRate(max, u),
       At(u, <<1000, 2000, 5000, 5000, 5000, 5000, 5000>>),
       IF max THEN At(u, <<500, 1000, 2500, 5000, 5000, 5000, 5000>>)
              ELSE At(u, <<0, 0, 0, 5000, 5000, 5000, 5000>>))
websocketsechoRounds == <<5, 5, 5, 6, 6, 17, 32>>

websocketsbroadcast(max, u) ==
  LET few == At(u, <<2, 2, 1, 1, 1, 1, 1>>)
  IN  Load(Connections(max, u), EvenRate(max, u), few, few)
websocketsbroadcastRounds == <<5, 5, 10, 8, 10, 6, 4>>

websocketsrestbroadcast(max, u) == Load(Connections(max, u), EvenRate(max, u), 1, 1)
websocketsrestbroadcastRounds == <<5, 5, 5, 5, 7, 6, 4>>

websocketsrestsendtouser(max, u) ==
  Load(Connections(max, u), EvenRate(max, u),
       At(u, <<10, 10, 50, 50, 100, 500, 500>>),
       At(u, <<10, 10, 20, 20, 50, 100, 1000>>))
websocketsrestsendtouserRounds == <<5, 5, 5, 6, 6, 11, 21>>

\* get_baseStep and get_step: the tables are looked up by the message size.
websocketssendtoclient(max, u, sz) ==
  LET base == [s256  |-> <<2000, 2000, 5000, 10000, 10000, 10000, 10000>>,
               s2k   |-> <<1200, 1200, 3000, 5000, 5000, 5000, 5000>>,
               s16k  |-> <<100, 100, 500, 1000, 1000, 1000, 1000>>,
               s128k |-> <<5, 5, 5, 30, 100, 200, 500>>]
      step == [s256  |-> <<200, 200, 1000, 1000, 1000, 1000, 1000>>,
               s2k   |-> <<100, 100, 1000, 1000, 1000, 2000, 2000>>,
               s16k  |-> <<100, 100, 200, 1000, 1000, 1000, 1000>>,
               s128k |-> <<5, 5, 5, 10, 50, 100, 100>>]
  IN  Load(Connections(max, u), SlowRate(max, u), At(u, base[sz]), At(u, step[sz]))
websocketssendtoclientRounds == <<9, 13, 13, 10, 17, 15, 21>>

\* get_group_baseStep and get_group_step, for small, big, tiny and overlap groups.
websocketssendgroup(max, u, g) ==
  LET base == [small   |-> <<300, 300, 500, 500, 1000, 3000, 3000>>,
               big     |-> <<20, 20, 10, 10, 10, 10, 10>>,
               tiny    |-> <<800, 1000, 2000, 3000, 3000, 5000, 5000>>,
               overlap |-> <<100, 100, 300, 500, 500, 3000, 3000>>]
      step == [small   |-> <<100, 100, 500, 500, 500, 1000, 1000>>,
               big     |-> <<5, 5, 10, 10, 10, 10, 10>>,
               tiny    |-> <<100, 100, 500, 1000, 1000, 1000, 1000>>,
               overlap |-> <<50, 50, 100, 100, 100, 1000, 1000>>]
  IN  Load(Connections(max, u), SlowRate(max, u), At(u, base[g]), At(u, step[g]))
websocketssendgroupRounds == <<8, 8, 8, 13, 12, 35, 27>>

\* Mutant: the table of small groups has no entries for the maximum.
SmallGroupsForgotten(max, u, g) ==
  CASE g = "small"   -> 100 * u
    [] g = "big"     -> 10
    [] g = "tiny"    -> IF max THEN 1500 * u ELSE 1000 * u
    [] g = "overlap" -> IF max THEN 15000 * u ELSE 10000 * u

\* get_group_number
GroupNumber(max, u, g) ==
  CASE g = "small"   -> IF max THEN 150 * u ELSE 100 * u
    [] g = "big"     -> 10
    [] g = "tiny"    -> IF max THEN 1500 * u ELSE 1000 * u
    [] g = "overlap" -> IF max THEN 15000 * u ELSE 10000 * u

longpollingecho(max, u) ==
  Load(PollConnections(max, u), PollRate(max, u),
       At(u, <<50, 50, 50, 50, 100, 500, 500>>), At(u, <<50, 50, 50, 50, 50, 500, 500>>))
longpollingechoRounds == <<10, 10, 6, 6, 6, 8, 8>>

longpollingbroadcast(max, u) == Load(PollConnections(max, u), PollRate(max, u), 1, 1)
longpollingbroadcastRounds == <<6, 6, 6, 6, 6, 6, 6>>

serversenteventsecho(max, u) ==
  Load(Connections(max, u), EvenRate(max, u),
       At(u, <<50, 50, 300, 500, 700, 2000, 5000>>),
       At(u, <<50, 50, 50, 50, 50, 100, 1000>>))
serversenteventsechoRounds == <<15, 15, 15, 17, 17, 12, 14>>

serversenteventsbroadcast(max, u) ==
  LET few == IF u = 10 THEN 2 ELSE 1
  IN  Load(Connections(max, u), EvenRate(max, u), few, few)
serversenteventsbroadcastRounds == <<6, 6, 6, 8, 8, 8, 9>>

-----------------------------------------------------------------------------
(* handleArgs: the function is found by the lower-case names.              *)

GroupTypes == {"small", "big", "tiny", "overlap"}
Sizes      == {"s256", "s2k", "s16k", "s128k"}

\* The files gen_complex_pipeline.py imports.
Supported ==
  ({"websockets"} \X {"echo", "broadcast", "SendGroup", "sendToClient",
                      "RestBroadcast", "RestSendToUser"})
  \cup ({"longpolling", "serversentevents"} \X {"echo", "broadcast"})

LoadOf(t, s, v, max, u) ==
  CASE t = "websockets" /\ s = "echo"           -> websocketsecho(max, u)
    [] t = "websockets" /\ s = "broadcast"      -> websocketsbroadcast(max, u)
    [] t = "websockets" /\ s = "RestBroadcast"  -> websocketsrestbroadcast(max, u)
    [] t = "websockets" /\ s = "RestSendToUser" -> websocketsrestsendtouser(max, u)
    [] t = "websockets" /\ s = "sendToClient"   -> websocketssendtoclient(max, u, v)
    [] t = "websockets" /\ s = "SendGroup"      -> websocketssendgroup(max, u, v)
    [] t = "longpolling" /\ s = "echo"          -> longpollingecho(max, u)
    [] t = "longpolling" /\ s = "broadcast"     -> longpollingbroadcast(max, u)
    [] t = "serversentevents" /\ s = "echo"     -> serversenteventsecho(max, u)
    [] t = "serversentevents" /\ s = "broadcast" -> serversenteventsbroadcast(max, u)

RoundsOf(t, s, u) ==
  At(u, CASE t = "websockets" /\ s = "echo"           -> websocketsechoRounds
          [] t = "websockets" /\ s = "broadcast"      -> websocketsbroadcastRounds
          [] t = "websockets" /\ s = "RestBroadcast"  -> websocketsrestbroadcastRounds
          [] t = "websockets" /\ s = "RestSendToUser" -> websocketsrestsendtouserRounds
          [] t = "websockets" /\ s = "sendToClient"   -> websocketssendtoclientRounds
          [] t = "websockets" /\ s = "SendGroup"      -> websocketssendgroupRounds
          [] t = "longpolling" /\ s = "echo"          -> longpollingechoRounds
          [] t = "longpolling" /\ s = "broadcast"     -> longpollingbroadcastRounds
          [] t = "serversentevents" /\ s = "echo"     -> serversenteventsechoRounds
          [] t = "serversentevents" /\ s = "broadcast" -> serversenteventsbroadcastRounds)

-----------------------------------------------------------------------------
(* The steps of a pipeline                                                 *)

Plain(op) == [op |-> op, n |-> 0]

Opening(s) ==
  CASE s \in {"RestBroadcast", "RestSendToUser"} ->
         <<Plain("createRestClientConn"), Plain("startRestClientConn")>>
    [] s = "SendGroup" ->
         <<Plain("createConn"), Plain("startConn"), Plain("joinGroup")>>
    [] OTHER -> <<Plain("createConn"), Plain("startConn")>>

\* Mutant: the groups are not left.
ClosingWithoutLeave(s) == <<Plain("stopConn"), Plain("disposeConn")>>

Closing(s) ==
  (IF s = "SendGroup" THEN <<Plain("leaveGroup")>> ELSE <<>>)
  \o <<Plain("stopConn"), Plain("disposeConn")>>

\* What extractAllSends finds in a pipeline: the senders each up adds.
Ups(t, s, v, max, u) ==
  LET load == LoadOf(t, s, v, max, u)
  IN  [i \in 1..RoundsOf(t, s, u) |-> IF i = 1 THEN load.base ELSE load.step]

\* Each up is followed by a scenario.
Pipeline(t, s, v, max, u) ==
  LET ups    == Ups(t, s, v, max, u)
      rounds == [i \in 1..(2 * Len(ups)) |->
                   IF i % 2 = 1 THEN [op |-> "up", n |-> ups[(i + 1) \div 2]]
                                ELSE Plain("scenario")]
  IN  Opening(s) \o rounds \o Closing(s)

\* The interval asked for with -i (0: none) reaches two of the files only.
IntervalOf(t, s, every) ==
  IF t = "websockets" /\ s \in {"echo", "broadcast"} /\ every > 0 THEN every ELSE 1
=============================================================================
