--------------------------- MODULE UnitBenchProofs ---------------------------
(* The runs of a service unit, for any lists of scenarios, transports, group  *)
(* types and message sizes and any of the units: every step of a pipeline     *)
(* applies where it is played, groups have the size their names say, and the  *)
(* report of a run shows what was played, and what an early stop left out.    *)
EXTENDS UnitBench, SequenceTheorems, TLAPS

-----------------------------------------------------------------------------
(* The tables *)

LEMMA AnEntry ==
  ASSUME NEW u \in Units
  PROVE  /\ u \in Nat \ {0}
         /\ \E i \in 1 .. 7 : \A table : At(u, table) = table[i]
<1>1. UnitSizes = <<1, 2, 5, 10, 20, 50, 100>> /\ DOMAIN UnitSizes = 1 .. 7
  BY DEF UnitSizes
<1>2. u \in Nat \ {0}  BY <1>1 DEF Units
<1>3. \E i \in 1 .. 7 : UnitSizes[i] = u  BY <1>1 DEF Units
<1>4. (CHOOSE i \in DOMAIN UnitSizes : UnitSizes[i] = u) \in 1 .. 7  BY <1>1, <1>3
<1> QED  BY <1>2, <1>4 DEF At

\* A load with at least one sender at the start.
Loads == [connection : Nat, concurrent : Nat, base : Nat \ {0}, step : Nat]

LEMMA LoadType ==
  ASSUME NEW c \in Nat, NEW r \in Nat, NEW b \in Nat \ {0}, NEW s \in Nat
  PROVE  Load(c, r, b, s) \in Loads
BY DEF Load, Loads

LEMMA RateTypes ==
  ASSUME NEW u \in Units, NEW max \in BOOLEAN
  PROVE  /\ Connections(max, u) \in Nat /\ PollConnections(max, u) \in Nat
         /\ EvenRate(max, u) \in Nat /\ SlowRate(max, u) \in Nat /\ PollRate(max, u) \in Nat
<1>1. u \in Nat  BY AnEntry
<1>2. PICK i \in 1 .. 7 : \A table : At(u, table) = table[i]  BY AnEntry
<1>3. <<750, 1500, 3000, 7500, 15000, 30000, 75000>>[i] \in Nat  BY <1>2
<1> QED  BY <1>1, <1>2, <1>3 DEF Connections, PollConnections, EvenRate, SlowRate, PollRate

\* The variants a scenario has an entry for.
Known(s, v) == (s = "SendGroup" => v \in GroupTypes) /\ (s = "sendToClient" => v \in Sizes)

LEMMA LoadsKnown ==
  ASSUME NEW t, NEW s, <<t, s>> \in Supported, NEW v, Known(s, v),
         NEW max \in BOOLEAN, NEW u \in Units
  PROVE  LoadOf(t, s, v, max, u) \in Loads
<1> DEFINE C == Connections(max, u)
           P == PollConnections(max, u)
<1>1. u \in Nat  BY AnEntry
<1>2. PICK i \in 1 .. 7 : \A table : At(u, table) = table[i]  BY AnEntry
<1>3. /\ C \in Nat /\ P \in Nat
      /\ EvenRate(max, u) \in Nat /\ SlowRate(max, u) \in Nat /\ PollRate(max, u) \in Nat
  BY RateTypes
<1> HIDE DEF C, P
<1>4. CASE t = "websockets" /\ s = "echo"
  <2>1. websocketsecho(max, u) \in Loads
    BY <1>2, <1>3, LoadType DEF websocketsecho, C
  <2> QED  BY <1>4, <2>1 DEF LoadOf
<1>5. CASE t = "websockets" /\ s = "broadcast"
  <2>1. websocketsbroadcast(max, u) \in Loads
    BY <1>2, <1>3, LoadType DEF websocketsbroadcast, C
  <2> QED  BY <1>5, <2>1 DEF LoadOf
<1>6. CASE t = "websockets" /\ s = "RestBroadcast"
  <2>1. websocketsrestbroadcast(max, u) \in Loads
    BY <1>3, LoadType DEF websocketsrestbroadcast, C
  <2> QED  BY <1>6, <2>1 DEF LoadOf
<1>7. CASE t = "websockets" /\ s = "RestSendToUser"
  <2>1. websocketsrestsendtouser(max, u) \in Loads
    BY <1>2, <1>3, LoadType DEF websocketsrestsendtouser, C
  <2> QED  BY <1>7, <2>1 DEF LoadOf
<1>8. CASE t = "websockets" /\ s = "sendToClient"
  <2>1. v \in {"s256", "s2k", "s16k", "s128k"}  BY <1>8 DEF Known, Sizes
  <2>2. ASSUME NEW b \in Nat \ {0}, NEW d \in Nat PROVE Load(C, SlowRate(max, u), b, d) \in Loads
    BY <1>3, LoadType
  <2> DEFINE W == websocketssendtoclient(max, u, v)
             L(b, d) == Load(C, SlowRate(max, u), b[i], d[i])
  <2>3. W \in Loads
    <3>1. CASE v = "s256"
      <4>1. W = L(<<2000, 2000, 5000, 10000, 10000, 10000, 10000>>,
                  <<200, 200, 1000, 1000, 1000, 1000, 1000>>)
        BY <1>2, <3>1 DEF websocketssendtoclient, C
      <4> QED  BY <2>2, <4>1
    <3>2. CASE v = "s2k"
      <4>1. W = L(<<1200, 1200, 3000, 5000, 5000, 5000, 5000>>,
                  <<100, 100, 1000, 1000, 1000, 2000, 2000>>)
        BY <1>2, <3>2 DEF websocketssendtoclient, C
      <4> QED  BY <2>2, <4>1
    <3>3. CASE v = "s16k"
      <4>1. W = L(<<100, 100, 500, 1000, 1000, 1000, 1000>>,
                  <<100, 100, 200, 1000, 1000, 1000, 1000>>)
        BY <1>2, <3>3 DEF websocketssendtoclient, C
      <4> QED  BY <2>2, <4>1
    <3>4. CASE v = "s128k"
      <4>1. W = L(<<5, 5, 5, 30, 100, 200, 500>>, <<5, 5, 5, 10, 50, 100, 100>>)
        BY <1>2, <3>4 DEF websocketssendtoclient, C
      <4> QED  BY <2>2, <4>1
    <3> QED  BY <2>1, <3>1, <3>2, <3>3, <3>4
  <2> QED  BY <1>8, <2>3 DEF LoadOf
<1>9. CASE t = "websockets" /\ s = "SendGroup"
  <2>1. v \in {"small", "big", "tiny", "overlap"}  BY <1>9 DEF Known, GroupTypes
  <2>2. websocketssendgroup(max, u, v) \in Loads
    BY <1>2, <1>3, <2>1, LoadType, SMTT(30) DEF websocketssendgroup, C
  <2> QED  BY <1>9, <2>2 DEF LoadOf
<1>10. CASE t = "longpolling" /\ s = "echo"
  <2>1. longpollingecho(max, u) \in Loads
    BY <1>2, <1>3, LoadType DEF longpollingecho, P
  <2> QED  BY <1>10, <2>1 DEF LoadOf
<1>11. CASE t = "longpolling" /\ s = "broadcast"
  <2>1. longpollingbroadcast(max, u) \in Loads
    BY <1>3, LoadType DEF longpollingbroadcast, P
  <2> QED  BY <1>11, <2>1 DEF LoadOf
<1>12. CASE t = "serversentevents" /\ s = "echo"
  <2>1. serversenteventsecho(max, u) \in Loads
    BY <1>2, <1>3, LoadType DEF serversenteventsecho, C
  <2> QED  BY <1>12, <2>1 DEF LoadOf
<1>13. CASE t = "serversentevents" /\ s = "broadcast"
  <2>1. serversenteventsbroadcast(max, u) \in Loads
    BY <1>3, LoadType DEF serversenteventsbroadcast, C
  <2> QED  BY <1>13, <2>1 DEF LoadOf
<1> QED
  BY <1>4, <1>5, <1>6, <1>7, <1>8, <1>9, <1>10, <1>11, <1>12, <1>13 DEF Supported

LEMMA RoundsKnown ==
  ASSUME NEW t, NEW s, <<t, s>> \in Supported, NEW u \in Units
  PROVE  RoundsOf(t, s, u) \in Nat \ {0}
<1>1. PICK i \in 1 .. 7 : \A table : At(u, table) = table[i]  BY AnEntry
<1> DEFINE R(f) == f[i] \in Nat \ {0}
<1>2. /\ R(websocketsechoRounds) /\ R(websocketsbroadcastRounds)
      /\ R(websocketsrestbroadcastRounds) /\ R(websocketsrestsendtouserRounds)
      /\ R(websocketssendtoclientRounds) /\ R(websocketssendgroupRounds)
      /\ R(longpollingechoRounds) /\ R(longpollingbroadcastRounds)
      /\ R(serversenteventsechoRounds) /\ R(serversenteventsbroadcastRounds)
  BY DEF websocketsechoRounds, websocketsbroadcastRounds, websocketsrestbroadcastRounds,
         websocketsrestsendtouserRounds, websocketssendtoclientRounds, websocketssendgroupRounds,
         longpollingechoRounds, longpollingbroadcastRounds, serversenteventsechoRounds,
         serversenteventsbroadcastRounds
<1>3. \E f : RoundsOf(t, s, u) = f[i] /\ R(f)
  BY <1>1, <1>2 DEF RoundsOf, Supported
<1> QED  BY <1>3

-----------------------------------------------------------------------------
(* The steps of a pipeline *)

\* One more step joins the groups, and one more leaves them.
Grouped(s) == IF s = "SendGroup" THEN 1 ELSE 0

\* The positions of a pipeline before its rounds, and up to the last of them.
Opened(s)       == 2 + Grouped(s)
Raised(t, s, u) == Opened(s) + 2 * RoundsOf(t, s, u)

LEMMA UpsType ==
  ASSUME NEW t, NEW s, <<t, s>> \in Supported, NEW v, Known(s, v),
         NEW max \in BOOLEAN, NEW u \in Units
  PROVE  /\ Ups(t, s, v, max, u) \in Seq(Nat)
         /\ Len(Ups(t, s, v, max, u)) = RoundsOf(t, s, u)
         /\ Ups(t, s, v, max, u)[1] > 0
<1> DEFINE n == RoundsOf(t, s, u)
           load == LoadOf(t, s, v, max, u)
<1>1. n \in Nat \ {0}  BY RoundsKnown
<1>2. load.base \in Nat \ {0} /\ load.step \in Nat  BY LoadsKnown DEF Loads
<1>3. Ups(t, s, v, max, u) = [i \in 1 .. n |-> IF i = 1 THEN load.base ELSE load.step]
  BY DEF Ups
<1> HIDE DEF n, load
<1>4. Ups(t, s, v, max, u) \in [1 .. n -> Nat]  BY <1>1, <1>2, <1>3
<1>5. Ups(t, s, v, max, u) \in Seq(Nat) /\ Len(Ups(t, s, v, max, u)) = n
  BY <1>1, <1>4
<1>6. Ups(t, s, v, max, u)[1] > 0  BY <1>1, <1>2, <1>3
<1> QED  BY <1>5, <1>6 DEF n

LEMMA TwoParts ==
  ASSUME NEW X, NEW a \in Seq(X), NEW b \in Seq(X)
  PROVE  /\ a \o b \in Seq(X) /\ Len(a \o b) = Len(a) + Len(b)
         /\ \A i \in 1 .. Len(a) : (a \o b)[i] = a[i]
         /\ \A i \in 1 .. Len(b) : (a \o b)[Len(a) + i] = b[i]
<1>1. Len(a) \in Nat /\ Len(b) \in Nat  BY LenProperties
<1>2. /\ a \o b \in Seq(X) /\ Len(a \o b) = Len(a) + Len(b)
      /\ \A i \in 1 .. Len(a) + Len(b) :
            (a \o b)[i] = IF i <= Len(a) THEN a[i] ELSE b[i - Len(a)]
  BY ConcatProperties
<1> QED  BY <1>1, <1>2

LEMMA ThreeParts ==
  ASSUME NEW X, NEW a \in Seq(X), NEW b \in Seq(X), NEW c \in Seq(X)
  PROVE  /\ Len(a \o b \o c) = Len(a) + Len(b) + Len(c)
         /\ \A i \in 1 .. Len(a) : (a \o b \o c)[i] = a[i]
         /\ \A i \in 1 .. Len(b) : (a \o b \o c)[Len(a) + i] = b[i]
         /\ \A i \in 1 .. Len(c) : (a \o b \o c)[Len(a) + Len(b) + i] = c[i]
<1> DEFINE d == a \o b
<1>1. d \in Seq(X)  BY TwoParts
<1>2. /\ Len(d) = Len(a) + Len(b)
      /\ \A i \in 1 .. Len(a) : d[i] = a[i]
      /\ \A i \in 1 .. Len(b) : d[Len(a) + i] = b[i]
  BY TwoParts
<1> HIDE DEF d
<1>3. /\ \A i \in 1 .. Len(d) : (d \o c)[i] = d[i]
      /\ \A i \in 1 .. Len(c) : (d \o c)[Len(d) + i] = c[i]
      /\ Len(d \o c) = Len(d) + Len(c)
  BY <1>1, TwoParts
<1>4. Len(a) \in Nat /\ Len(b) \in Nat /\ Len(c) \in Nat  BY LenProperties
<1>5. \A i \in 1 .. Len(a) : (d \o c)[i] = a[i]
  <2>1. \A i \in 1 .. Len(a) : i \in 1 .. Len(d)  BY <1>2, <1>4
  <2> QED  BY <1>2, <1>3, <2>1
<1>6. \A i \in 1 .. Len(b) : (d \o c)[Len(a) + i] = b[i]
  <2>1. \A i \in 1 .. Len(b) : Len(a) + i \in 1 .. Len(d)  BY <1>2, <1>4
  <2> QED  BY <1>2, <1>3, <2>1
<1> QED  BY <1>2, <1>3, <1>5, <1>6 DEF d

\* The operations without a number.
Ops == {"createConn", "createRestClientConn", "startConn", "startRestClientConn", "joinGroup",
        "scenario", "leaveGroup", "stopConn", "disposeConn"}

LEMMA OpeningSteps ==
  ASSUME NEW X, NEW s, \A op \in Ops : Plain(op) \in X
  PROVE  /\ Opening(s) \in Seq(X) /\ Len(Opening(s)) = IF s = "SendGroup" THEN 3 ELSE 2
         /\ Opening(s)[1].op \in {"createConn", "createRestClientConn"}
         /\ Opening(s)[2].op \in {"startConn", "startRestClientConn"}
         /\ s = "SendGroup" => Opening(s)[3].op = "joinGroup"
<1> DEFINE a == Opening(s)
<1>1. CASE s = "SendGroup"
  <2>1. a = <<Plain("createConn"), Plain("startConn"), Plain("joinGroup")>>  BY <1>1 DEF Opening
  <2> HIDE DEF a
  <2>2. a \in Seq(X) /\ Len(a) = 3  BY <2>1 DEF Ops
  <2>3. a[1] = Plain("createConn") /\ a[2] = Plain("startConn") /\ a[3] = Plain("joinGroup")  BY <2>1
  <2>4. a[1].op = "createConn" /\ a[2].op = "startConn" /\ a[3].op = "joinGroup"  BY <2>3 DEF Plain
  <2> QED  BY <1>1, <2>2, <2>4 DEF a
<1>2. CASE s \in {"RestBroadcast", "RestSendToUser"}
  <2>1. a = <<Plain("createRestClientConn"), Plain("startRestClientConn")>>  BY <1>2 DEF Opening
  <2> HIDE DEF a
  <2>2. a \in Seq(X) /\ Len(a) = 2  BY <2>1 DEF Ops
  <2>3. a[1] = Plain("createRestClientConn") /\ a[2] = Plain("startRestClientConn")  BY <2>1
  <2>4. a[1].op = "createRestClientConn" /\ a[2].op = "startRestClientConn"  BY <2>3 DEF Plain
  <2> QED  BY <1>2, <2>2, <2>4 DEF a
<1>3. CASE s \notin {"SendGroup", "RestBroadcast", "RestSendToUser"}
  <2>1. a = <<Plain("createConn"), Plain("startConn")>>  BY <1>3 DEF Opening
  <2> HIDE DEF a
  <2>2. a \in Seq(X) /\ Len(a) = 2  BY <2>1 DEF Ops
  <2>3. a[1] = Plain("createConn") /\ a[2] = Plain("startConn")  BY <2>1
  <2>4. a[1].op = "createConn" /\ a[2].op = "startConn"  BY <2>3 DEF Plain
  <2> QED  BY <1>3, <2>2, <2>4 DEF a
<1> QED  BY <1>1, <1>2, <1>3

LEMMA ClosingSteps ==
  ASSUME NEW X, NEW s, \A op \in Ops : Plain(op) \in X
  PROVE  /\ Closing(s) \in Seq(X) /\ Len(Closing(s)) = 2 + Grouped(s)
         /\ s = "SendGroup" => Closing(s)[1].op = "leaveGroup"
         /\ Closing(s)[Grouped(s) + 1].op = "stopConn"
         /\ Closing(s)[Grouped(s) + 2].op = "disposeConn"
<1> DEFINE e == <<Plain("stopConn"), Plain("disposeConn")>>
           f == <<Plain("leaveGroup")>>
           c == Closing(s)
<1>1. e \in Seq(X) /\ Len(e) = 2
  <2>1. Plain("stopConn") \in X /\ Plain("disposeConn") \in X  BY DEF Ops
  <2> QED  BY <2>1
<1>2. f \in Seq(X) /\ Len(f) = 1
  <2>1. Plain("leaveGroup") \in X  BY DEF Ops
  <2> QED  BY <2>1
<1>3. /\ e[1].op = "stopConn" /\ e[2].op = "disposeConn"
      /\ f[1].op = "leaveGroup"
  BY DEF Plain
<1>4. c = (IF s = "SendGroup" THEN f ELSE <<>>) \o e  BY DEF Closing
<1> HIDE DEF e, f, c
<1>5. CASE s = "SendGroup"
  <2>1. c = f \o e  BY <1>4, <1>5
  <2>2. /\ f \o e \in Seq(X) /\ Len(f \o e) = Len(f) + Len(e)
        /\ \A i \in 1 .. Len(f) : (f \o e)[i] = f[i]
        /\ \A i \in 1 .. Len(e) : (f \o e)[Len(f) + i] = e[i]
    <3>1. f \in Seq(X) /\ e \in Seq(X)  BY <1>1, <1>2
    <3> QED  BY <3>1, TwoParts
  <2>3. c \in Seq(X)  BY <2>1, <2>2
  <2>4. Len(c) = 3 /\ c[1] = f[1] /\ c[2] = e[1] /\ c[3] = e[2]
    <3>1. Len(f) = 1 /\ Len(e) = 2  BY <1>1, <1>2
    <3> QED  BY <2>1, <2>2, <3>1
  <2> QED  BY <1>3, <1>5, <2>3, <2>4 DEF Grouped, c
<1>6. CASE s # "SendGroup"
  <2>1. c = <<>> \o e  BY <1>4, <1>6
  <2>2. c = e  BY <1>1, <2>1, ConcatEmptySeq
  <2>3. c \in Seq(X) /\ Len(c) = 2  BY <1>1, <2>2
  <2> QED  BY <1>3, <1>6, <2>2, <2>3 DEF Grouped, c
<1> QED  BY <1>5, <1>6

LEMMA PipelineSteps ==
  ASSUME NEW t, NEW s, <<t, s>> \in Supported, NEW v, Known(s, v),
         NEW max \in BOOLEAN, NEW u \in Units
  PROVE  LET P == Pipeline(t, s, v, max, u)
             g == Grouped(s)
             o == Opened(s)
             r == Raised(t, s, u)
         IN  /\ Len(P) = r + 2 + g
             /\ P[1].op \in {"createConn", "createRestClientConn"}
             /\ P[2].op \in {"startConn", "startRestClientConn"}
             /\ g = 1 => P[3].op = "joinGroup" /\ P[r + 1].op = "leaveGroup"
             /\ \A i \in 1 .. RoundsOf(t, s, u) :
                   /\ P[o + 2 * i - 1] = [op |-> "up", n |-> Ups(t, s, v, max, u)[i]]
                   /\ P[o + 2 * i].op = "scenario"
             /\ P[r + g + 1].op = "stopConn" /\ P[r + g + 2].op = "disposeConn"
<1> DEFINE n == RoundsOf(t, s, u)
           ups == Ups(t, s, v, max, u)
           up(i) == [op |-> "up", n |-> ups[i]]
           X == {Plain(op) : op \in Ops} \cup {up(i) : i \in 1 .. n}
           a == Opening(s)
           b == [i \in 1..(2 * n) |-> IF i % 2 = 1 THEN [op |-> "up", n |-> ups[(i + 1) \div 2]]
                                                 ELSE Plain("scenario")]
           c == Closing(s)
<1>1. n \in Nat \ {0}  BY RoundsKnown
<1>2. Len(ups) = n  BY UpsType
<1>3. Pipeline(t, s, v, max, u) = a \o b \o c  BY <1>2 DEF Pipeline
<1>4. (\A op \in Ops : Plain(op) \in X) /\ \A i \in 1 .. n : up(i) \in X  OBVIOUS
<1> HIDE DEF X
<1>5. /\ a \in Seq(X) /\ Len(a) = Opened(s)
      /\ a[1].op \in {"createConn", "createRestClientConn"}
      /\ a[2].op \in {"startConn", "startRestClientConn"}
      /\ Grouped(s) = 1 => a[3].op = "joinGroup"
  BY <1>4, OpeningSteps DEF Opened, Grouped
<1>6. /\ c \in Seq(X) /\ Len(c) = 2 + Grouped(s)
      /\ Grouped(s) = 1 => c[1].op = "leaveGroup"
      /\ c[Grouped(s) + 1].op = "stopConn" /\ c[Grouped(s) + 2].op = "disposeConn"
  <2>1. c \in Seq(X) /\ Len(c) = 2 + Grouped(s)  BY <1>4, ClosingSteps
  <2>2. c[Grouped(s) + 1].op = "stopConn" /\ c[Grouped(s) + 2].op = "disposeConn"
    BY <1>4, ClosingSteps
  <2>3. Grouped(s) = 1 => c[1].op = "leaveGroup"  BY <1>4, ClosingSteps DEF Grouped
  <2> QED  BY <2>1, <2>2, <2>3
<1> HIDE DEF n, a, c
<1>7. /\ b \in Seq(X) /\ Len(b) = 2 * n
      /\ \A i \in 1 .. n : b[2 * i - 1] = up(i) /\ b[2 * i] = Plain("scenario")
  <2>1. \A i \in 1 .. (2 * n) : i % 2 = 1 => (i + 1) \div 2 \in 1 .. n
    BY <1>1
  <2>2. b = [i \in 1 .. (2 * n) |-> IF i % 2 = 1 THEN up((i + 1) \div 2) ELSE Plain("scenario")]
    OBVIOUS
  <2> HIDE DEF b, up
  <2>3. b \in [1 .. (2 * n) -> X]
    <3>1. Plain("scenario") \in X  BY <1>4 DEF Ops
    <3> QED  BY <1>4, <2>1, <2>2, <3>1
  <2>4. b \in Seq(X) /\ Len(b) = 2 * n  BY <1>1, <2>3
  <2>5. ASSUME NEW i \in 1 .. n
        PROVE  b[2 * i - 1] = up(i) /\ b[2 * i] = Plain("scenario")
    <3>1. /\ 2 * i - 1 \in 1 .. (2 * n) /\ 2 * i \in 1 .. (2 * n)
          /\ (2 * i - 1) % 2 = 1 /\ (2 * i) % 2 = 0
          /\ ((2 * i - 1) + 1) \div 2 = i
      BY <1>1
    <3> QED  BY <2>2, <3>1
  <2> QED  BY <2>4, <2>5
<1> HIDE DEF b, up
<1>8. Grouped(s) \in {0, 1} /\ Opened(s) = 2 + Grouped(s) /\ Raised(t, s, u) = Opened(s) + 2 * n
  BY DEF Grouped, Opened, Raised, n
<1>9. /\ Len(a \o b \o c) = Len(a) + Len(b) + Len(c)
      /\ \A i \in 1 .. Len(a) : (a \o b \o c)[i] = a[i]
      /\ \A i \in 1 .. Len(b) : (a \o b \o c)[Len(a) + i] = b[i]
      /\ \A i \in 1 .. Len(c) : (a \o b \o c)[Len(a) + Len(b) + i] = c[i]
  <2>1. a \in Seq(X) /\ b \in Seq(X) /\ c \in Seq(X)  BY <1>5, <1>6, <1>7
  <2> QED  BY <2>1, ThreeParts
<1> DEFINE P == Pipeline(t, s, v, max, u)
           g == Grouped(s)
           o == Opened(s)
           r == Raised(t, s, u)
<1>10. P = a \o b \o c  BY <1>3 DEF a, b, c
<1>11. /\ Len(P) = Len(a) + Len(b) + Len(c)
       /\ \A i \in 1 .. Len(a) : P[i] = a[i]
       /\ \A i \in 1 .. Len(b) : P[Len(a) + i] = b[i]
       /\ \A i \in 1 .. Len(c) : P[Len(a) + Len(b) + i] = c[i]
  BY <1>9, <1>10
<1>12. Len(a) = o /\ Len(b) = 2 * n /\ Len(c) = 2 + g  BY <1>5, <1>6, <1>7
<1> HIDE DEF P
<1>13. /\ Len(P) = r + 2 + g
       /\ P[1] = a[1] /\ P[2] = a[2] /\ (g = 1 => P[3] = a[3])
       /\ \A i \in 1 .. (2 * n) : P[o + i] = b[i]
       /\ (g = 1 => P[r + 1] = c[1]) /\ P[r + g + 1] = c[g + 1] /\ P[r + g + 2] = c[g + 2]
  <2>1. g \in {0, 1} /\ o = 2 + g /\ r = o + 2 * n /\ n \in Nat /\ o \in Nat /\ r \in Nat
    BY <1>1, <1>8
  <2> HIDE DEF g, o, r
  <2>2. /\ Len(P) = o + 2 * n + (2 + g)
        /\ \A i \in 1 .. o : P[i] = a[i]
        /\ \A i \in 1 .. (2 * n) : P[o + i] = b[i]
        /\ \A i \in 1 .. (2 + g) : P[o + 2 * n + i] = c[i]
    BY <1>11, <1>12
  <2>3. g + 1 \in 1 .. (2 + g) /\ g + 2 \in 1 .. (2 + g) /\ 1 \in 1 .. (2 + g)
        /\ 1 \in 1 .. o /\ 2 \in 1 .. o /\ (g = 1 => 3 \in 1 .. o)
    BY <2>1
  <2>4. P[o + 2 * n + (g + 1)] = c[g + 1] /\ P[o + 2 * n + (g + 2)] = c[g + 2]
        /\ P[o + 2 * n + 1] = c[1]
    BY <2>2, <2>3
  <2>5. /\ o + 2 * n + (g + 1) = r + g + 1 /\ o + 2 * n + (g + 2) = r + g + 2
        /\ o + 2 * n + 1 = r + 1 /\ o + 2 * n + (2 + g) = r + 2 + g
    BY <2>1
  <2>6. P[1] = a[1] /\ P[2] = a[2] /\ (g = 1 => P[3] = a[3])  BY <2>2, <2>3
  <2> QED  BY <2>2, <2>4, <2>5, <2>6
<1>14. ASSUME NEW i \in 1 .. n
       PROVE  P[o + 2 * i - 1] = up(i) /\ P[o + 2 * i] = Plain("scenario")
  <2>1. /\ 2 * i - 1 \in 1 .. (2 * n) /\ 2 * i \in 1 .. (2 * n)
        /\ o + (2 * i - 1) = o + 2 * i - 1
    BY <1>1, <1>8
  <2> QED  BY <1>7, <1>13, <2>1
<1>15. \A i \in 1 .. n : P[o + 2 * i - 1] = up(i) /\ P[o + 2 * i].op = "scenario"
  BY <1>14 DEF Plain
<1> QED  BY <1>5, <1>6, <1>13, <1>15 DEF P, n, up

-----------------------------------------------------------------------------
(* The inductive invariant *)

\* What the shell asked for is what is in job.yaml, and the tool plays only then.
Asked ==
  /\ job.steps \in Nat
  /\ pc # "bench" => pos = 0
  /\ pc = "bench" =>
        /\ <<T, S>> \in Supported /\ job = JobConfig
        /\ connection = job.connection /\ concurrent = job.concurrent
        /\ send = Ups(T, S, V, useMax, unit)

\* The ups before position p, when the pipeline opens with o steps and has n rounds.
UpsBefore(p, o, n) == IF p <= o THEN 0 ELSE IF p <= o + 2 * n THEN (p - o) \div 2 ELSE n

\* How many ups have been played before position p: those of the rounds before it,
\* or fewer than n when the sending was cut, which takes it beyond the rounds.
Raises(k, m, p, o, n) == IF k THEN p > o + 2 * n /\ m < n ELSE m = UpsBefore(p, o, n)

\* Where the clients are before each step of the pipeline.
Placed ==
  pc = "bench" /\ pos > 0 =>
    LET g == Grouped(S)
        o == Opened(S)
        r == Raised(T, S, unit)
    IN  /\ conns = IF pos = 1 THEN "none" ELSE IF pos = 2 THEN "created"
                   ELSE IF pos <= r + g + 1 THEN "started"
                   ELSE IF pos = r + g + 2 THEN "stopped" ELSE "disposed"
        /\ joined <=> (g = 1 /\ pos > 3 /\ pos <= r + 1)
        /\ Raises(cut, Len(played), pos, o, RoundsOf(T, S, unit))
        /\ \A i \in 1 .. Len(played) : played[i] = send[i]
        /\ Len(played) > 0 => sending > 0

Inv == TypeOK /\ scenarios \in ScenarioLists /\ transports \in TransportLists
       /\ Asked /\ GroupsAsNamed /\ Placed

LEMMA VariantKnown ==
  ASSUME TypeOK
  PROVE  Known(S, V) /\ unit \in Units /\ useMax \in BOOLEAN
<1>1. unit \in Units /\ useMax \in BOOLEAN  BY UnitBenchAssumption DEF TypeOK
<1>2. CASE S = "SendGroup"
  <2>1. Variants(S) = GroupTypeList  BY <1>2 DEF Variants
  <2>2. V \in GroupTypes  BY <2>1, UnitBenchAssumption, ElementOfSeq DEF TypeOK, V
  <2> QED  BY <1>1, <1>2, <2>2 DEF Known
<1>3. CASE S = "sendToClient"
  <2>1. Variants(S) = SizeList  BY <1>3 DEF Variants
  <2>2. V \in Sizes  BY <2>1, UnitBenchAssumption, ElementOfSeq DEF TypeOK, V
  <2> QED  BY <1>1, <1>3, <2>2 DEF Known
<1>4. CASE S # "SendGroup" /\ S # "sendToClient"  BY <1>1, <1>4 DEF Known
<1> QED  BY <1>2, <1>3, <1>4

\* A pipeline of n rounds, with a step more at either end where g is 1.
LEMMA EachPosition ==
  ASSUME NEW g \in {0, 1}, NEW n \in Nat \ {0}, NEW p \in 1 .. (2 + g + 2 * n + 2 + g)
  PROVE  LET o == 2 + g
             r == o + 2 * n
         IN  \/ p = 1 \/ p = 2 \/ (g = 1 /\ p = 3)
             \/ \E i \in 1 .. n : p = o + 2 * i - 1 \/ p = o + 2 * i
             \/ g = 1 /\ p = r + 1
             \/ p = r + g + 1 \/ p = r + g + 2
<1> DEFINE o == 2 + g
           r == o + 2 * n
<1>1. CASE p \in o + 1 .. r
  <2> DEFINE i == (p - o + 1) \div 2
  <2>1. i \in 1 .. n /\ (p = o + 2 * i - 1 \/ p = o + 2 * i)
    BY <1>1
  <2> QED  BY <2>1
<1>2. CASE p <= o
  <2>1. p \in Nat /\ p >= 1 /\ p <= 2 + g  BY <1>2
  <2>2. CASE g = 0
    <3>1. p = 1 \/ p = 2  BY <2>1, <2>2
    <3> QED  BY <3>1
  <2>3. CASE g = 1
    <3>1. p = 1 \/ p = 2 \/ p = 3  BY <2>1, <2>3
    <3> QED  BY <2>3, <3>1
  <2> QED  BY <2>2, <2>3
<1>3. CASE p > r  BY <1>3
<1> QED  BY <1>1, <1>2, <1>3

\* The numbers of the pipeline that is played.
LEMMA Measures ==
  ASSUME Inv, pc = "bench"
  PROVE  /\ Grouped(S) \in {0, 1} /\ (Grouped(S) = 1 <=> S = "SendGroup")
         /\ Opened(S) = 2 + Grouped(S)
         /\ RoundsOf(T, S, unit) \in Nat \ {0}
         /\ Raised(T, S, unit) = Opened(S) + 2 * RoundsOf(T, S, unit)
         /\ job.steps = Raised(T, S, unit) + 2 + Grouped(S)
         /\ send \in Seq(Nat) /\ Len(send) = RoundsOf(T, S, unit) /\ send[1] > 0
<1>1. <<T, S>> \in Supported /\ Known(S, V) /\ unit \in Units /\ useMax \in BOOLEAN
  BY VariantKnown DEF Inv, Asked
<1>2. job.steps = Len(Pipeline(T, S, V, useMax, unit))  BY DEF Inv, Asked, JobConfig
<1>3. send = Ups(T, S, V, useMax, unit)  BY DEF Inv, Asked
<1>4. RoundsOf(T, S, unit) \in Nat \ {0}  BY <1>1, RoundsKnown
<1>5. job.steps = Raised(T, S, unit) + 2 + Grouped(S)  BY <1>1, <1>2, PipelineSteps
<1>6. send \in Seq(Nat) /\ Len(send) = RoundsOf(T, S, unit) /\ send[1] > 0
  BY <1>1, <1>3, UpsType
<1> QED  BY <1>4, <1>5, <1>6 DEF Grouped, Opened, Raised

\* Which step is played at which position.
LEMMA StepAt ==
  ASSUME Inv, pc = "bench", pos \in 1 .. job.steps
  PROVE  LET g == Grouped(S)
             o == Opened(S)
             r == Raised(T, S, unit)
         IN  \/ pos = 1 /\ Step.op \in {"createConn", "createRestClientConn"}
             \/ pos = 2 /\ Step.op \in {"startConn", "startRestClientConn"}
             \/ g = 1 /\ pos = 3 /\ Step.op = "joinGroup"
             \/ \E i \in 1 .. RoundsOf(T, S, unit) :
                   \/ pos = o + 2 * i - 1 /\ Step.op = "up" /\ Step.n = send[i]
                   \/ pos = o + 2 * i /\ Step.op = "scenario"
             \/ g = 1 /\ pos = r + 1 /\ Step.op = "leaveGroup"
             \/ pos = r + g + 1 /\ Step.op = "stopConn"
             \/ pos = r + g + 2 /\ Step.op = "disposeConn"
<1> DEFINE g == Grouped(S)
           o == Opened(S)
           n == RoundsOf(T, S, unit)
           r == Raised(T, S, unit)
           P == Pipeline(T, S, V, useMax, unit)
           ups == Ups(T, S, V, useMax, unit)
<1>1. <<T, S>> \in Supported /\ Known(S, V) /\ unit \in Units /\ useMax \in BOOLEAN
  BY VariantKnown DEF Inv, Asked
<1>2. Step = P[pos] /\ send = ups  BY DEF Inv, Asked, JobConfig, Step
<1>3. g \in {0, 1} /\ n \in Nat \ {0} /\ o = 2 + g /\ r = o + 2 * n /\ job.steps = r + 2 + g
  BY Measures
<1>4. /\ P[1].op \in {"createConn", "createRestClientConn"}
      /\ P[2].op \in {"startConn", "startRestClientConn"}
      /\ g = 1 => P[3].op = "joinGroup" /\ P[r + 1].op = "leaveGroup"
      /\ \A i \in 1 .. n : /\ P[o + 2 * i - 1] = [op |-> "up", n |-> ups[i]]
                          /\ P[o + 2 * i].op = "scenario"
      /\ P[r + g + 1].op = "stopConn" /\ P[r + g + 2].op = "disposeConn"
  BY <1>1, PipelineSteps
<1> HIDE DEF g, o, n, r, P, ups
<1>5. \A i \in 1 .. n : P[o + 2 * i - 1].op = "up" /\ P[o + 2 * i - 1].n = ups[i]
  <2> SUFFICES ASSUME NEW i \in 1 .. n
               PROVE  P[o + 2 * i - 1].op = "up" /\ P[o + 2 * i - 1].n = ups[i]
    OBVIOUS
  <2> DEFINE m == ups[i]
  <2>1. P[o + 2 * i - 1] = [op |-> "up", n |-> m]  BY <1>4
  <2> HIDE DEF m
  <2> QED  BY <2>1 DEF m
<1>6. pos \in 1 .. (2 + g + 2 * n + 2 + g)  BY <1>3
<1>7. \/ pos = 1 \/ pos = 2 \/ (g = 1 /\ pos = 3)
      \/ \E i \in 1 .. n : pos = o + 2 * i - 1 \/ pos = o + 2 * i
      \/ g = 1 /\ pos = r + 1
      \/ pos = r + g + 1 \/ pos = r + g + 2
  BY <1>3, <1>6, EachPosition
<1>8. \/ pos = 1 /\ Step.op \in {"createConn", "createRestClientConn"}
      \/ pos = 2 /\ Step.op \in {"startConn", "startRestClientConn"}
      \/ g = 1 /\ pos = 3 /\ Step.op = "joinGroup"
      \/ \E i \in 1 .. n :
            \/ pos = o + 2 * i - 1 /\ Step.op = "up" /\ Step.n = send[i]
            \/ pos = o + 2 * i /\ Step.op = "scenario"
      \/ g = 1 /\ pos = r + 1 /\ Step.op = "leaveGroup"
      \/ pos = r + g + 1 /\ Step.op = "stopConn"
      \/ pos = r + g + 2 /\ Step.op = "disposeConn"
  BY <1>2, <1>4, <1>5, <1>7, ZenonT(60)
<1> QED  BY <1>8 DEF g, o, n, r

-----------------------------------------------------------------------------
(* The tool's steps *)

\* The clients are as they should be before position p of the pipeline.
Fit(p, c, j, x, list, k) ==
  LET g == Grouped(S)
      r == Raised(T, S, unit)
  IN  /\ c = IF p = 1 THEN "none" ELSE IF p = 2 THEN "created"
             ELSE IF p <= r + g + 1 THEN "started"
             ELSE IF p = r + g + 2 THEN "stopped" ELSE "disposed"
      /\ j \in BOOLEAN /\ (j <=> (g = 1 /\ p > 3 /\ p <= r + 1))
      /\ Raises(k, Len(list), p, Opened(S), RoundsOf(T, S, unit))
      /\ \A i \in 1 .. Len(list) : list[i] = send[i]
      /\ Len(list) > 0 => x > 0

LEMMA SameRun ==
  ASSUME UNCHANGED <<params, loop>>
  PROVE  S' = S /\ T' = T /\ V' = V /\ JobConfig' = JobConfig /\ Variants(S)' = Variants(S)
<1>1. S' = S /\ T' = T  BY DEF params, loop, S, T
<1>2. Variants(S)' = Variants(S)  BY <1>1 DEF Variants
<1>3. V' = V  BY <1>1, <1>2 DEF V, loop
<1>4. unit' = unit /\ useMax' = useMax /\ sendInterval' = sendInterval  BY DEF params
<1>5. JobConfig' = JobConfig  BY <1>1, <1>3, <1>4 DEF JobConfig, ServerUrls, AppServers
<1> QED  BY <1>1, <1>2, <1>3, <1>5

LEMMA Framed ==
  ASSUME Inv, pc = "bench", Frame, pos' \in 1 .. (job.steps + 1),
         sending' \in Nat, played' \in Seq(Nat), cut' \in BOOLEAN,
         Fit(pos', conns', joined', sending', played', cut')
  PROVE  Inv'
<1>1. /\ S' = S /\ T' = T /\ V' = V /\ JobConfig' = JobConfig /\ Variants(S)' = Variants(S)
      /\ unit' = unit /\ useMax' = useMax /\ sendInterval' = sendInterval
      /\ scenarios' = scenarios /\ transports' = transports
      /\ si' = si /\ ti' = ti /\ vi' = vi
      /\ connection' = connection /\ concurrent' = concurrent /\ send' = send
      /\ job' = job /\ pc' = pc
  BY SameRun DEF Frame, params, loop, asked
<1>2. job.steps \in Nat  BY DEF Inv, Asked
<1>3. conns' \in {"none", "created", "started", "stopped", "disposed"} /\ joined' \in BOOLEAN
  BY DEF Fit
<1>4. TypeOK'
  BY <1>1, <1>2, <1>3 DEF Inv, TypeOK
<1>5. Asked'  BY <1>1 DEF Inv, Asked
<1>6. GroupsAsNamed'  BY <1>1 DEF Inv, GroupsAsNamed, NoJob
<1>7. Placed'
  BY <1>1 DEF Placed, Fit, Raised, Opened
<1> QED  BY <1>1, <1>4, <1>5, <1>6, <1>7 DEF Inv

LEMMA StartStep ==
  ASSUME Inv, Start
  PROVE  Inv'
<1>1. /\ pc = "bench" /\ Frame /\ pos' = 1
      /\ conns' = "none" /\ joined' = FALSE /\ sending' = 0 /\ played' = <<>> /\ cut' = FALSE
  BY DEF Start, Frame
<1>2. job.steps \in Nat  BY DEF Inv, Asked
<1>3. played' \in Seq(Nat) /\ Len(played') = 0  BY <1>1
<1>4. Opened(S) >= 2  BY <1>1, Measures
<1>5. Fit(pos', conns', joined', sending', played', cut')
  <2>1. pos' = 1 /\ ~(1 > 3) /\ conns' = "none" /\ joined' = FALSE
    BY <1>1
  <2>2. 1 <= Opened(S)  BY <1>4, <1>1, Measures
  <2>3. UpsBefore(pos', Opened(S), RoundsOf(T, S, unit)) = 0  BY <2>1, <2>2 DEF UpsBefore
  <2>4. joined' \in BOOLEAN /\ ~joined' /\ ~(pos' > 3)  BY <2>1
  <2>5. Raises(cut', Len(played'), pos', Opened(S), RoundsOf(T, S, unit))
    BY <1>1, <1>3, <2>3 DEF Raises
  <2> QED  BY <1>3, <2>1, <2>4, <2>5 DEF Fit
<1>6. cut' \in BOOLEAN /\ sending' \in Nat  BY <1>1
<1>7. pos' \in 1 .. (job.steps + 1)  BY <1>1, <1>2
<1> QED  BY <1>1, <1>3, <1>5, <1>6, <1>7, Framed

LEMMA ConnStep ==
  ASSUME Inv, CreateConn \/ StartConn \/ JoinGroup \/ Scenario \/ LeaveGroup \/ StopConn
              \/ DisposeConn
  PROVE  Inv'
<1> DEFINE g == Grouped(S)
           o == Opened(S)
           n == RoundsOf(T, S, unit)
           r == Raised(T, S, unit)
           N(p) == UpsBefore(p, o, n)
<1>1. /\ pc = "bench" /\ pos \in 1 .. job.steps /\ pos' = pos + 1 /\ Frame
      /\ sending' = sending /\ played' = played /\ cut' = cut
  BY DEF CreateConn, StartConn, JoinGroup, Scenario, LeaveGroup, StopConn, DisposeConn, Playing
<1>2. g \in {0, 1} /\ n \in Nat \ {0} /\ o = 2 + g /\ r = o + 2 * n /\ job.steps = r + 2 + g
  BY <1>1, Measures
<1>3. Fit(pos, conns, joined, sending, played, cut)  BY <1>1 DEF Inv, TypeOK, Placed, Fit
<1>4. /\ CreateConn => Step.op \in {"createConn", "createRestClientConn"} /\ conns' = "created"
      /\ StartConn => Step.op \in {"startConn", "startRestClientConn"} /\ conns' = "started"
      /\ JoinGroup => Step.op = "joinGroup" /\ joined' = TRUE
      /\ Scenario => Step.op = "scenario"
      /\ LeaveGroup => Step.op = "leaveGroup" /\ joined' = FALSE
      /\ StopConn => Step.op = "stopConn" /\ conns' = "stopped"
      /\ DisposeConn => Step.op = "disposeConn" /\ conns' = "disposed"
      /\ (CreateConn \/ StartConn \/ StopConn \/ DisposeConn) => joined' = joined
      /\ (JoinGroup \/ Scenario \/ LeaveGroup) => conns' = conns
  BY DEF CreateConn, StartConn, JoinGroup, Scenario, LeaveGroup, StopConn, DisposeConn, Playing
<1>5. \/ pos = 1 /\ CreateConn
      \/ pos = 2 /\ StartConn
      \/ g = 1 /\ pos = 3 /\ JoinGroup
      \/ Scenario /\ \E i \in 1 .. n : pos = o + 2 * i
      \/ g = 1 /\ pos = r + 1 /\ LeaveGroup
      \/ pos = r + g + 1 /\ StopConn
      \/ pos = r + g + 2 /\ DisposeConn
  BY <1>1, <1>4, StepAt
<1> HIDE DEF g, o, n, r
<1>6. N(pos + 1) = N(pos)
  <2>1. CASE pos < o  BY <1>1, <1>2, <2>1 DEF UpsBefore
  <2>2. CASE pos > r  BY <1>1, <1>2, <2>2 DEF UpsBefore
  <2>3. CASE pos = o  BY <1>1, <1>2, <2>3 DEF UpsBefore
  <2>4. CASE \E i \in 1 .. n : pos = o + 2 * i
    <3>1. PICK i \in 1 .. n : pos = o + 2 * i  BY <2>4
    <3>2. N(pos) = i  BY <1>2, <3>1 DEF UpsBefore
    <3>3. N(pos + 1) = i  BY <1>2, <3>1 DEF UpsBefore
    <3> QED  BY <3>2, <3>3
  <2>5. pos < o \/ pos > r \/ pos = o \/ \E i \in 1 .. n : pos = o + 2 * i
    BY <1>2, <1>5
  <2> QED  BY <2>1, <2>2, <2>3, <2>4, <2>5
<1>7. conns' = IF pos + 1 = 1 THEN "none" ELSE IF pos + 1 = 2 THEN "created"
               ELSE IF pos + 1 <= r + g + 1 THEN "started"
               ELSE IF pos + 1 = r + g + 2 THEN "stopped" ELSE "disposed"
  <2>1. conns = IF pos = 1 THEN "none" ELSE IF pos = 2 THEN "created"
                ELSE IF pos <= r + g + 1 THEN "started"
                ELSE IF pos = r + g + 2 THEN "stopped" ELSE "disposed"
    BY <1>3 DEF Fit, g, r
  <2> QED  BY <1>2, <1>4, <1>5, <2>1
<1>8. joined' \in BOOLEAN /\ (joined' <=> (g = 1 /\ pos + 1 > 3 /\ pos + 1 <= r + 1))
  <2>1. joined \in BOOLEAN /\ (joined <=> (g = 1 /\ pos > 3 /\ pos <= r + 1))  BY <1>3 DEF Fit, g, r
  <2>2. pos \in Nat  BY <1>1
  <2>3. CASE g = 1 /\ pos = 3 /\ JoinGroup
    <3>1. joined' = TRUE  BY <1>4, <2>3
    <3>2. pos + 1 > 3 /\ pos + 1 <= r + 1  BY <1>2, <2>3
    <3> QED  BY <2>3, <3>1, <3>2
  <2>4. CASE g = 1 /\ pos = r + 1 /\ LeaveGroup
    <3>1. joined' = FALSE  BY <1>4, <2>4
    <3>2. ~(pos + 1 <= r + 1)  BY <1>2, <2>4
    <3> QED  BY <3>1, <3>2
  <2>5. CASE joined' = joined /\ (g = 1 => pos # 3 /\ pos # r + 1)
    <3>1. g = 1 => (pos > 3 <=> pos + 1 > 3) /\ (pos <= r + 1 <=> pos + 1 <= r + 1)
      BY <1>2, <2>2, <2>5
    <3> QED  BY <2>1, <2>5, <3>1
  <2>6. \/ g = 1 /\ pos = 3 /\ JoinGroup
        \/ g = 1 /\ pos = r + 1 /\ LeaveGroup
        \/ joined' = joined /\ (g = 1 => pos # 3 /\ pos # r + 1)
    <3>1. \A i \in 1 .. n : o + 2 * i # 3 /\ (g = 1 => o + 2 * i # 3 /\ o + 2 * i # r + 1)
      BY <1>2
    <3>2. r + g + 1 # 3 /\ r + g + 2 # 3 /\ (g = 1 => r + g + 1 # r + 1 /\ r + g + 2 # r + 1)
          /\ r + 1 # 1 /\ r + 1 # 2
      BY <1>2
    <3>3. Scenario => joined' = joined  BY DEF Scenario
    <3> QED  BY <1>4, <1>5, <3>1, <3>2, <3>3
  <2> QED  BY <2>3, <2>4, <2>5, <2>6
<1>9. Fit(pos', conns', joined', sending', played', cut')
  <2>1. Raises(cut, Len(played), pos, o, n)  BY <1>3 DEF Fit, o, n
  <2>2. Raises(cut', Len(played'), pos', o, n)  BY <1>1, <1>2, <1>6, <2>1 DEF Raises
  <2> QED  BY <1>1, <1>3, <1>7, <1>8, <2>2 DEF Fit, g, o, n, r
<1>10. pos' \in 1 .. (job.steps + 1)
  <2>1. job.steps \in Nat  BY DEF Inv, Asked
  <2> QED  BY <1>1, <2>1
<1>11. sending' \in Nat /\ played' \in Seq(Nat) /\ cut' \in BOOLEAN
  BY <1>1 DEF Inv, TypeOK
<1> QED  BY <1>1, <1>9, <1>10, <1>11, Framed

LEMMA UpStep ==
  ASSUME Inv, Up
  PROVE  Inv'
<1> DEFINE g == Grouped(S)
           o == Opened(S)
           n == RoundsOf(T, S, unit)
           r == Raised(T, S, unit)
<1>1. /\ pc = "bench" /\ pos \in 1 .. job.steps /\ pos' = pos + 1 /\ Frame
      /\ Step.op = "up"
      /\ sending' = sending + Step.n /\ played' = Append(played, Step.n)
      /\ conns' = conns /\ joined' = joined /\ cut' = cut
  BY DEF Up, Playing
<1>2. g \in {0, 1} /\ n \in Nat \ {0} /\ o = 2 + g /\ r = o + 2 * n /\ job.steps = r + 2 + g
  BY <1>1, Measures
<1>3. Fit(pos, conns, joined, sending, played, cut)  BY <1>1 DEF Inv, TypeOK, Placed, Fit
<1>4. PICK i \in 1 .. n : pos = o + 2 * i - 1 /\ Step.n = send[i]
  BY <1>1, StepAt
<1>5. send \in Seq(Nat) /\ Len(send) = n /\ send[1] > 0
  BY <1>1, Measures
<1>6. send[i] \in Nat
  <2>1. i \in 1 .. Len(send)  BY <1>5
  <2> QED  BY <1>5, <2>1, ElementOfSeq
<1>7. sending \in Nat /\ played \in Seq(Nat)  BY DEF Inv, TypeOK
<1>8. Raises(cut, Len(played), pos, o, n) /\ (Len(played) > 0 => sending > 0)
      /\ \A k \in 1 .. Len(played) : played[k] = send[k]
  BY <1>3 DEF Fit
<1>9. conns = IF pos = 1 THEN "none" ELSE IF pos = 2 THEN "created"
              ELSE IF pos <= r + g + 1 THEN "started"
              ELSE IF pos = r + g + 2 THEN "stopped" ELSE "disposed"
  BY <1>3 DEF Fit
<1>10. joined \in BOOLEAN /\ (joined <=> (g = 1 /\ pos > 3 /\ pos <= r + 1))
  BY <1>3 DEF Fit
<1> HIDE DEF g, o, n, r
<1>11. UpsBefore(pos, o, n) = i - 1 /\ UpsBefore(pos + 1, o, n) = i
  BY <1>2, <1>4 DEF UpsBefore
<1>18. cut \in BOOLEAN /\ ~cut /\ Len(played) = i - 1
  <2>1. cut \in BOOLEAN /\ ~(pos > o + 2 * n)  BY <1>2, <1>4 DEF Inv, TypeOK
  <2> QED  BY <1>8, <1>11, <2>1 DEF Raises
<1>12. conns' = IF pos + 1 = 1 THEN "none" ELSE IF pos + 1 = 2 THEN "created"
                ELSE IF pos + 1 <= r + g + 1 THEN "started"
                ELSE IF pos + 1 = r + g + 2 THEN "stopped" ELSE "disposed"
  BY <1>1, <1>2, <1>4, <1>9
<1>13. joined' \in BOOLEAN /\ (joined' <=> (g = 1 /\ pos + 1 > 3 /\ pos + 1 <= r + 1))
  <2>1. g = 1 => (pos > 3 <=> pos + 1 > 3) /\ (pos <= r + 1 <=> pos + 1 <= r + 1)
    BY <1>2, <1>4
  <2> QED  BY <1>1, <1>10, <2>1
<1>14. sending' \in Nat /\ sending' > 0
  <2>1. CASE i = 1  BY <1>1, <1>4, <1>5, <1>6, <1>7, <2>1
  <2>2. CASE i > 1  BY <1>1, <1>4, <1>6, <1>7, <1>8, <1>18, <2>2
  <2> QED  BY <1>2, <2>1, <2>2
<1>15. /\ played' \in Seq(Nat) /\ Len(played') = i
       /\ \A k \in 1 .. Len(played') : played'[k] = send[k]
  <2>1. played' = Append(played, send[i])  BY <1>1, <1>4
  <2>2. Len(played) = i - 1  BY <1>18
  <2>3. /\ Append(played, send[i]) \in Seq(Nat)
        /\ Len(Append(played, send[i])) = Len(played) + 1
        /\ \A k \in 1 .. Len(played) : Append(played, send[i])[k] = played[k]
        /\ Append(played, send[i])[Len(played) + 1] = send[i]
    BY <1>6, <1>7, AppendProperties
  <2> QED  BY <1>2, <1>8, <2>1, <2>2, <2>3
<1>16. Fit(pos', conns', joined', sending', played', cut')
  <2>1. Raises(cut', Len(played'), pos', o, n)
    BY <1>1, <1>11, <1>15, <1>18 DEF Raises
  <2> QED  BY <1>1, <1>12, <1>13, <1>14, <1>15, <2>1 DEF Fit, g, o, n, r
<1>17. pos' \in 1 .. (job.steps + 1)
  <2>1. job.steps \in Nat  BY DEF Inv, Asked
  <2> QED  BY <1>1, <2>1
<1> QED  BY <1>1, <1>14, <1>15, <1>16, <1>17, <1>18, Framed

\* The sending is cut before an up: on to the closing steps.
LEMMA CutStep ==
  ASSUME Inv, StopSending
  PROVE  Inv'
<1> DEFINE g == Grouped(S)
           o == Opened(S)
           n == RoundsOf(T, S, unit)
           r == Raised(T, S, unit)
<1>1. /\ pc = "bench" /\ pos \in 1 .. job.steps /\ Frame /\ Step.op = "up"
      /\ pos' = job.steps + 1 - Len(Closing(job.run[2])) /\ cut' = TRUE
      /\ conns' = conns /\ joined' = joined /\ sending' = sending /\ played' = played
  BY DEF StopSending
<1>2. g \in {0, 1} /\ n \in Nat \ {0} /\ o = 2 + g /\ r = o + 2 * n /\ job.steps = r + 2 + g
  BY <1>1, Measures
<1>3. Fit(pos, conns, joined, sending, played, cut)  BY <1>1 DEF Inv, TypeOK, Placed, Fit
<1>4. PICK i \in 1 .. n : pos = o + 2 * i - 1
  BY <1>1, StepAt
<1>5. pos' = r + 1
  <2>1. job.run[2] = S  BY <1>1 DEF Inv, Asked, JobConfig
  <2>2. Len(Closing(S)) = 2 + g
    <3> DEFINE X == {Plain(op) : op \in Ops}
    <3>1. \A op \in Ops : Plain(op) \in X  OBVIOUS
    <3> HIDE DEF X
    <3> QED  BY <3>1, ClosingSteps DEF g
  <2> QED  BY <1>1, <1>2, <2>1, <2>2
<1>6. /\ conns = "started" /\ joined \in BOOLEAN /\ (joined <=> g = 1)
      /\ Raises(cut, Len(played), pos, o, n) /\ (Len(played) > 0 => sending > 0)
      /\ \A k \in 1 .. Len(played) : played[k] = send[k]
  <2>1. conns = IF pos = 1 THEN "none" ELSE IF pos = 2 THEN "created"
                ELSE IF pos <= r + g + 1 THEN "started"
                ELSE IF pos = r + g + 2 THEN "stopped" ELSE "disposed"
    BY <1>3 DEF Fit
  <2>2. joined \in BOOLEAN /\ (joined <=> (g = 1 /\ pos > 3 /\ pos <= r + 1))
    BY <1>3 DEF Fit
  <2>3. /\ Raises(cut, Len(played), pos, o, n) /\ (Len(played) > 0 => sending > 0)
        /\ \A k \in 1 .. Len(played) : played[k] = send[k]
    BY <1>3 DEF Fit
  <2> HIDE DEF g, o, n, r
  <2>4. pos # 1 /\ pos # 2 /\ pos <= r + g + 1 /\ pos <= r + 1 /\ (g = 1 => pos > 3)
    BY <1>2, <1>4
  <2> QED  BY <2>1, <2>2, <2>3, <2>4
<1> HIDE DEF g, o, n, r
<1>7. Len(played) < n
  <2>1. cut \in BOOLEAN /\ ~(pos > o + 2 * n)  BY <1>2, <1>4 DEF Inv, TypeOK
  <2>2. UpsBefore(pos, o, n) = i - 1  BY <1>2, <1>4 DEF UpsBefore
  <2> QED  BY <1>2, <1>6, <2>1, <2>2 DEF Raises
<1>8. Fit(pos', conns', joined', sending', played', cut')
  <2>1. Raises(cut', Len(played'), pos', o, n)  BY <1>1, <1>2, <1>5, <1>7 DEF Raises
  <2>2. conns' = IF pos' = 1 THEN "none" ELSE IF pos' = 2 THEN "created"
                 ELSE IF pos' <= r + g + 1 THEN "started"
                 ELSE IF pos' = r + g + 2 THEN "stopped" ELSE "disposed"
    BY <1>1, <1>2, <1>5, <1>6
  <2>3. joined' \in BOOLEAN /\ (joined' <=> (g = 1 /\ pos' > 3 /\ pos' <= r + 1))
    <3>1. pos' > 3 /\ pos' <= r + 1  BY <1>2, <1>5
    <3> QED  BY <1>1, <1>6, <3>1
  <2> QED  BY <1>1, <1>6, <2>1, <2>2, <2>3 DEF Fit, g, o, n, r
<1>9. pos' \in 1 .. (job.steps + 1)  BY <1>2, <1>5
<1>10. sending' \in Nat /\ played' \in Seq(Nat) /\ cut' \in BOOLEAN
  BY <1>1 DEF Inv, TypeOK
<1> QED  BY <1>1, <1>8, <1>9, <1>10, Framed

-----------------------------------------------------------------------------
(* The shell's steps *)

LEMMA VariantsSome ==
  ASSUME NEW s
  PROVE  Len(Variants(s)) \in Nat \ {0}
<1>1. Len(GroupTypeList) \in Nat \ {0} /\ Len(SizeList) \in Nat \ {0}
  BY UnitBenchAssumption, EmptySeq
<1>2. Len(<<"none">>) = 1  OBVIOUS
<1>3. CASE s = "SendGroup"  BY <1>1, <1>3 DEF Variants
<1>4. CASE s = "sendToClient"  BY <1>1, <1>4 DEF Variants
<1>5. CASE s # "SendGroup" /\ s # "sendToClient"
  <2>1. Variants(s) = <<"none">>  BY <1>5 DEF Variants
  <2> QED  BY <1>2, <2>1
<1> QED  BY <1>3, <1>4, <1>5

\* The next run is one of the lists', whichever loop goes on.
LEMMA NextRunKeeps ==
  ASSUME Inv, NextRun, UNCHANGED <<params, asked, job, conns, joined, sending, played, cut>>, pos' = 0
  PROVE  Inv'
<1>1. /\ scenarios \in Seq(STRING) /\ scenarios # <<>>
      /\ transports \in Seq(STRING) /\ transports # <<>>
  BY UnitBenchAssumption DEF Inv
<1>2. Len(scenarios) \in Nat \ {0} /\ Len(transports) \in Nat \ {0}  BY <1>1, EmptySeq
<1>3. \A s : Len(Variants(s)) \in Nat \ {0}  BY VariantsSome
<1>4. /\ unit' = unit /\ useMax' = useMax /\ sendInterval' = sendInterval
      /\ scenarios' = scenarios /\ transports' = transports
      /\ connection' = connection /\ concurrent' = concurrent /\ send' = send
      /\ job' = job /\ conns' = conns /\ joined' = joined /\ sending' = sending /\ played' = played
      /\ cut' = cut
  BY DEF params, asked
<1>5. pc' \in {"configure", "done"}  BY DEF NextRun
<1>6. /\ si' \in 1 .. Len(scenarios) /\ ti' \in 1 .. Len(transports)
      /\ vi' \in 1 .. Len(Variants(S'))
  <2>1. si \in 1 .. Len(scenarios) /\ ti \in 1 .. Len(transports) /\ vi \in 1 .. Len(Variants(S))
    BY DEF Inv, TypeOK
  <2>2. si' = si => S' = S  BY <1>4 DEF S
  <2>3. vi' = 1 \/ (si' = si /\ vi' = vi) \/ (si' = si /\ vi' = vi + 1 /\ vi < Len(Variants(S)))
    BY DEF NextRun, loop
  <2>4. vi' \in 1 .. Len(Variants(S'))  BY <1>3, <2>1, <2>2, <2>3
  <2>5. /\ ti' = 1 \/ ti' = ti \/ (ti' = ti + 1 /\ ti < Len(transports))
        /\ si' = si \/ (si' = si + 1 /\ si < Len(scenarios))
    BY DEF NextRun, loop
  <2> QED  BY <1>2, <2>1, <2>4, <2>5
<1>7. job.steps \in Nat  BY DEF Inv, Asked
<1>8. TypeOK'
  <2>1. 0 \in 0 .. (job.steps + 1)  BY <1>7
  <2>2. Variants(S)' = Variants(S')  BY DEF Variants
  <2> QED  BY <1>4, <1>5, <1>6, <2>1, <2>2 DEF Inv, TypeOK
<1>9. Asked' /\ Placed'  BY <1>4, <1>5, <1>7 DEF Asked, Placed
<1>10. GroupsAsNamed'  BY <1>4 DEF Inv, GroupsAsNamed, NoJob
<1> QED  BY <1>4, <1>8, <1>9, <1>10 DEF Inv

\* Groups of a job have the size their names say.
LEMMA GroupSizes ==
  ASSUME TypeOK, <<T, S>> \in Supported
  PROVE  JobConfig.groupNum > 0 =>
           CASE JobConfig.run[3] = "small"   -> JobConfig.connection = 10 * JobConfig.groupNum
             [] JobConfig.run[3] = "big"     -> JobConfig.groupNum = 10
             [] JobConfig.run[3] = "tiny"    -> JobConfig.groupNum = JobConfig.connection
             [] JobConfig.run[3] = "overlap" -> JobConfig.groupNum > JobConfig.connection
<1>1. Known(S, V) /\ unit \in Nat \ {0} /\ useMax \in BOOLEAN
  BY VariantKnown, AnEntry
<1>2. JobConfig.run[3] = V  BY DEF JobConfig
<1>3. CASE S # "SendGroup"
  <2>1. JobConfig.groupNum = 0  BY <1>3 DEF JobConfig
  <2> QED  BY <2>1
<1>4. CASE S = "SendGroup"
  <2>1. T = "websockets"  BY <1>4 DEF Supported
  <2>2. V \in {"small", "big", "tiny", "overlap"}  BY <1>1, <1>4 DEF Known, GroupTypes
  <2>3. LoadOf(T, S, V, useMax, unit) = websocketssendgroup(useMax, unit, V)
    BY <1>4, <2>1 DEF LoadOf
  <2>4. JobConfig.connection = Connections(useMax, unit)
    BY <2>3 DEF JobConfig, websocketssendgroup, Load
  <2>5. JobConfig.groupNum = GroupNumber(useMax, unit, V)
    BY <1>4 DEF JobConfig
  <2> DEFINE c == JobConfig.connection
             k == JobConfig.groupNum
  <2>6. /\ V = "small" => c = 10 * k
        /\ V = "big" => k = 10
        /\ V = "tiny" => k = c
        /\ V = "overlap" => k > c
    BY <1>1, <2>4, <2>5 DEF GroupNumber, Connections
  <2> HIDE DEF c, k
  <2> SUFFICES CASE V = "small" -> c = 10 * k [] V = "big" -> k = 10
                 [] V = "tiny" -> k = c [] V = "overlap" -> k > c
    BY <1>2 DEF c, k
  <2> QED  BY <2>2, <2>6
<1> QED  BY <1>3, <1>4

LEMMA ConfigureStep ==
  ASSUME Inv, Configure \/ Unsupported
  PROVE  Inv'
<1>1. /\ UNCHANGED <<params, loop>> /\ S' = S /\ T' = T /\ V' = V /\ JobConfig' = JobConfig
      /\ Variants(S)' = Variants(S)
  BY SameRun DEF Configure, Unsupported
<1>2. /\ unit' = unit /\ useMax' = useMax /\ sendInterval' = sendInterval
      /\ scenarios' = scenarios /\ transports' = transports
      /\ si' = si /\ ti' = ti /\ vi' = vi
  BY <1>1 DEF params, loop
<1>3. /\ pos' = 0 /\ conns' = conns /\ joined' = joined /\ sending' = sending /\ played' = played
      /\ cut' = cut
  BY DEF Configure, Unsupported, toolVars, Inv, Asked
<1>4. Placed'  BY <1>3 DEF Placed
<1>5. CASE Configure
  <2> DEFINE ups == Ups(T, S, V, useMax, unit)
             load == LoadOf(T, S, V, useMax, unit)
  <2>1. /\ <<T, S>> \in Supported /\ pc' = "bench" /\ job' = JobConfig
        /\ connection' = load.connection /\ concurrent' = load.concurrent /\ send' = ups
    BY <1>5 DEF Configure
  <2>2. Known(S, V) /\ unit \in Units /\ useMax \in BOOLEAN  BY VariantKnown DEF Inv
  <2>3. load.connection \in Nat /\ load.concurrent \in Nat
    BY <2>1, <2>2, LoadsKnown DEF Loads
  <2>4. ups \in Seq(Nat)  BY <2>1, <2>2, UpsType
  <2>5. JobConfig.steps \in Nat
    <3>1. JobConfig.steps = Raised(T, S, unit) + 2 + Grouped(S)
      BY <2>1, <2>2, PipelineSteps DEF JobConfig
    <3>2. RoundsOf(T, S, unit) \in Nat  BY <2>1, <2>2, RoundsKnown
    <3> QED  BY <3>1, <3>2 DEF Raised, Opened, Grouped
  <2>6. JobConfig.connection = load.connection /\ JobConfig.concurrent = load.concurrent
    BY DEF JobConfig
  <2> HIDE DEF load, ups
  <2>7. TypeOK'
    <3>1. 0 \in 0 .. (JobConfig.steps + 1)  BY <2>5
    <3> QED  BY <1>1, <1>2, <1>3, <2>1, <2>3, <2>4, <3>1 DEF Inv, TypeOK
  <2>8. Asked'  BY <1>1, <1>2, <1>3, <2>1, <2>5, <2>6 DEF Asked, ups
  <2>9. GroupsAsNamed'
    <3>1. job' = JobConfig  BY <2>1
    <3> HIDE DEF GroupsAsNamed
    <3>2. GroupsAsNamed' <=> (job' # NoJob /\ job'.groupNum > 0 =>
            CASE job'.run[3] = "small"   -> job'.connection = 10 * job'.groupNum
              [] job'.run[3] = "big"     -> job'.groupNum = 10
              [] job'.run[3] = "tiny"    -> job'.groupNum = job'.connection
              [] job'.run[3] = "overlap" -> job'.groupNum > job'.connection)
      BY DEF GroupsAsNamed, NoJob
    <3> QED  BY <2>1, <3>1, <3>2, GroupSizes DEF Inv
  <2> QED  BY <1>2, <1>4, <2>7, <2>8, <2>9 DEF Inv
<1>6. CASE Unsupported
  <2>1. /\ pc' \in {"aborted", "lost"}
        /\ \/ job' = job /\ connection' = connection /\ concurrent' = concurrent /\ send' = send
           \/ job' = NoJob /\ connection' = 0 /\ concurrent' = 0 /\ send' = <<>>
    BY <1>6 DEF Unsupported, asked
  <2>2. job'.steps \in Nat  BY <2>1 DEF Inv, Asked, NoJob
  <2>3. 0 \in 0 .. (job'.steps + 1)  BY <2>2
  <2>4. send' \in Seq(Nat) /\ connection' \in Nat /\ concurrent' \in Nat
    <3>1. send \in Seq(Nat) /\ connection \in Nat /\ concurrent \in Nat  BY DEF Inv, TypeOK
    <3>2. <<>> \in Seq(Nat)  OBVIOUS
    <3>3. CASE connection' = connection /\ concurrent' = concurrent /\ send' = send
      BY <3>1, <3>3
    <3>4. CASE connection' = 0 /\ concurrent' = 0 /\ send' = <<>>
      BY <3>2, <3>4
    <3> QED  BY <2>1, <3>3, <3>4
  <2>5. TypeOK'
    BY <1>1, <1>2, <1>3, <2>1, <2>3, <2>4 DEF Inv, TypeOK
  <2>6. Asked'  BY <1>3, <2>1, <2>2 DEF Asked
  <2>7. GroupsAsNamed'  BY <2>1 DEF Inv, GroupsAsNamed, NoJob
  <2> QED  BY <1>2, <1>4, <2>5, <2>6, <2>7 DEF Inv
<1> QED  BY <1>5, <1>6

LEMMA InvNext ==
  ASSUME Inv, [Next]_vars
  PROVE  Inv'
<1>1. CASE Unsupported \/ Configure  BY <1>1, ConfigureStep
<1>2. CASE Play  BY <1>2, StartStep, ConnStep, UpStep, CutStep DEF Play
<1>3. CASE GenReport \/ NoCounters  BY <1>3, NextRunKeeps DEF GenReport, NoCounters
<1>4. CASE UNCHANGED vars
  <2>1. /\ UNCHANGED <<params, loop>> /\ S' = S /\ T' = T /\ V' = V /\ JobConfig' = JobConfig
        /\ Variants(S)' = Variants(S)
    BY <1>4, SameRun DEF vars
  <2>2. /\ unit' = unit /\ useMax' = useMax /\ sendInterval' = sendInterval
        /\ scenarios' = scenarios /\ transports' = transports
        /\ si' = si /\ ti' = ti /\ vi' = vi
        /\ connection' = connection /\ concurrent' = concurrent /\ send' = send
        /\ pos' = pos /\ conns' = conns /\ joined' = joined /\ sending' = sending
        /\ played' = played /\ cut' = cut /\ job' = job /\ pc' = pc
    BY <1>4 DEF vars, params, loop, asked, toolVars
  <2>3. TypeOK'  BY <2>1, <2>2 DEF Inv, TypeOK
  <2>4. Asked'  BY <2>1, <2>2 DEF Inv, Asked
  <2>5. GroupsAsNamed'  BY <2>2 DEF Inv, GroupsAsNamed, NoJob
  <2>6. Placed'  BY <2>1, <2>2 DEF Inv, Placed, Raised, Opened
  <2> QED  BY <2>2, <2>3, <2>4, <2>5, <2>6 DEF Inv
<1> QED  BY <1>1, <1>2, <1>3, <1>4 DEF Next, Ended

LEMMA InvInit ==
  ASSUME Init
  PROVE  Inv
<1>1. /\ scenarios \in Seq(STRING) /\ scenarios # <<>>
      /\ transports \in Seq(STRING) /\ transports # <<>>
  BY UnitBenchAssumption DEF Init
<1>2. Len(scenarios) \in Nat \ {0} /\ Len(transports) \in Nat \ {0}  BY <1>1, EmptySeq
<1>3. Len(Variants(S)) \in Nat \ {0}  BY VariantsSome
<1>4. 1 \in 1 .. Len(scenarios) /\ 1 \in 1 .. Len(transports) /\ 1 \in 1 .. Len(Variants(S))
  BY <1>2, <1>3
<1>5. job.steps = 0 /\ 0 \in 0 .. (0 + 1)  BY DEF Init, NoJob
<1>6. <<>> \in Seq(Nat)  OBVIOUS
<1>7. TypeOK  BY <1>4, <1>5, <1>6 DEF Init, TypeOK
<1>8. Asked /\ GroupsAsNamed /\ Placed
  BY <1>5 DEF Init, Asked, GroupsAsNamed, Placed
<1> QED  BY <1>7, <1>8 DEF Inv, Init

LEMMA InvHolds == Spec => []Inv
<1>1. Init => Inv  BY InvInit
<1>2. Inv /\ [Next]_vars => Inv'  BY InvNext
<1> QED  BY <1>1, <1>2, PTL DEF Spec

-----------------------------------------------------------------------------
(* What holds *)

LEMMA StepsFit ==
  ASSUME Inv
  PROVE  StepsApply
<1> SUFFICES ASSUME pc = "bench", pos > 0 PROVE StepsApply
  BY DEF StepsApply
<1> DEFINE g == Grouped(S)
           o == Opened(S)
           n == RoundsOf(T, S, unit)
           r == Raised(T, S, unit)
<1>1. g \in {0, 1} /\ n \in Nat \ {0} /\ o = 2 + g /\ r = o + 2 * n /\ job.steps = r + 2 + g
      /\ (g = 1 <=> S = "SendGroup")
  BY Measures
<1>2. pos \in 1 .. (job.steps + 1)  BY DEF Inv, TypeOK, Asked
<1>3. Fit(pos, conns, joined, sending, played, cut)  BY DEF Inv, TypeOK, Placed, Fit
<1>4. conns = IF pos = 1 THEN "none" ELSE IF pos = 2 THEN "created"
              ELSE IF pos <= r + g + 1 THEN "started"
              ELSE IF pos = r + g + 2 THEN "stopped" ELSE "disposed"
  BY <1>3 DEF Fit
<1>5. joined \in BOOLEAN /\ (joined <=> (g = 1 /\ pos > 3 /\ pos <= r + 1))
  BY <1>3 DEF Fit
<1>6. Raises(cut, Len(played), pos, o, n) /\ (Len(played) > 0 => sending > 0)
      /\ cut \in BOOLEAN
  BY <1>3 DEF Fit, Inv, TypeOK
<1>7. job.groupNum > 0 <=> g = 1
  <2>1. job = JobConfig /\ Known(S, V) /\ unit \in Nat \ {0} /\ useMax \in BOOLEAN
    BY VariantKnown, AnEntry DEF Inv, Asked
  <2>2. CASE S = "SendGroup"
    <3>1. V \in {"small", "big", "tiny", "overlap"}  BY <2>1, <2>2 DEF Known, GroupTypes
    <3>2. GroupNumber(useMax, unit, V) > 0  BY <2>1, <3>1 DEF GroupNumber
    <3> QED  BY <1>1, <2>1, <2>2, <3>2 DEF JobConfig
  <2>3. CASE S # "SendGroup"
    <3>1. job.groupNum = 0  BY <2>1, <2>3 DEF JobConfig
    <3> QED  BY <1>1, <2>3, <3>1
  <2> QED  BY <2>2, <2>3
<1>8. CASE pos > job.steps
  <2>1. pos = r + g + 3  BY <1>1, <1>2, <1>8
  <2>2. conns = "disposed"  BY <1>1, <1>4, <2>1
  <2>3. ~joined  BY <1>1, <1>5, <2>1
  <2> QED  BY <1>8, <2>2, <2>3 DEF StepsApply
<1>9. CASE pos \in 1 .. job.steps
  <2>1. \/ pos = 1 /\ Step.op \in {"createConn", "createRestClientConn"}
        \/ pos = 2 /\ Step.op \in {"startConn", "startRestClientConn"}
        \/ g = 1 /\ pos = 3 /\ Step.op = "joinGroup"
        \/ \E i \in 1 .. n :
              \/ pos = o + 2 * i - 1 /\ Step.op = "up" /\ Step.n = send[i]
              \/ pos = o + 2 * i /\ Step.op = "scenario"
        \/ g = 1 /\ pos = r + 1 /\ Step.op = "leaveGroup"
        \/ pos = r + g + 1 /\ Step.op = "stopConn"
        \/ pos = r + g + 2 /\ Step.op = "disposeConn"
    BY <1>9, StepAt
  <2> HIDE DEF g, o, n, r
  <2>2. ~(pos > job.steps)  BY <1>1, <1>9
  <2>3. CASE pos = 1 /\ Step.op \in {"createConn", "createRestClientConn"}
    BY <1>4, <2>2, <2>3 DEF StepsApply
  <2>4. CASE pos = 2 /\ Step.op \in {"startConn", "startRestClientConn"}
    <3>1. conns = "created"  BY <1>1, <1>4, <2>4
    <3> QED  BY <2>2, <2>4, <3>1 DEF StepsApply
  <2>5. CASE g = 1 /\ pos = 3 /\ Step.op = "joinGroup"
    <3>1. conns = "started"  BY <1>1, <1>4, <2>5
    <3> QED  BY <2>2, <2>5, <3>1 DEF StepsApply
  <2>6. ASSUME NEW i \in 1 .. n, pos = o + 2 * i - 1 /\ Step.op = "up"
        PROVE  StepsApply
    <3>1. conns = "started"  BY <1>1, <1>4, <2>6
    <3> QED  BY <2>2, <2>6, <3>1 DEF StepsApply
  <2>7. ASSUME NEW i \in 1 .. n, pos = o + 2 * i /\ Step.op = "scenario"
        PROVE  StepsApply
    <3>1. conns = "started"  BY <1>1, <1>4, <2>7
    <3>2. UpsBefore(pos, o, n) = i  BY <1>1, <2>7 DEF UpsBefore
    <3>3. sending > 0
      <4>1. ~(pos > o + 2 * n)  BY <1>1, <2>7
      <4>2. Len(played) = i  BY <1>6, <3>2, <4>1 DEF Raises
      <4> QED  BY <1>1, <1>6, <4>2
    <3>4. joined <=> job.groupNum > 0  BY <1>1, <1>5, <1>7, <2>7
    <3>5. joined = (job.groupNum > 0)  BY <1>5, <3>4
    <3> QED  BY <2>2, <2>7, <3>1, <3>3, <3>5 DEF StepsApply
  <2>8. CASE g = 1 /\ pos = r + 1 /\ Step.op = "leaveGroup"
    <3>1. conns = "started" /\ joined  BY <1>1, <1>4, <1>5, <2>8
    <3> QED  BY <2>2, <2>8, <3>1 DEF StepsApply
  <2>9. CASE pos = r + g + 1 /\ Step.op = "stopConn"
    <3>1. conns = "started" /\ ~joined  BY <1>1, <1>4, <1>5, <2>9
    <3> QED  BY <2>2, <2>9, <3>1 DEF StepsApply
  <2>10. CASE pos = r + g + 2 /\ Step.op = "disposeConn"
    <3>1. conns = "stopped"  BY <1>1, <1>4, <2>10
    <3> QED  BY <2>2, <2>10, <3>1 DEF StepsApply
  <2> QED  BY <2>1, <2>3, <2>4, <2>5, <2>6, <2>7, <2>8, <2>9, <2>10
<1> QED  BY <1>1, <1>2, <1>8, <1>9

LEMMA ReportFits ==
  ASSUME Inv, [Next]_vars, report' # report, report' # NoReport
  PROVE  /\ report'.run = job.run
         /\ report'.connection = job.connection /\ report'.concurrent = job.concurrent
         /\ played = SubSeq(report'.send, 1, Len(played))
         /\ IF cut THEN Len(played) < Len(report'.send)
                   ELSE Len(played) = Len(report'.send)
         /\ report'.servers = job.servers
<1>1. GenReport
  BY DEF Next, vars, Unsupported, Configure, Play, Start, CreateConn, StartConn, JoinGroup, Up,
         Scenario, StopSending, LeaveGroup, StopConn, DisposeConn, Frame, NoCounters, Ended
<1>2. /\ pc = "bench" /\ pos = job.steps + 1
      /\ report' = [run |-> <<T, S, V>>, connection |-> connection,
                    concurrent |-> concurrent, send |-> send, servers |-> ServerUrls(unit)]
  BY <1>1 DEF GenReport
<1>3. job = JobConfig /\ connection = job.connection /\ concurrent = job.concurrent
  BY <1>2 DEF Inv, Asked
<1>4. job.run = <<T, S, V>> /\ job.servers = ServerUrls(unit)  BY <1>3 DEF JobConfig
<1>5. /\ played = SubSeq(send, 1, Len(played))
      /\ IF cut THEN Len(played) < Len(send) ELSE Len(played) = Len(send)
  <2> DEFINE g == Grouped(S)
             o == Opened(S)
             n == RoundsOf(T, S, unit)
             r == Raised(T, S, unit)
             m == Len(played)
  <2>1. g \in {0, 1} /\ n \in Nat \ {0} /\ o = 2 + g /\ r = o + 2 * n /\ job.steps = r + 2 + g
    BY <1>2, Measures
  <2>2. pos > 0  BY <1>2, <2>1
  <2>3. Fit(pos, conns, joined, sending, played, cut)
    BY <1>2, <2>2 DEF Inv, TypeOK, Placed, Fit
  <2>4. Raises(cut, m, pos, o, n) /\ \A i \in 1 .. m : played[i] = send[i]
    BY <2>3 DEF Fit
  <2>5. send \in Seq(Nat) /\ Len(send) = n  BY <1>2, Measures
  <2>6. played \in Seq(Nat) /\ m \in Nat  BY LenProperties DEF Inv, TypeOK
  <2> HIDE DEF g, o, n, r
  <2>7. UpsBefore(pos, o, n) = n  BY <1>2, <2>1, SMTT(30) DEF UpsBefore
  <2>8. IF cut THEN m < n ELSE m = n  BY <2>4, <2>7 DEF Raises
  <2>9. m <= n  BY <2>1, <2>6, <2>8
  <2>10. /\ SubSeq(send, 1, m) \in Seq(Nat) /\ Len(SubSeq(send, 1, m)) = m
         /\ \A i \in 1 .. m : SubSeq(send, 1, m)[i] = send[i]
    <3> HIDE DEF m
    <3> QED  BY <2>1, <2>5, <2>6, <2>9, SubSeqProperties
  <2>11. played = SubSeq(send, 1, m)  BY <2>4, <2>6, <2>10, SeqEqual
  <2> QED  BY <2>5, <2>8, <2>11
<1>6. report'.send = send  BY <1>2
<1> QED  BY <1>2, <1>3, <1>4, <1>5, <1>6

\* StepsApply: every step of a pipeline applies where it is played, and no client
\* is left at the end, whatever the scenario, the variant and the unit.
THEOREM StepsApplyHolds == Spec => []StepsApply
BY InvHolds, StepsFit, PTL

\* RunAsAsked: the variables have their types, groups of a run have the size that
\* their name says, and its report shows the numbers of its own job and of the
\* senders exactly those that were raised, or, when the tool stopped the sending,
\* those and some that were not.
THEOREM RunAsAskedHolds == Spec => RunAsAsked
<1> DEFINE Matches == report' # report /\ report' # NoReport =>
                        /\ report'.run = job.run
                        /\ report'.connection = job.connection
                        /\ report'.concurrent = job.concurrent
                        /\ played = SubSeq(report'.send, 1, Len(played))
                        /\ IF cut THEN Len(played) < Len(report'.send)
                                  ELSE Len(played) = Len(report'.send)
                        /\ report'.servers = job.servers
<1>1. Inv => TypeOK /\ GroupsAsNamed  BY DEF Inv
<1>2. Inv /\ [Next]_vars => [Matches]_vars  BY ReportFits
<1>3. Spec => [](TypeOK /\ GroupsAsNamed)  BY <1>1, InvHolds, PTL
<1>4. Spec => [][Matches]_vars  BY <1>2, InvHolds, PTL DEF Spec
<1>5. Spec => ReportMatchesRun  BY <1>4, PTL DEF ReportMatchesRun
<1> QED  BY <1>3, <1>5, PTL DEF RunAsAsked
==============================================================================
