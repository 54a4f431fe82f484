------------------------------ MODULE HubClient ------------------------------
(***************************************************************************)
(* The SignalR client of the chat sample's page (wwwroot/scripts/          *)
(* signalr.js): HubConnection over HttpConnection over a WebSocket, a      *)
(* server-sent-events or a long-polling transport.                         *)
(*                                                                         *)
(* The client is one record, client; what one turn of JavaScript does to   *)
(* it is an operator from client to client.  An `await' ends a turn: the   *)
(* coroutines of start, stop and send are records with a label.  A         *)
(* coroutine whose promise has settled goes on before the browser delivers *)
(* the next event (microtasks come before tasks).  Errors are not told     *)
(* apart; tokens, urls and logging are left out.                           *)
(***************************************************************************)
EXTENDS Naturals, Sequences, FiniteSets, SequencesExt

CONSTANTS Offers,        \* what a negotiation may offer: sequences of transports
          Usable,        \* the transports resolveTransport accepts here
          MAX_REDIRECTS,
          MaxStarts, MaxStops, MaxInvocations  \* bounds on the program's calls

Kinds == {"WebSockets", "ServerSentEvents", "LongPolling"}

ASSUME ClientConstants ==
    /\ Usable \subseteq Kinds /\ \A o \in Offers : o \in Seq(Kinds)
    /\ MAX_REDIRECTS \in Nat \ {0}
    /\ MaxStarts \in Nat /\ MaxStops \in Nat /\ MaxInvocations \in Nat

\* What the sample's server offers, for Offers in an instance.
SampleOffers == {<<"WebSockets", "ServerSentEvents", "LongPolling">>}

VARIABLES client,   \* the client's objects
          stopped,  \* history: calls of stop by the program
          answered  \* history: <<the invocation answered, the one it was sent for>>

vars == <<client, stopped, answered>>

Init ==
    /\ client = [conn       |-> "Disconnected",
                 starts     |-> <<>>,    \* calls of start; the last one is startPromise
                 stops      |-> <<>>,    \* calls of stop that have not returned
                 transport  |-> 0,       \* index in ts, 0 for null
                 ts         |-> <<>>,    \* the transports constructed
                 keepAlive  |-> FALSE,   \* features.inherentKeepAlive
                 received   |-> FALSE,   \* receivedHandshakeResponse
                 nextId     |-> 0,
                 callbacks  |-> <<>>,    \* from invocation ids to indexes in invs
                 invs       |-> <<>>,    \* the calls of invoke and stream
                 timer      |-> FALSE,   \* timeoutHandle refers to an armed timer
                 armed      |-> 0,       \* armed timers
                 posts      |-> <<>>]    \* requests of sendMessage under way
    /\ stopped = 0
    /\ answered = {}

-----------------------------------------------------------------------------
(* The server timeout *)

\* Mutant: the handle is forgotten, and its timer stays armed.
cleanupTimeoutMutant(c) == [c EXCEPT !.timer = FALSE]

cleanupTimeout(c) ==
    [c EXCEPT !.timer = FALSE, !.armed = IF c.timer THEN @ - 1 ELSE @]

configureTimeout(c) ==
    IF c.keepAlive THEN c ELSE [c EXCEPT !.timer = TRUE, !.armed = @ + 1]

-----------------------------------------------------------------------------
(* Closing *)

Settled(c, S, s) == [c EXCEPT !.invs = [i \in DOMAIN @ |->
                        IF i \in S /\ @[i].status = "pending"
                        THEN [@[i] EXCEPT !.status = s] ELSE @[i]]]

Pending(c) == {c.callbacks[id] : id \in DOMAIN c.callbacks}

\* Mutant: the callbacks are kept for the next connection.
connectionClosedMutant(c) == cleanupTimeout(c)

connectionClosed(c) ==
    cleanupTimeout([Settled(c, Pending(c), "failed") EXCEPT !.callbacks = <<>>])

\* The transport's onclose.
stopConnection(c) == connectionClosed([c EXCEPT !.transport = 0, !.conn = "Disconnected"])

\* Mutant: only a connection that is still marked as connected is told.
ClosedMutant(c, t) ==
    LET d == [c EXCEPT !.ts[t].phase = "closed", !.ts[t].running = FALSE]
    IN  IF c.ts[t].handled /\ c.conn = "Connected" THEN stopConnection(d) ELSE d

Closed(c, t) ==
    LET d == [c EXCEPT !.ts[t].phase = "closed", !.ts[t].running = FALSE]
    IN  IF c.ts[t].handled THEN stopConnection(d) ELSE d

\* HttpConnection.stop up to its first await.
stop(c) == [c EXCEPT !.conn = "Disconnected",
                     !.stops = Append(@, [pc |-> "start", of |-> Len(c.starts)])]

-----------------------------------------------------------------------------
(* Sending.  A message is <<"handshake", s>> or <<"invoke", i, id>>.       *)

CanSend(c) ==
    /\ c.conn = "Connected" /\ c.transport # 0
    /\ LET t == c.ts[c.transport]
       IN  CASE t.kind = "WebSockets"       -> t.phase = "open"
             [] t.kind = "ServerSentEvents" -> t.phase = "open"
             [] t.kind = "LongPolling"      -> t.running

\* A WebSocket takes the message at once, the others post it.
Send(c, m) ==
    IF c.ts[c.transport].kind = "WebSockets"
    THEN [c EXCEPT !.ts[c.transport].got = @ \cup {m}]
    ELSE [c EXCEPT !.posts = Append(@, [t |-> c.transport, m |-> m])]

\* What the sender's promise does when the message is taken or refused.
Sent(c, m, ok) ==
    IF m[1] = "handshake"
    THEN IF ok THEN [configureTimeout(cleanupTimeout(c)) EXCEPT !.starts[m[2]].pc = "resolved"]
         ELSE [c EXCEPT !.starts[m[2]].pc = "rejected"]
    ELSE IF ok THEN c
    ELSE [Settled(c, {m[2]}, "failed") EXCEPT
             !.callbacks = [id \in DOMAIN @ \ {m[3]} |-> @[id]]]

SendOrFail(c, m) ==
    IF ~CanSend(c) THEN Sent(c, m, FALSE)
    ELSE IF c.ts[c.transport].kind = "WebSockets" THEN Sent(Send(c, m), m, TRUE)
    ELSE Send(c, m)

-----------------------------------------------------------------------------
(* Starting *)

NewTransport(kind) == [kind |-> kind, phase |-> "new", handled |-> FALSE,
                       running |-> FALSE, got |-> {}, hs |-> FALSE]

Resume(c, s, outcome) == [c EXCEPT !.starts[s].pc = "resume", !.starts[s].inner = outcome]

\* The catch of startInternal.
StartFails(c, s) == Resume([c EXCEPT !.conn = "Disconnected", !.transport = 0], s, "rejected")

\* One round of createTransport's loop: the next endpoint that can be used.
\* Once a transport has failed its connection id is gone, and a new one is
\* negotiated first.
createTransport(c, s, offer, again) ==
    LET usable == {i \in DOMAIN offer : offer[i] \in Usable}
        i      == CHOOSE n \in usable : \A m \in usable : n <= m
        t      == Len(c.ts) + 1
    IN  IF usable = {} THEN StartFails(c, s)
        ELSE [c EXCEPT !.conn = "Connecting",
                       !.ts = Append(@, NewTransport(offer[i])),
                       !.transport = t,
                       !.starts[s].t = t,
                       !.starts[s].rest = SubSeq(offer, i + 1, Len(offer)),
                       !.starts[s].pc = IF again THEN "renegotiate" ELSE "connect"]

changeState(c, from, to) == IF c.conn = from THEN [c EXCEPT !.conn = to] ELSE c

\* startInternal after its transport has connected: `this.transport' gets the handlers.
Connected(c, s) ==
    LET d == [changeState(c, "Connecting", "Connected") EXCEPT
                 !.ts[c.transport].handled = TRUE,
                 !.keepAlive = @ \/ c.ts[c.transport].kind = "LongPolling"]
    IN  IF c.transport = 0
        THEN StartFails(changeState(c, "Connecting", "Connected"), s)
        ELSE Resume(d, s, "resolved")

\* An await has ended: its coroutine goes on before the next event.
CanResume(c) ==
    \/ \E s \in DOMAIN c.starts : c.starts[s].pc = "resume"
    \/ \E k \in DOMAIN c.stops :
          /\ c.stops[k].pc = "start"
          /\ c.stops[k].of # 0 => c.starts[c.stops[k].of].inner # "pending"
Event == ~CanResume(client)

\* The program calls start.  Whatever the state, the handshake is awaited anew.
start ==
    /\ Event /\ Len(client.starts) < MaxStarts
    /\ LET s == [pc |-> "negotiate", inner |-> "pending", redirects |-> 0, t |-> 0, rest |-> <<>>]
       IN  IF client.conn # "Disconnected"
           THEN client' = [client EXCEPT !.received = FALSE]
           ELSE client' = [client EXCEPT !.received = FALSE, !.conn = "Connecting",
                                         !.starts = Append(@, s)]
    /\ UNCHANGED <<stopped, answered>>

Negotiated(s) ==
    /\ Event /\ client.starts[s].pc = "negotiate"
    /\ \/ client' = StartFails(client, s)
       \/ /\ client.conn = "Disconnected"
          /\ client' = Resume(client, s, "resolved")
       \/ /\ client.conn # "Disconnected"                      \* a redirection
          /\ client' = IF client.starts[s].redirects + 1 = MAX_REDIRECTS
                       THEN StartFails(client, s)
                       ELSE [client EXCEPT !.starts[s].redirects = @ + 1]
       \/ /\ client.conn # "Disconnected"
          /\ \E offer \in Offers : client' = createTransport(client, s, offer, FALSE)
    /\ UNCHANGED <<stopped, answered>>

Renegotiated(s) ==
    /\ Event /\ client.starts[s].pc = "renegotiate"
    /\ \/ client' = StartFails(client, s)
       \/ client' = [client EXCEPT !.starts[s].pc = "connect"]
    /\ UNCHANGED <<stopped, answered>>

\* The transport's connect settles.  A first poll that is answered with another
\* success than 200 ends the loop before the handlers are set, and connects.
Connect(s) ==
    /\ Event /\ client.starts[s].pc = "connect"
    /\ LET t == client.starts[s].t IN
       \/ client' = Connected([client EXCEPT !.ts[t].phase = "open",
                     !.ts[t].running = client.ts[t].kind = "LongPolling"], s)
       \/ /\ client.ts[t].kind = "LongPolling"
          /\ client' = Connected([client EXCEPT !.ts[t].phase = "closed"], s)
       \/ client' = createTransport([client EXCEPT !.ts[t].phase = "closed",
                                                   !.conn = "Disconnected"],
                                    s, client.starts[s].rest, TRUE)
    /\ UNCHANGED <<stopped, answered>>

\* HubConnection.start goes on: the handshake is sent.
StartResumes(s) ==
    /\ client.starts[s].pc = "resume"
    /\ client' = IF client.starts[s].inner = "rejected"
                 THEN [client EXCEPT !.starts[s].pc = "rejected"]
                 ELSE SendOrFail([client EXCEPT !.starts[s].pc = "send"], <<"handshake", s>>)
    /\ UNCHANGED <<stopped, answered>>

-----------------------------------------------------------------------------
(* Stopping *)

Stop ==
    /\ Event /\ stopped < MaxStops
    /\ client' = stop(cleanupTimeout(client))
    /\ stopped' = stopped + 1
    /\ UNCHANGED answered

\* The rest of HttpConnection.stop once startPromise has settled: what stop does
\* on the transport, and for long polling the wait for the DELETE request.
StopResumes(k) ==
    /\ client.stops[k].pc = "start"
    /\ client.stops[k].of # 0 => client.starts[client.stops[k].of].inner # "pending"
    /\ LET t == client.transport
           c == [client EXCEPT !.stops = RemoveAt(@, k)]
       IN  client' =
           IF t = 0 THEN c
           ELSE IF c.ts[t].kind = "LongPolling"
           THEN [client EXCEPT !.ts[t].running = FALSE, !.stops[k].pc = "delete"]
           ELSE IF c.ts[t].phase # "open" THEN [c EXCEPT !.transport = 0]
           ELSE IF c.ts[t].kind = "WebSockets"
           THEN [c EXCEPT !.ts[t].phase = "closing", !.transport = 0]
           ELSE [Closed(c, t) EXCEPT !.transport = 0]
    /\ UNCHANGED <<stopped, answered>>

\* The DELETE request is answered: the field is cleared, whatever it holds by then.
Deleted(k) ==
    /\ Event /\ client.stops[k].pc = "delete"
    /\ LET c == [client EXCEPT !.stops = RemoveAt(@, k)]
       IN  client' = c \/ client' = [c EXCEPT !.transport = 0]
    /\ UNCHANGED <<stopped, answered>>

serverTimeout ==
    /\ Event
    /\ client.armed > 0
    /\ client' = stop([client EXCEPT !.armed = @ - 1, !.timer = @ /\ client.armed > 1])
    /\ UNCHANGED <<stopped, answered>>

-----------------------------------------------------------------------------
(* Calls of the hub's methods *)

\* Mutant: ids start again with each connection.
createInvocationMutant(c) == IF DOMAIN c.callbacks = {} THEN 0 ELSE c.nextId

createInvocation(c) == c.nextId

\* invoke and stream; send is invoke without a callback and changes nothing here.
Invoke(kind) ==
    /\ Event /\ Len(client.invs) < MaxInvocations
    /\ LET id == createInvocation(client)
           i  == Len(client.invs) + 1
           c  == [client EXCEPT !.nextId = id + 1,
                                !.invs = Append(@, [kind |-> kind, status |-> "pending"]),
                                !.callbacks = [x \in DOMAIN @ \cup {id} |-> IF x = id THEN i ELSE @[x]]]
       IN  client' = IF c.conn # "Connected" \/ c.transport = 0
                     THEN Settled(c, {i}, "failed")              \* send throws
                     ELSE SendOrFail(c, <<"invoke", i, id>>)
    /\ UNCHANGED <<stopped, answered>>

\* The last observer of a stream leaves: its callback goes and the server is told.
dispose ==
    /\ Event
    /\ \E id \in DOMAIN client.callbacks :
          LET i == client.callbacks[id]
              c == [Settled(client, {i}, "cancelled") EXCEPT
                       !.callbacks = [x \in DOMAIN @ \ {id} |-> @[x]]]
          IN  /\ client.invs[i].kind = "stream"
              /\ client' = IF CanSend(c) THEN Send(c, <<"cancel", i, id>>) ELSE c
    /\ UNCHANGED <<stopped, answered>>

\* A posted message reaches the server or not, and the request succeeds or not.
Posted ==
    /\ Event /\ client.posts # <<>>
    /\ LET p == Head(client.posts)
           c == [client EXCEPT !.posts = Tail(@)]
           d == [c EXCEPT !.ts[p.t].got = @ \cup {p.m}]
       IN  client' \in {Sent(d, p.m, TRUE), Sent(d, p.m, FALSE), Sent(c, p.m, FALSE)}
    /\ UNCHANGED <<stopped, answered>>

-----------------------------------------------------------------------------
(* Receiving.  A chunk is a handshake response ("ok", "error", "bad") or     *)
(* none, and one message or none after it.                                 *)

NoMessage == [type |-> "none"]

\* One message of the loop of processIncomingData.
Dispatch(c, m) ==
    CASE m.type = "completion" /\ m.id \in DOMAIN c.callbacks ->
            LET i == c.callbacks[m.id]
            IN  Settled([c EXCEPT !.callbacks = [x \in DOMAIN @ \ {m.id} |-> @[x]]],
                        {i}, "answered")
      [] m.type \in {"close", "request"} -> stop(c)   \* a request for a response is refused
      [] m.type = "item" /\ m.id \in DOMAIN c.callbacks ->
            IF c.invs[c.callbacks[m.id]].kind = "stream" THEN c
            ELSE Settled(c, {c.callbacks[m.id]}, "failed")       \* "Unexpected message type"
      [] OTHER -> c                                   \* pings, calls of client methods

processHandshakeResponse(c, hs) == IF hs = "ok" THEN c ELSE stop(c)

\* The result and whether the chunk was refused with an exception.
processIncomingData(c, chunk) ==
    LET b    == cleanupTimeout(c)
        hs   == processHandshakeResponse(b, chunk.hs)
        bad  == IF c.received THEN chunk.hs # "none" ELSE chunk.hs \in {"none", "bad"}
        read == [hs EXCEPT !.received = TRUE]
    IN  IF ~bad
        THEN [c |-> configureTimeout(Dispatch(IF c.received THEN b ELSE read, chunk.m)),
              thrown |-> FALSE]
        ELSE [c |-> IF c.received THEN b ELSE hs, thrown |-> TRUE]

\* What the server may send on transport t: one handshake response, then messages.
Chunks(t) ==
    IF t.hs
    THEN [hs : {"none"},
          m : {[type |-> "ping"], [type |-> "close"], [type |-> "request"]}
              \cup {[type |-> x, id |-> g[3]] : x \in {"completion", "item"},
                                               g \in {h \in t.got : h[1] = "invoke"}}]
    ELSE [hs : IF \E h \in t.got : h[1] = "handshake" THEN {"ok", "error", "bad"} ELSE {},
          m : {NoMessage, [type |-> "close"]}]

\* The outcome r on transport t: a web socket hands an exception on, server-sent
\* events close for it, and so does a poll, also when it was told to end.
Received(c, t, r) ==
    CASE c.ts[t].kind = "WebSockets" -> r.c
      [] c.ts[t].kind = "ServerSentEvents" -> IF r.thrown THEN stopConnection(r.c) ELSE r.c
      [] OTHER -> IF r.thrown \/ ~c.ts[t].running THEN Closed(r.c, t) ELSE r.c

\* The calls a chunk has answered, each with the call whose id it bears.
Answers(c, t, chunk, d) ==
    {<<i, g[2]>> :
        g \in {h \in c.ts[t].got : h[1] = "invoke" /\ chunk.m.type = "completion"
                                   /\ h[3] = chunk.m.id},
        i \in {j \in DOMAIN c.invs :
                c.invs[j].status = "pending" /\ d.invs[j].status = "answered"}}

Receive(t) ==
    /\ Event /\ client.ts[t].phase = "open" /\ client.ts[t].handled
    /\ \E chunk \in Chunks(client.ts[t]) :
          LET c == [client EXCEPT !.ts[t].hs = TRUE]
              r == processIncomingData(c, chunk)
          IN  /\ client' = Received(c, t, r)
              /\ answered' = answered \cup Answers(c, t, chunk, r.c)
    /\ UNCHANGED stopped

\* The server or the network closes the transport, or the closing handshake of a
\* WebSocket ends.  A poll ends with 204, another status, or an error; one that
\* times out is issued again while the transport runs.
TransportCloses(t) ==
    /\ Event /\ client.ts[t].phase \in {"open", "closing"}
    /\ client' = Closed(client, t)
    /\ UNCHANGED <<stopped, answered>>

-----------------------------------------------------------------------------
Starting == \E s \in DOMAIN client.starts : Negotiated(s) \/ Renegotiated(s) \/ Connect(s)
Resuming == \/ \E s \in DOMAIN client.starts : StartResumes(s)
            \/ \E k \in DOMAIN client.stops : StopResumes(k)
Deleting == \E k \in DOMAIN client.stops : Deleted(k)
Program  == start \/ Stop \/ Invoke("invoke") \/ Invoke("stream") \/ dispose
Network  == \E t \in DOMAIN client.ts : Receive(t) \/ TransportCloses(t)

Next == Starting \/ Resuming \/ Deleting \/ Program \/ Network \/ Posted \/ serverTimeout

Spec == Init /\ [][Next]_vars

\* Coroutines go on; every request is answered or times out (a poll after 90
\* seconds); a socket or poll that is being closed ends.
Ending(t) == /\ client.ts[t].phase = "closing" \/ (client.ts[t].kind = "LongPolling" /\ ~client.ts[t].running)
             /\ TransportCloses(t)
Fairness ==
    /\ WF_vars(Resuming) /\ WF_vars(Deleting) /\ WF_vars(Posted)
    /\ \A s \in 1..MaxStarts :
          WF_vars(s \in DOMAIN client.starts /\ (Negotiated(s) \/ Renegotiated(s) \/ Connect(s)))
    /\ \A t \in 1..(3 * MaxStarts) : WF_vars(t \in DOMAIN client.ts /\ Ending(t))
FairSpec == Spec /\ Fairness

-----------------------------------------------------------------------------
(* Properties *)

\* A completion settles the call it answers: ids are never given twice, so a
\* late answer does not reach a later call (createInvocation, callbacks).
AnsweredOwn == \A a \in answered : a[1] = a[2]

\* There is never an armed timer that no handle refers to, which would close a
\* connection that is alive (cleanupTimeout before every configureTimeout).
OneTimer == client.armed <= 1

StartsOver == \A s \in DOMAIN client.starts : client.starts[s].pc \in {"resolved", "rejected"}

\* Nothing is under way that could still end the connection or a call.
Dead ==
    /\ client.conn = "Disconnected" /\ client.stops = <<>> /\ client.posts = <<>> /\ StartsOver
    /\ \A t \in DOMAIN client.ts :
          LET x == client.ts[t]
          IN  x.phase # "closing" /\ ~(x.kind = "LongPolling" /\ x.phase = "open")

\* When a connection is over nobody waits for it any more: each way it ends has
\* rejected the calls that have no answer.
SettledWhenDead == Dead => \A i \in DOMAIN client.invs : client.invs[i].status # "pending"

\* A call that is outstanding when the connection stops is settled in the end,
\* whichever transport has to be closed and whatever requests are under way.
StopSettles ==
    \A i \in 1..MaxInvocations :
       (client.conn = "Disconnected" /\ StartsOver /\ i \in DOMAIN client.invs)
          ~> (i \in DOMAIN client.invs /\ client.invs[i].status # "pending")

==============================================================================
