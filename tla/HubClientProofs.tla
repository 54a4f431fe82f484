--------------------------- MODULE HubClientProofs ---------------------------
(* Promises of HubClient, for any transports, redirections and numbers of  *)
(* calls: there is one armed timer at most; a completion settles the call  *)
(* it answers; and a client that is started once leaves no call waiting    *)
(* when its connection is over.  Each operator from client to client is    *)
(* shown to keep a client good and sound; the actions only compose them.   *)
EXTENDS HubClient, WellFoundedInduction, TLAPS

IsSeq(f) == \E S : f \in Seq(S)

Fields == {"conn", "starts", "stops", "transport", "ts", "keepAlive", "received",
           "nextId", "callbacks", "invs", "timer", "armed", "posts"}

\* The client has its fields, and every transport what the server has got on it.
Shape(c) ==
    /\ Fields \subseteq DOMAIN c
    /\ IsSeq(c.ts) /\ IsSeq(c.posts)
    /\ \A t \in DOMAIN c.ts : "got" \in DOMAIN c.ts[t]

\* A timer is armed exactly when the handle refers to one.
Clock(c) == c.timer \in BOOLEAN /\ c.armed = IF c.timer THEN 1 ELSE 0

\* The messages the server has, and those that are being posted.
Mail(c) == (UNION {c.ts[t].got : t \in DOMAIN c.ts}) \cup {c.posts[k].m : k \in DOMAIN c.posts}

\* The id of a message was given to its call and to no other.
Own(c, m) ==
    m[1] # "handshake" =>
        /\ m[3] \in Nat /\ m[3] < c.nextId
        /\ m[3] \in DOMAIN c.callbacks => c.callbacks[m[3]] = m[2]

Owned(c) ==
    /\ c.nextId \in Nat
    /\ \A id \in DOMAIN c.callbacks : id \in Nat /\ id < c.nextId
    /\ \A m \in Mail(c) : Own(c, m)

Good(c) == Shape(c) /\ Clock(c) /\ Owned(c)

-----------------------------------------------------------------------------
(* Sequences *)

LEMMA SeqAppend ==
  ASSUME NEW f, IsSeq(f), NEW e
  PROVE  /\ IsSeq(Append(f, e))
         /\ Len(f) \in Nat
         /\ DOMAIN f = 1 .. Len(f)
         /\ DOMAIN Append(f, e) = 1 .. Len(f) + 1
         /\ \A i \in 1 .. Len(f) : Append(f, e)[i] = f[i]
         /\ Append(f, e)[Len(f) + 1] = e
<1>1. PICK S : f \in Seq(S)  BY DEF IsSeq
<1>2. f \in Seq(S \cup {e})  BY <1>1
<1>3. Append(f, e) \in Seq(S \cup {e})  BY <1>2
<1> QED  BY <1>2, <1>3 DEF IsSeq

LEMMA SeqExcept ==
  ASSUME NEW f, IsSeq(f), NEW i, NEW e
  PROVE  /\ IsSeq([f EXCEPT ![i] = e])
         /\ DOMAIN [f EXCEPT ![i] = e] = DOMAIN f
<1>1. PICK S : f \in Seq(S)  BY DEF IsSeq
<1>2. Len(f) \in Nat /\ f \in [1 .. Len(f) -> S]  BY <1>1
<1>3. [f EXCEPT ![i] = e] \in [1 .. Len(f) -> S \cup {e}]  BY <1>2
<1>4. [f EXCEPT ![i] = e] \in Seq(S \cup {e})  BY <1>2, <1>3
<1> QED  BY <1>2, <1>3, <1>4 DEF IsSeq

LEMMA SeqTail ==
  ASSUME NEW f, IsSeq(f), f # <<>>
  PROVE  /\ IsSeq(Tail(f))
         /\ 1 \in DOMAIN f /\ Head(f) = f[1]
         /\ \A i \in DOMAIN Tail(f) : i + 1 \in DOMAIN f /\ Tail(f)[i] = f[i + 1]
<1>1. PICK S : f \in Seq(S)  BY DEF IsSeq
<1>2. Tail(f) \in Seq(S)  BY <1>1
<1> QED  BY <1>1, <1>2 DEF IsSeq

-----------------------------------------------------------------------------
(* What keeps a client good *)

\* From c to d no callback and no message is added.
Fewer(c, d) ==
    /\ d.nextId = c.nextId
    /\ DOMAIN d.callbacks \subseteq DOMAIN c.callbacks
    /\ \A id \in DOMAIN d.callbacks : d.callbacks[id] = c.callbacks[id]
    /\ Mail(d) \subseteq Mail(c)

LEMMA FewerGood ==
  ASSUME NEW c, NEW d, Good(c), Shape(d), Clock(d), Fewer(c, d)
  PROVE  Good(d)
BY DEF Good, Fewer, Owned, Own

\* The transports are those of before, with the same messages.
Carried(f, g) ==
    /\ IsSeq(g) /\ DOMAIN g = DOMAIN f
    /\ \A t \in DOMAIN g : "got" \in DOMAIN g[t] /\ g[t].got = f[t].got

\* From c to d only fields change that neither theorem is about.
Calm(c, d) ==
    /\ Fields \subseteq DOMAIN d
    /\ Carried(c.ts, d.ts) /\ d.posts = c.posts
    /\ d.timer = c.timer /\ d.armed = c.armed
    /\ d.nextId = c.nextId /\ d.callbacks = c.callbacks

LEMMA CalmGood ==
  ASSUME NEW c, NEW d, Good(c), Calm(c, d)
  PROVE  Good(d)
<1>1. Mail(d) = Mail(c)  BY DEF Calm, Carried, Mail
<1>2. Shape(d) /\ Clock(d)  BY DEF Good, Shape, Clock, Calm, Carried
<1>3. Fewer(c, d)  BY <1>1 DEF Calm, Fewer
<1> QED  BY <1>2, <1>3, FewerGood

LEMMA CalmTrans ==
  ASSUME NEW c, NEW d, NEW e, Calm(c, d), Calm(d, e)
  PROVE  Calm(c, e)
BY DEF Calm, Carried

LEMMA CarriedSame ==
  ASSUME NEW c, Good(c)
  PROVE  Carried(c.ts, c.ts)
BY DEF Carried, Good, Shape

\* One field of one transport is assigned.
LEMMA CarriedField ==
  ASSUME NEW f, NEW g, Carried(f, g), NEW t, NEW x
  PROVE  /\ Carried(f, [g EXCEPT ![t].phase = x])
         /\ Carried(f, [g EXCEPT ![t].handled = x])
         /\ Carried(f, [g EXCEPT ![t].running = x])
         /\ Carried(f, [g EXCEPT ![t].hs = x])
<1> SUFFICES ASSUME NEW n \in {"phase", "handled", "running", "hs"}
             PROVE  Carried(f, [g EXCEPT ![t][n] = x])
  OBVIOUS
<1> DEFINE h == [g EXCEPT ![t] = [g[t] EXCEPT ![n] = x]]
<1>1. IsSeq(h) /\ DOMAIN h = DOMAIN g  BY SeqExcept DEF Carried
<1>2. ASSUME NEW u \in DOMAIN g
      PROVE  "got" \in DOMAIN h[u] /\ h[u].got = g[u].got
  <2>1. "got" \in DOMAIN g[u]  BY <1>2 DEF Carried
  <2>2. n # "got"  OBVIOUS
  <2> QED  BY <1>2, <2>1, <2>2
<1>3. Carried(f, h)  BY <1>1, <1>2 DEF Carried
<1> QED  BY <1>3

-----------------------------------------------------------------------------
(* The operators from client to client *)

LEMMA CleanGood ==
  ASSUME NEW c, Good(c)
  PROVE  Good(cleanupTimeout(c)) /\ cleanupTimeout(c).timer = FALSE
<1> DEFINE d == cleanupTimeout(c)
<1>1. /\ Fields \subseteq DOMAIN d /\ d.timer = FALSE /\ d.armed = 0
      /\ d.ts = c.ts /\ d.posts = c.posts /\ d.nextId = c.nextId
      /\ d.callbacks = c.callbacks
  BY DEF cleanupTimeout, Good, Shape, Clock, Fields
<1> HIDE DEF d
<1>2. Shape(d) /\ Clock(d) /\ Fewer(c, d)
  BY <1>1 DEF Good, Shape, Clock, Fewer, Mail
<1>3. Good(d)  BY <1>2, FewerGood
<1> QED  BY <1>1, <1>3 DEF d

LEMMA ConfigureGood ==
  ASSUME NEW c, Good(c), c.timer = FALSE
  PROVE  Good(configureTimeout(c))
<1> DEFINE d == [c EXCEPT !.timer = TRUE, !.armed = @ + 1]
<1>1. /\ Fields \subseteq DOMAIN d /\ d.timer = TRUE /\ d.armed = 1
      /\ d.ts = c.ts /\ d.posts = c.posts /\ d.nextId = c.nextId
      /\ d.callbacks = c.callbacks
  BY DEF Good, Shape, Clock, Fields
<1> HIDE DEF d
<1>2. Shape(d) /\ Clock(d) /\ Fewer(c, d)
  BY <1>1 DEF Good, Shape, Clock, Fewer, Mail
<1>3. Good(d)  BY <1>2, FewerGood
<1> QED  BY <1>3 DEF configureTimeout, d

LEMMA SettledCalm ==
  ASSUME NEW c, Good(c), NEW S, NEW s
  PROVE  Calm(c, Settled(c, S, s))
BY CarriedSame DEF Settled, Calm, Good, Shape, Fields

\* Callbacks may go.
LEMMA CallbacksGo ==
  ASSUME NEW c, Good(c), NEW f, DOMAIN f \subseteq DOMAIN c.callbacks,
         \A id \in DOMAIN f : f[id] = c.callbacks[id]
  PROVE  /\ Good([c EXCEPT !.callbacks = f])
         /\ [c EXCEPT !.callbacks = f].timer = c.timer
<1> DEFINE d == [c EXCEPT !.callbacks = f]
<1>1. /\ Fields \subseteq DOMAIN d /\ d.timer = c.timer /\ d.armed = c.armed
      /\ d.ts = c.ts /\ d.posts = c.posts /\ d.nextId = c.nextId
      /\ d.callbacks = f
  BY DEF Good, Shape, Fields
<1> HIDE DEF d
<1>2. Shape(d) /\ Clock(d) /\ Fewer(c, d)
  BY <1>1 DEF Good, Shape, Clock, Fewer, Mail
<1>3. Good(d)  BY <1>2, FewerGood
<1> QED  BY <1>1, <1>3 DEF d

LEMMA ClosedGood ==
  ASSUME NEW c, Good(c)
  PROVE  /\ Good(connectionClosed(c)) /\ Good(stopConnection(c))
         /\ \A t : Good(Closed(c, t))
<1>1. ASSUME NEW d, Good(d) PROVE Good(connectionClosed(d))
  <2> DEFINE e == Settled(d, Pending(d), "failed")
  <2>1. Good(e)  BY <1>1, SettledCalm, CalmGood
  <2> HIDE DEF e
  <2>2. DOMAIN (<<>>) = {}  OBVIOUS
  <2>3. Good([e EXCEPT !.callbacks = <<>>])  BY <2>1, <2>2, CallbacksGo
  <2> QED  BY <2>3, CleanGood DEF connectionClosed, e
<1>2. ASSUME NEW d, Good(d) PROVE Good(stopConnection(d))
  <2> DEFINE e == [d EXCEPT !.transport = 0, !.conn = "Disconnected"]
  <2>1. Calm(d, e)  BY <1>2, CarriedSame DEF Calm, Good, Shape, Fields
  <2> HIDE DEF e
  <2>2. Good(e)  BY <1>2, <2>1, CalmGood
  <2> QED  BY <1>1, <2>2 DEF stopConnection, e
<1>3. ASSUME NEW t PROVE Good(Closed(c, t))
  <2> DEFINE f == [c.ts EXCEPT ![t].phase = "closed"]
             g == [f EXCEPT ![t].running = FALSE]
             d == [c EXCEPT !.ts[t].phase = "closed", !.ts[t].running = FALSE]
  <2>1. Carried(c.ts, f)  BY CarriedSame, CarriedField
  <2> HIDE DEF f
  <2>2. Carried(c.ts, g)  BY <2>1, CarriedField
  <2>3. Calm(c, d)
    <3>1. d.ts = g  BY DEF Good, Shape, Fields, f
    <3> HIDE DEF g
    <3> QED  BY <2>2, <3>1 DEF Calm, Good, Shape, Fields
  <2>4. Good(d)  BY <2>3, CalmGood
  <2> HIDE DEF d
  <2>5. Good(stopConnection(d))  BY <1>2, <2>4
  <2> QED  BY <2>4, <2>5 DEF Closed, d
<1> QED  BY <1>1, <1>2, <1>3

LEMMA StopCalm ==
  ASSUME NEW c, Good(c)
  PROVE  Calm(c, stop(c))
BY CarriedSame DEF stop, Calm, Good, Shape, Fields

-----------------------------------------------------------------------------
(* Sending *)

\* A message may be given to a transport or posted whose id is its own.
LEMMA SendGood ==
  ASSUME NEW c, Good(c), NEW m, Own(c, m)
  PROVE  Good(Send(c, m)) /\ Own(Send(c, m), m)
<1>1. CASE c.ts[c.transport].kind = "WebSockets"
  <2> DEFINE tr == c.transport
             e == [c.ts[tr] EXCEPT !.got = @ \cup {m}]
             f == [c.ts EXCEPT ![tr] = e]
             d == [c EXCEPT !.ts = f]
  <2>1. Send(c, m) = d  BY <1>1 DEF Send
  <2>2. IsSeq(f) /\ DOMAIN f = DOMAIN c.ts  BY SeqExcept DEF Good, Shape
  <2>3. ASSUME NEW t \in DOMAIN f
        PROVE  "got" \in DOMAIN f[t] /\ f[t].got \subseteq c.ts[t].got \cup {m}
    <3>1. "got" \in DOMAIN c.ts[t]  BY <2>2, <2>3 DEF Good, Shape
    <3> QED  BY <2>2, <2>3, <3>1
  <2> HIDE DEF f
  <2>4. /\ Fields \subseteq DOMAIN d /\ d.ts = f /\ d.posts = c.posts
        /\ d.timer = c.timer /\ d.armed = c.armed
        /\ d.nextId = c.nextId /\ d.callbacks = c.callbacks
    BY DEF Good, Shape, Fields
  <2> HIDE DEF d
  <2>5. Mail(d) \subseteq Mail(c) \cup {m}  BY <2>2, <2>3, <2>4 DEF Mail
  <2>6. Shape(d) /\ Clock(d)  BY <2>2, <2>3, <2>4 DEF Good, Shape, Clock
  <2>7. Owned(d) /\ Own(d, m)  BY <2>4, <2>5 DEF Good, Owned, Own
  <2> QED  BY <2>1, <2>6, <2>7 DEF Good
<1>2. CASE c.ts[c.transport].kind # "WebSockets"
  <2> DEFINE q == [t |-> c.transport, m |-> m]
             p == Append(c.posts, q)
             d == [c EXCEPT !.posts = p]
  <2>1. Send(c, m) = d  BY <1>2 DEF Send
  <2>2. IsSeq(p) /\ \A k \in DOMAIN p : p[k].m = m \/ (k \in DOMAIN c.posts /\ p[k] = c.posts[k])
    <3>1. IsSeq(c.posts) /\ q.m = m  BY DEF Good, Shape
    <3> HIDE DEF q
    <3> QED  BY <3>1, SeqAppend
  <2> HIDE DEF p
  <2>4. /\ Fields \subseteq DOMAIN d /\ d.posts = p /\ d.ts = c.ts
        /\ d.timer = c.timer /\ d.armed = c.armed
        /\ d.nextId = c.nextId /\ d.callbacks = c.callbacks
    BY DEF Good, Shape, Fields
  <2> HIDE DEF d
  <2>3. ASSUME NEW k \in DOMAIN d.posts
        PROVE  d.posts[k].m \in {c.posts[j].m : j \in DOMAIN c.posts} \cup {m}
    <3>1. k \in DOMAIN p /\ d.posts[k] = p[k]  BY <2>3, <2>4
    <3>2. CASE p[k].m = m  BY <3>1, <3>2
    <3>3. CASE k \in DOMAIN c.posts /\ p[k] = c.posts[k]  BY <3>1, <3>3
    <3> QED  BY <2>2, <3>1, <3>2, <3>3
  <2>5. Mail(d) \subseteq Mail(c) \cup {m}
    <3>1. {d.posts[k].m : k \in DOMAIN d.posts} \subseteq {c.posts[j].m : j \in DOMAIN c.posts} \cup {m}
      BY <2>3
    <3> QED  BY <2>4, <3>1 DEF Mail
  <2>6. Shape(d) /\ Clock(d)  BY <2>2, <2>4 DEF Good, Shape, Clock
  <2>7. Owned(d) /\ Own(d, m)  BY <2>4, <2>5 DEF Good, Owned, Own
  <2> QED  BY <2>1, <2>6, <2>7 DEF Good
<1> QED  BY <1>1, <1>2

LEMMA SentGood ==
  ASSUME NEW c, Good(c), NEW m, NEW ok \in BOOLEAN
  PROVE  Good(Sent(c, m, ok))
<1>1. CASE m[1] = "handshake" /\ ok
  <2> DEFINE e == configureTimeout(cleanupTimeout(c))
             d == [e EXCEPT !.starts[m[2]].pc = "resolved"]
  <2>1. Good(e)  BY CleanGood, ConfigureGood
  <2> HIDE DEF e
  <2>2. Calm(e, d)  BY <2>1, CarriedSame DEF Calm, Good, Shape, Fields
  <2>3. Good(d)  BY <2>1, <2>2, CalmGood
  <2> QED  BY <1>1, <2>3 DEF Sent, e
<1>2. CASE m[1] = "handshake" /\ ~ok
  <2> DEFINE d == [c EXCEPT !.starts[m[2]].pc = "rejected"]
  <2>1. Calm(c, d)  BY CarriedSame DEF Calm, Good, Shape, Fields
  <2>2. Good(d)  BY <2>1, CalmGood
  <2> QED  BY <1>2, <2>2 DEF Sent
<1>3. CASE m[1] # "handshake" /\ ok
  BY <1>3 DEF Sent
<1>4. CASE m[1] # "handshake" /\ ~ok
  <2> DEFINE e == Settled(c, {m[2]}, "failed")
             f == [id \in DOMAIN e.callbacks \ {m[3]} |-> e.callbacks[id]]
  <2>1. Good(e)  BY SettledCalm, CalmGood
  <2> HIDE DEF e
  <2>2. Good([e EXCEPT !.callbacks = f])  BY <2>1, CallbacksGo
  <2> QED  BY <1>4, <2>2 DEF Sent, e
<1> QED  BY <1>1, <1>2, <1>3, <1>4

LEMMA SendOrFailGood ==
  ASSUME NEW c, Good(c), NEW m, Own(c, m)
  PROVE  Good(SendOrFail(c, m))
<1>1. Good(Sent(c, m, FALSE))  BY SentGood
<1>2. Good(Send(c, m))  BY SendGood
<1>3. Good(Sent(Send(c, m), m, TRUE))  BY <1>2, SentGood
<1> QED  BY <1>1, <1>2, <1>3 DEF SendOrFail

-----------------------------------------------------------------------------
(* Starting *)

LEMMA StartingGood ==
  ASSUME NEW c, Good(c), NEW s
  PROVE  /\ \A o : Good(Resume(c, s, o))
         /\ Good(StartFails(c, s))
         /\ \A offer, again : Good(createTransport(c, s, offer, again))
<1>1. ASSUME NEW d, Good(d), NEW o PROVE Good(Resume(d, s, o))
  <2>1. Calm(d, Resume(d, s, o))
    BY <1>1, CarriedSame DEF Resume, Calm, Good, Shape, Fields
  <2> QED  BY <1>1, <2>1, CalmGood
<1>2. Good(StartFails(c, s))
  <2> DEFINE d == [c EXCEPT !.conn = "Disconnected", !.transport = 0]
  <2>1. Calm(c, d)  BY CarriedSame DEF Calm, Good, Shape, Fields
  <2> HIDE DEF d
  <2>2. Good(d)  BY <2>1, CalmGood
  <2> QED  BY <1>1, <2>2 DEF StartFails, d
<1>3. ASSUME NEW t, NEW kind, NEW rest, NEW next
      PROVE  Good([c EXCEPT !.conn = "Connecting", !.ts = Append(@, NewTransport(kind)),
                            !.transport = t, !.starts[s].t = t, !.starts[s].rest = rest,
                            !.starts[s].pc = next])
  <2> DEFINE n == NewTransport(kind)
             f == Append(c.ts, n)
             d == [c EXCEPT !.conn = "Connecting", !.ts = f, !.transport = t,
                            !.starts[s].t = t, !.starts[s].rest = rest, !.starts[s].pc = next]
  <2>1. "got" \in DOMAIN n /\ n.got = {}  BY DEF NewTransport
  <2>2. /\ IsSeq(f)
        /\ \A u \in DOMAIN f : f[u] = n \/ (u \in DOMAIN c.ts /\ f[u] = c.ts[u])
    <3>1. IsSeq(c.ts)  BY DEF Good, Shape
    <3> HIDE DEF n
    <3> QED  BY <3>1, SeqAppend
  <2> HIDE DEF n, f
  <2>3. /\ Fields \subseteq DOMAIN d /\ d.ts = f /\ d.posts = c.posts
        /\ d.timer = c.timer /\ d.armed = c.armed
        /\ d.nextId = c.nextId /\ d.callbacks = c.callbacks
    BY DEF Good, Shape, Fields
  <2> HIDE DEF d
  <2>4. Shape(d) /\ Clock(d)  BY <2>1, <2>2, <2>3 DEF Good, Shape, Clock
  <2>5. \A u \in DOMAIN d.ts : d.ts[u].got \subseteq UNION {c.ts[v].got : v \in DOMAIN c.ts}
    BY <2>1, <2>2, <2>3
  <2>6. Mail(d) \subseteq Mail(c)  BY <2>3, <2>5 DEF Mail
  <2>7. Good(d)  BY <2>3, <2>4, <2>6, FewerGood DEF Fewer
  <2> QED  BY <2>7 DEF d, f, n
<1>4. ASSUME NEW offer, NEW again PROVE Good(createTransport(c, s, offer, again))
  BY <1>2, <1>3 DEF createTransport
<1> QED  BY <1>1, <1>2, <1>4

LEMMA ConnectedGood ==
  ASSUME NEW c, Good(c), NEW s
  PROVE  Good(Connected(c, s))
<1> DEFINE e == changeState(c, "Connecting", "Connected")
           d == [e EXCEPT !.ts[c.transport].handled = TRUE,
                          !.keepAlive = @ \/ c.ts[c.transport].kind = "LongPolling"]
<1>1. Calm(c, e)
  BY CarriedSame DEF changeState, Calm, Good, Shape, Fields
<1>2. Good(e)  BY <1>1, CalmGood
<1> HIDE DEF e
<1>3. Calm(e, d)
  <2> DEFINE f == [e.ts EXCEPT ![c.transport].handled = TRUE]
  <2>1. Carried(e.ts, f)  BY <1>2, CarriedSame, CarriedField
  <2>2. d.ts = f  BY <1>2 DEF Good, Shape, Fields
  <2> HIDE DEF f
  <2> QED  BY <1>2, <2>1, <2>2 DEF Calm, Good, Shape, Fields
<1>4. Good(d)  BY <1>2, <1>3, CalmGood
<1> HIDE DEF d
<1> QED  BY <1>2, <1>4, StartingGood DEF Connected, d, e

-----------------------------------------------------------------------------
(* Receiving *)

LEMMA DispatchGood ==
  ASSUME NEW c, Good(c), NEW m
  PROVE  Good(Dispatch(c, m)) /\ Dispatch(c, m).timer = c.timer
<1>1. ASSUME m.type = "completion" /\ m.id \in DOMAIN c.callbacks
      PROVE  Good(Dispatch(c, m)) /\ Dispatch(c, m).timer = c.timer
  <2> DEFINE f == [x \in DOMAIN c.callbacks \ {m.id} |-> c.callbacks[x]]
             d == [c EXCEPT !.callbacks = f]
  <2>1. Good(d) /\ d.timer = c.timer  BY CallbacksGo
  <2>2. Dispatch(c, m) = Settled(d, {c.callbacks[m.id]}, "answered")
    BY <1>1 DEF Dispatch
  <2> HIDE DEF d
  <2>3. Calm(d, Dispatch(c, m))  BY <2>1, <2>2, SettledCalm
  <2> QED  BY <2>1, <2>3, CalmGood DEF Calm
<1>2. Good(stop(c)) /\ stop(c).timer = c.timer
  BY StopCalm, CalmGood DEF Calm
<1>3. \A S, s : Good(Settled(c, S, s)) /\ Settled(c, S, s).timer = c.timer
  BY SettledCalm, CalmGood DEF Calm
<1>4. CASE m.type \in {"close", "request"}  BY <1>2, <1>4 DEF Dispatch
<1>5. CASE /\ m.type \notin {"close", "request"}
           /\ ~(m.type = "completion" /\ m.id \in DOMAIN c.callbacks)
  BY <1>3, <1>5 DEF Dispatch
<1> QED  BY <1>1, <1>4, <1>5

LEMMA IncomingGood ==
  ASSUME NEW c, Good(c), NEW chunk
  PROVE  Good(processIncomingData(c, chunk).c)
<1> DEFINE b    == cleanupTimeout(c)
           hs   == processHandshakeResponse(b, chunk.hs)
           read == [hs EXCEPT !.received = TRUE]
<1>1. Good(b) /\ b.timer = FALSE  BY CleanGood
<1> HIDE DEF b
<1>2. Good(hs) /\ hs.timer = FALSE
  <2>1. Calm(b, stop(b))  BY <1>1, StopCalm
  <2>2. Good(stop(b)) /\ stop(b).timer = FALSE  BY <1>1, <2>1, CalmGood DEF Calm
  <2> QED  BY <1>1, <2>2 DEF processHandshakeResponse
<1> HIDE DEF hs
<1>3. Good(read) /\ read.timer = FALSE
  <2>1. Calm(hs, read)  BY <1>2, CarriedSame DEF Calm, Good, Shape, Fields
  <2> QED  BY <1>2, <2>1, CalmGood DEF Calm
<1> HIDE DEF read
<1>4. ASSUME NEW d, Good(d), d.timer = FALSE
      PROVE  Good(configureTimeout(Dispatch(d, chunk.m)))
  BY <1>4, DispatchGood, ConfigureGood
<1>5. processIncomingData(c, chunk).c \in
        {configureTimeout(Dispatch(b, chunk.m)), configureTimeout(Dispatch(read, chunk.m)), b, hs}
  BY DEF processIncomingData, b, hs, read
<1> QED  BY <1>1, <1>2, <1>3, <1>4, <1>5

\* What a chunk answers is the call its completion names.
LEMMA AnswerNames ==
  ASSUME NEW c, Shape(c), NEW chunk, NEW i \in DOMAIN c.invs,
         c.invs[i].status = "pending",
         processIncomingData(c, chunk).c.invs[i].status = "answered"
  PROVE  /\ chunk.m.type = "completion" /\ chunk.m.id \in DOMAIN c.callbacks
         /\ i = c.callbacks[chunk.m.id]
<1> DEFINE b    == cleanupTimeout(c)
           hs   == processHandshakeResponse(b, chunk.hs)
           read == [hs EXCEPT !.received = TRUE]
           \* Nothing of what a completion is matched with has changed.
           Alike(d) == /\ {"invs", "callbacks"} \subseteq DOMAIN d
                       /\ d.invs = c.invs /\ d.callbacks = c.callbacks
<1>1. Alike(b)  BY DEF cleanupTimeout, Shape, Fields
<1> HIDE DEF b
<1>2. Alike(hs)  BY <1>1 DEF processHandshakeResponse, stop
<1> HIDE DEF hs
<1>3. Alike(read)  BY <1>2
<1> HIDE DEF read
<1>4. ASSUME NEW d, Alike(d)
      PROVE  configureTimeout(Dispatch(d, chunk.m)).invs = Dispatch(d, chunk.m).invs
  <2>1. "invs" \in DOMAIN Dispatch(d, chunk.m)  BY <1>4 DEF Dispatch, Settled, stop
  <2> QED  BY <2>1 DEF configureTimeout
<1>5. \E d : /\ Alike(d)
             /\ \/ processIncomingData(c, chunk).c.invs = Dispatch(d, chunk.m).invs
                \/ processIncomingData(c, chunk).c = d
  BY <1>1, <1>2, <1>3, <1>4 DEF processIncomingData, b, hs, read
<1>6. PICK d : /\ Alike(d)
               /\ \/ processIncomingData(c, chunk).c.invs = Dispatch(d, chunk.m).invs
                  \/ processIncomingData(c, chunk).c = d
  BY <1>5
<1>7. Dispatch(d, chunk.m).invs[i].status = "answered"  BY <1>6
<1>8. \A S : Settled(d, S, "failed").invs[i].status # "answered"
  BY <1>6 DEF Settled
<1>9. stop(d).invs[i].status # "answered"  BY <1>6 DEF stop
<1>10. chunk.m.type = "completion" /\ chunk.m.id \in DOMAIN d.callbacks
  BY <1>6, <1>7, <1>8, <1>9 DEF Dispatch
<1>11. i = d.callbacks[chunk.m.id]
  <2> DEFINE j == d.callbacks[chunk.m.id]
             e == [d EXCEPT !.callbacks = [x \in DOMAIN @ \ {chunk.m.id} |-> @[x]]]
  <2>1. "invs" \in DOMAIN e /\ e.invs = d.invs  BY <1>6
  <2>2. Dispatch(d, chunk.m) = Settled(e, {j}, "answered")  BY <1>10 DEF Dispatch
  <2> HIDE DEF e
  <2>3. i # j => Settled(e, {j}, "answered").invs[i] = d.invs[i]
    BY <1>6, <2>1 DEF Settled
  <2> QED  BY <1>6, <1>7, <2>2, <2>3
<1> QED  BY <1>6, <1>10, <1>11

-----------------------------------------------------------------------------
(* The actions *)

LEMMA StartingStep ==
  ASSUME Good(client), Starting \/ start \/ \E s \in DOMAIN client.starts : StartResumes(s)
  PROVE  Good(client')
<1>1. CASE start
  <2>1. Calm(client, client')
    BY <1>1, CarriedSame DEF start, Calm, Good, Shape, Fields
  <2> QED  BY <2>1, CalmGood
<1>2. ASSUME NEW s, Negotiated(s) \/ Renegotiated(s) PROVE Good(client')
  <2>1. \A n : Good([client EXCEPT !.starts[s].redirects = n])
    BY CarriedSame, CalmGood DEF Calm, Good, Shape, Fields
  <2>2. Good([client EXCEPT !.starts[s].redirects = @ + 1])
    BY <2>1
  <2>3. Good([client EXCEPT !.starts[s].pc = "connect"])
    BY CarriedSame, CalmGood DEF Calm, Good, Shape, Fields
  <2>4. CASE Negotiated(s)
    <3>1. \/ client' = StartFails(client, s)
          \/ client' = Resume(client, s, "resolved")
          \/ client' = [client EXCEPT !.starts[s].redirects = @ + 1]
          \/ \E offer \in Offers : client' = createTransport(client, s, offer, FALSE)
      BY <2>4 DEF Negotiated
    <3> QED  BY <2>2, <3>1, StartingGood
  <2>5. CASE Renegotiated(s)
    BY <2>3, <2>5, StartingGood DEF Renegotiated
  <2> QED  BY <1>2, <2>4, <2>5
<1>3. ASSUME NEW s, Connect(s) PROVE Good(client')
  <2> DEFINE t == client.starts[s].t
             f(x) == [client.ts EXCEPT ![t].phase = x]
             g(x) == [f("open") EXCEPT ![t].running = x]
             o == [client EXCEPT !.ts[t].phase = "open",
                                 !.ts[t].running = client.ts[t].kind = "LongPolling"]
             p == [client EXCEPT !.ts[t].phase = "closed"]
             q == [client EXCEPT !.ts[t].phase = "closed", !.conn = "Disconnected"]
  <2>1. \A x : Carried(client.ts, f(x))  BY CarriedSame, CarriedField
  <2>2. \A x : Carried(client.ts, g(x))  BY <2>1, CarriedField
  <2>3. o.ts = g(client.ts[t].kind = "LongPolling")  BY DEF Good, Shape, Fields
  <2>4. p.ts = f("closed") /\ q.ts = f("closed")  BY DEF Good, Shape, Fields
  <2> HIDE DEF f, g
  <2>5. Calm(client, o) /\ Calm(client, p) /\ Calm(client, q)
    BY <2>1, <2>2, <2>3, <2>4 DEF Calm, Good, Shape, Fields
  <2>6. Good(o) /\ Good(p) /\ Good(q)  BY <2>5, CalmGood
  <2>7. client' \in {Connected(o, s), Connected(p, s),
                     createTransport(q, s, client.starts[s].rest, TRUE)}
    BY <1>3 DEF Connect
  <2> HIDE DEF o, p, q
  <2> QED  BY <2>6, <2>7, ConnectedGood, StartingGood
<1>4. ASSUME NEW s, StartResumes(s) PROVE Good(client')
  <2> DEFINE r(x) == [client EXCEPT !.starts[s].pc = x]
  <2>1. \A x : Good(r(x))
    BY CarriedSame, CalmGood DEF Calm, Good, Shape, Fields
  <2>2. \A c : Own(c, <<"handshake", s>>)  BY DEF Own
  <2>3. client' \in {r("rejected"), SendOrFail(r("send"), <<"handshake", s>>)}
    BY <1>4 DEF StartResumes
  <2> HIDE DEF r
  <2> QED  BY <2>1, <2>2, <2>3, SendOrFailGood
<1> QED  BY <1>1, <1>2, <1>3, <1>4 DEF Starting

\* The timer that fires is the one the handle refers to.
LEMMA TimerFires ==
  ASSUME Good(client), serverTimeout
  PROVE  Good([client EXCEPT !.armed = @ - 1, !.timer = @ /\ client.armed > 1])
<1> DEFINE d == [client EXCEPT !.armed = @ - 1, !.timer = @ /\ client.armed > 1]
<1>0. client.timer = TRUE /\ client.armed = 1
  BY DEF serverTimeout, Good, Clock
<1>1. /\ Fields \subseteq DOMAIN d /\ d.timer = FALSE /\ d.armed = 0
      /\ d.ts = client.ts /\ d.posts = client.posts /\ d.nextId = client.nextId
      /\ d.callbacks = client.callbacks
  <2>1. (client.timer /\ client.armed > 1) = FALSE
    <3>1. ~(client.armed > 1)  BY <1>0
    <3> QED  BY <3>1
  <2>2. client.armed - 1 = 0  BY <1>0
  <2>3. d = [client EXCEPT !.armed = 0, !.timer = FALSE]  BY <2>1, <2>2
  <2> HIDE DEF d
  <2> QED  BY <2>3 DEF Good, Shape, Fields
<1> HIDE DEF d
<1>2. Shape(d) /\ Clock(d) /\ Fewer(client, d)
  BY <1>1 DEF Good, Shape, Clock, Fewer, Mail
<1>3. Good(d)  BY <1>2, FewerGood
<1> QED  BY <1>3 DEF d

LEMMA StoppingStep ==
  ASSUME Good(client), \/ Stop \/ serverTimeout \/ Deleting
                       \/ \E k \in DOMAIN client.stops : StopResumes(k)
  PROVE  Good(client')
<1>1. CASE Stop
  BY <1>1, CleanGood, StopCalm, CalmGood DEF Stop
<1>2. CASE serverTimeout
  <2> DEFINE d == [client EXCEPT !.armed = @ - 1, !.timer = @ /\ client.armed > 1]
  <2>1. Good(d)  BY <1>2, TimerFires
  <2>2. client' = stop(d)  BY <1>2 DEF serverTimeout
  <2> HIDE DEF d
  <2> QED  BY <2>1, <2>2, StopCalm, CalmGood
<1>3. ASSUME NEW k, StopResumes(k) \/ Deleted(k) PROVE Good(client')
  <2> DEFINE t == client.transport
             c == [client EXCEPT !.stops = RemoveAt(@, k)]
             z(d) == [d EXCEPT !.transport = 0]
             f(d) == [d.ts EXCEPT ![t].phase = "closing"]
             g == [client.ts EXCEPT ![t].running = FALSE]
             p == [client EXCEPT !.ts[t].running = FALSE, !.stops[k].pc = "delete"]
             q == [c EXCEPT !.ts[t].phase = "closing", !.transport = 0]
  <2>1. Calm(client, c)  BY CarriedSame DEF Calm, Good, Shape, Fields
  <2>2. client' \in {c, z(c), p, q, z(Closed(c, t))}
    BY <1>3 DEF StopResumes, Deleted
  <2>3. Good(c)  BY <2>1, CalmGood
  <2> HIDE DEF c
  <2>4. Good(Closed(c, t))  BY <2>3, ClosedGood
  <2>5. \A d : Good(d) => Good(z(d))
    BY CarriedSame, CalmGood DEF Calm, Good, Shape, Fields
  <2>6. Good(p)
    <3>1. Carried(client.ts, g)  BY CarriedSame, CarriedField
    <3>2. p.ts = g  BY DEF Good, Shape, Fields
    <3> HIDE DEF g
    <3>3. Calm(client, p)  BY <3>1, <3>2 DEF Calm, Good, Shape, Fields
    <3> QED  BY <3>3, CalmGood
  <2>7. Good(q)
    <3>1. Carried(c.ts, f(c))  BY <2>3, CarriedSame, CarriedField
    <3>2. q.ts = f(c)  BY <2>3 DEF Good, Shape, Fields
    <3> HIDE DEF f
    <3>3. Calm(c, q)  BY <2>3, <3>1, <3>2 DEF Calm, Good, Shape, Fields
    <3> QED  BY <2>3, <3>3, CalmGood
  <2> HIDE DEF p, q, z
  <2> QED  BY <2>2, <2>3, <2>4, <2>5, <2>6, <2>7
<1> QED  BY <1>1, <1>2, <1>3 DEF Deleting

\* A call gets an id that no message and no callback has.
LEMMA InvokeGood ==
  ASSUME Good(client), NEW kind
  PROVE  LET id == client.nextId
             i  == Len(client.invs) + 1
             c  == [client EXCEPT !.nextId = id + 1,
                                  !.invs = Append(@, [kind |-> kind, status |-> "pending"]),
                                  !.callbacks = [x \in DOMAIN @ \cup {id} |->
                                                    IF x = id THEN i ELSE @[x]]]
         IN  Good(c) /\ Own(c, <<"invoke", i, id>>)
<1> DEFINE id == client.nextId
           i  == Len(client.invs) + 1
           f  == [x \in DOMAIN client.callbacks \cup {id} |->
                     IF x = id THEN i ELSE client.callbacks[x]]
           c  == [client EXCEPT !.nextId = id + 1,
                                !.invs = Append(@, [kind |-> kind, status |-> "pending"]),
                                !.callbacks = f]
           m  == <<"invoke", i, id>>
<1>1. /\ DOMAIN f = DOMAIN client.callbacks \cup {id}
      /\ f[id] = i
      /\ \A x \in DOMAIN client.callbacks : x # id => f[x] = client.callbacks[x]
  OBVIOUS
<1> HIDE DEF f, i
<1>3. /\ Fields \subseteq DOMAIN c /\ c.ts = client.ts /\ c.posts = client.posts
      /\ c.timer = client.timer /\ c.armed = client.armed
      /\ c.nextId = id + 1 /\ c.callbacks = f
  BY DEF Good, Shape, Fields
<1>4. m[1] = "invoke" /\ m[2] = i /\ m[3] = id  OBVIOUS
<1> HIDE DEF c, m
<1>5. Mail(c) = Mail(client)  BY <1>3 DEF Mail
<1>6. Shape(c) /\ Clock(c)  BY <1>3 DEF Good, Shape, Clock
<1>7. id \in Nat  BY DEF Good, Owned
<1>8. Owned(c)
  <2>1. \A x \in DOMAIN f : x \in Nat /\ x < id + 1
    BY <1>1, <1>7 DEF Good, Owned
  <2>2. ASSUME NEW n \in Mail(client) PROVE Own(c, n)
    <3>1. Own(client, n)  BY DEF Good, Owned
    <3> QED  BY <1>1, <1>3, <1>7, <3>1 DEF Own
  <2> QED  BY <1>3, <1>5, <1>7, <2>1, <2>2 DEF Owned
<1>9. Own(c, m)  BY <1>1, <1>3, <1>4, <1>7 DEF Own
<1>10. Good(c)  BY <1>6, <1>8 DEF Good
<1> QED  BY <1>9, <1>10 DEF c, f, i, m

LEMMA InvokeStep ==
  ASSUME Good(client), NEW kind, Invoke(kind)
  PROVE  Good(client')
<1> DEFINE id == client.nextId
           i  == Len(client.invs) + 1
           c  == [client EXCEPT !.nextId = id + 1,
                                !.invs = Append(@, [kind |-> kind, status |-> "pending"]),
                                !.callbacks = [x \in DOMAIN @ \cup {id} |->
                                                  IF x = id THEN i ELSE @[x]]]
           m  == <<"invoke", i, id>>
<1>1. client' \in {Settled(c, {i}, "failed"), SendOrFail(c, m)}
  BY DEF Invoke, createInvocation
<1>2. Good(c) /\ Own(c, m)  BY InvokeGood
<1> HIDE DEF c, m
<1> QED  BY <1>1, <1>2, SettledCalm, CalmGood, SendOrFailGood

\* The message that cancels a stream bears the id its callback had.
LEMMA DisposeGood ==
  ASSUME Good(client), NEW id \in DOMAIN client.callbacks
  PROVE  LET i == client.callbacks[id]
             c == [Settled(client, {i}, "cancelled") EXCEPT
                      !.callbacks = [x \in DOMAIN @ \ {id} |-> @[x]]]
         IN  Good(c) /\ Own(c, <<"cancel", i, id>>)
<1> DEFINE i == client.callbacks[id]
           e == Settled(client, {i}, "cancelled")
           f == [x \in DOMAIN e.callbacks \ {id} |-> e.callbacks[x]]
           c == [e EXCEPT !.callbacks = f]
<1>3. Good(e) /\ e.nextId = client.nextId /\ e.callbacks = client.callbacks
  BY SettledCalm, CalmGood DEF Calm
<1> HIDE DEF e, i
<1>4. Good(c)  BY <1>3, CallbacksGo
<1>5. Own(c, <<"cancel", i, id>>)
  <2>1. Fields \subseteq DOMAIN e  BY <1>3 DEF Good, Shape
  <2>2. c.nextId = client.nextId /\ c.callbacks = f  BY <1>3, <2>1 DEF Fields
  <2>3. id \in Nat /\ id < client.nextId  BY DEF Good, Owned
  <2>4. id \notin DOMAIN f  OBVIOUS
  <2> HIDE DEF c, f
  <2> QED  BY <2>2, <2>3, <2>4 DEF Own
<1> QED  BY <1>4, <1>5 DEF e, i

LEMMA DisposeStep ==
  ASSUME Good(client), dispose
  PROVE  Good(client')
<1>1. PICK id \in DOMAIN client.callbacks :
        LET i == client.callbacks[id]
            c == [Settled(client, {i}, "cancelled") EXCEPT
                     !.callbacks = [x \in DOMAIN @ \ {id} |-> @[x]]]
        IN  client' = IF CanSend(c) THEN Send(c, <<"cancel", i, id>>) ELSE c
  BY DEF dispose
<1> DEFINE i == client.callbacks[id]
           c == [Settled(client, {i}, "cancelled") EXCEPT
                    !.callbacks = [x \in DOMAIN @ \ {id} |-> @[x]]]
<1>2. client' \in {Send(c, <<"cancel", i, id>>), c}  BY <1>1
<1>3. Good(c) /\ Own(c, <<"cancel", i, id>>)  BY DisposeGood
<1> HIDE DEF c
<1> QED  BY <1>2, <1>3, SendGood

\* What is posted may reach the server.
LEMMA PostedGood ==
  ASSUME Good(client), Posted
  PROVE  LET p == Head(client.posts)
             c == [client EXCEPT !.posts = Tail(@)]
             d == [c EXCEPT !.ts[p.t].got = @ \cup {p.m}]
         IN  Good(c) /\ Good(d) /\ Own(c, p.m) /\ Own(d, p.m)
<1> DEFINE p == Head(client.posts)
           c == [client EXCEPT !.posts = Tail(@)]
           e == [c.ts[p.t] EXCEPT !.got = @ \cup {p.m}]
           f == [c.ts EXCEPT ![p.t] = e]
           d == [c EXCEPT !.ts = f]
<1>1. client.posts # <<>>  BY DEF Posted
<1>2. /\ IsSeq(Tail(client.posts)) /\ p.m \in Mail(client)
      /\ \A k \in DOMAIN Tail(client.posts) :
           Tail(client.posts)[k].m \in {client.posts[j].m : j \in DOMAIN client.posts}
  <2>1. IsSeq(client.posts)  BY DEF Good, Shape
  <2>2. /\ IsSeq(Tail(client.posts)) /\ 1 \in DOMAIN client.posts /\ p = client.posts[1]
        /\ \A k \in DOMAIN Tail(client.posts) :
             k + 1 \in DOMAIN client.posts /\ Tail(client.posts)[k] = client.posts[k + 1]
    BY <1>1, <2>1, SeqTail
  <2> QED  BY <2>2 DEF Mail
<1> HIDE DEF p
<1>3. /\ Fields \subseteq DOMAIN c /\ c.ts = client.ts /\ c.posts = Tail(client.posts)
      /\ c.timer = client.timer /\ c.armed = client.armed
      /\ c.nextId = client.nextId /\ c.callbacks = client.callbacks
  BY DEF Good, Shape, Fields
<1> HIDE DEF c
<1>4. Mail(c) \subseteq Mail(client)  BY <1>2, <1>3 DEF Mail
<1>5. Good(c)
  <2>1. Shape(c) /\ Clock(c)  BY <1>2, <1>3 DEF Good, Shape, Clock
  <2> QED  BY <1>3, <1>4, <2>1, FewerGood DEF Fewer
<1>6. IsSeq(f) /\ DOMAIN f = DOMAIN c.ts  BY <1>5, SeqExcept DEF Good, Shape
<1>7. ASSUME NEW t \in DOMAIN f
      PROVE  "got" \in DOMAIN f[t] /\ f[t].got \subseteq c.ts[t].got \cup {p.m}
  <2>1. "got" \in DOMAIN c.ts[t]  BY <1>5, <1>6, <1>7 DEF Good, Shape
  <2> QED  BY <1>6, <1>7, <2>1
<1> HIDE DEF f
<1>8. /\ Fields \subseteq DOMAIN d /\ d.ts = f /\ d.posts = c.posts
      /\ d.timer = c.timer /\ d.armed = c.armed
      /\ d.nextId = c.nextId /\ d.callbacks = c.callbacks
  BY <1>5 DEF Good, Shape, Fields
<1> HIDE DEF d
<1>9. Mail(d) \subseteq Mail(client)
  <2>1. Mail(d) \subseteq Mail(c) \cup {p.m}  BY <1>6, <1>7, <1>8 DEF Mail
  <2> QED  BY <1>2, <1>4, <2>1
<1>10. Good(d)
  <2>1. Shape(d) /\ Clock(d)  BY <1>5, <1>6, <1>7, <1>8 DEF Good, Shape, Clock
  <2> QED  BY <1>3, <1>8, <1>9, <2>1, FewerGood DEF Fewer
<1>11. Own(c, p.m) /\ Own(d, p.m)
  <2>1. Own(client, p.m)  BY <1>2 DEF Good, Owned
  <2>2. \A m : Own(client, m) => Own(c, m)  BY <1>3 DEF Own
  <2>3. \A m : Own(c, m) => Own(d, m)  BY <1>8 DEF Own
  <2> QED  BY <2>1, <2>2, <2>3
<1> QED  BY <1>5, <1>10, <1>11 DEF c, d, f, p

LEMMA PostedStep ==
  ASSUME Good(client), Posted
  PROVE  Good(client')
<1> DEFINE p == Head(client.posts)
           c == [client EXCEPT !.posts = Tail(@)]
           d == [c EXCEPT !.ts[p.t].got = @ \cup {p.m}]
<1>1. client' \in {Sent(d, p.m, TRUE), Sent(d, p.m, FALSE), Sent(c, p.m, FALSE)}
  BY DEF Posted
<1>2. Good(c) /\ Good(d)  BY PostedGood
<1> HIDE DEF c, d
<1> QED  BY <1>1, <1>2, SentGood

LEMMA ReceiveStep ==
  ASSUME Good(client), AnsweredOwn, NEW t \in DOMAIN client.ts, Receive(t)
  PROVE  Good(client') /\ AnsweredOwn'
<1> DEFINE c == [client EXCEPT !.ts[t].hs = TRUE]
           g == [client.ts EXCEPT ![t].hs = TRUE]
           r(chunk) == processIncomingData(c, chunk)
<1>1. PICK chunk : /\ client' = Received(c, t, r(chunk))
                   /\ answered' = answered \cup Answers(c, t, chunk, r(chunk).c)
  BY DEF Receive
<1>2. Good(c) /\ t \in DOMAIN c.ts
  <2>1. Carried(client.ts, g)  BY CarriedSame, CarriedField
  <2>2. c.ts = g  BY DEF Good, Shape, Fields
  <2> HIDE DEF g
  <2>3. Calm(client, c)  BY <2>1, <2>2 DEF Calm, Good, Shape, Fields
  <2> QED  BY <2>3, CalmGood DEF Calm, Carried
<1> HIDE DEF c
<1>3. Good(r(chunk).c)  BY <1>2, IncomingGood
<1>4. ASSUME NEW n \in c.ts[t].got, n[1] = "invoke", chunk.m.type = "completion",
             n[3] = chunk.m.id, NEW i \in DOMAIN c.invs, c.invs[i].status = "pending",
             r(chunk).c.invs[i].status = "answered"
      PROVE  i = n[2]
  <2>1. /\ chunk.m.type = "completion" /\ chunk.m.id \in DOMAIN c.callbacks
        /\ i = c.callbacks[chunk.m.id]
    BY <1>2, <1>4, AnswerNames DEF Good
  <2>2. n \in Mail(c)  BY <1>2, <1>4 DEF Mail
  <2>3. Own(c, n)  BY <1>2, <2>2 DEF Good, Owned
  <2> QED  BY <1>4, <2>1, <2>3 DEF Own
<1> HIDE DEF r
<1>5. \A a \in Answers(c, t, chunk, r(chunk).c) : a[1] = a[2]
  BY <1>4 DEF Answers
<1>6. Received(c, t, r(chunk)) \in
        {r(chunk).c, stopConnection(r(chunk).c), Closed(r(chunk).c, t)}
  BY DEF Received
<1> QED  BY <1>1, <1>3, <1>5, <1>6, ClosedGood DEF AnsweredOwn

LEMMA NextStep ==
  ASSUME Good(client), AnsweredOwn, [Next]_vars
  PROVE  Good(client') /\ AnsweredOwn'
<1>1. ASSUME NEW t \in DOMAIN client.ts, Receive(t) PROVE Good(client') /\ AnsweredOwn'
  BY <1>1, ReceiveStep
<1>2. ASSUME NEW t, TransportCloses(t) PROVE Good(client')
  BY <1>2, ClosedGood DEF TransportCloses
<1>3. (\E t \in DOMAIN client.ts : Receive(t)) \/ answered' = answered
  BY DEF Next, Starting, Resuming, Deleting, Program, Network, Posted, serverTimeout,
         Negotiated, Renegotiated, Connect, StartResumes, StopResumes, Deleted, start, Stop,
         Invoke, dispose, TransportCloses, vars
<1>4. CASE UNCHANGED vars
  BY <1>4 DEF vars, AnsweredOwn
<1>5. CASE Next
  BY <1>1, <1>2, <1>3, <1>5, StartingStep, StoppingStep, InvokeStep, DisposeStep, PostedStep
     DEF Next, Resuming, Program, Network, AnsweredOwn
<1> QED  BY <1>4, <1>5

LEMMA InitGood ==
  ASSUME Init
  PROVE  Good(client) /\ AnsweredOwn
<1>1. /\ Fields \subseteq DOMAIN client
      /\ client.ts = <<>> /\ client.posts = <<>> /\ client.callbacks = <<>>
      /\ client.timer = FALSE /\ client.armed = 0 /\ client.nextId = 0
  BY DEF Init, Fields
<1>2. <<>> \in Seq({}) /\ DOMAIN (<<>>) = {}  OBVIOUS
<1>3. Shape(client) /\ Clock(client) /\ Mail(client) = {}
  BY <1>1, <1>2 DEF Shape, IsSeq, Clock, Mail
<1>4. Owned(client)  BY <1>1, <1>2, <1>3 DEF Owned
<1> QED  BY <1>3, <1>4 DEF Good, AnsweredOwn, Init

LEMMA GoodHolds == Spec => [](Good(client) /\ AnsweredOwn)
<1>1. Init => Good(client) /\ AnsweredOwn  BY InitGood
<1>2. Good(client) /\ AnsweredOwn /\ [Next]_vars => (Good(client) /\ AnsweredOwn)'
  BY NextStep
<1> QED  BY <1>1, <1>2, PTL DEF Spec

\* OneTimer: there is never an armed timer that no handle refers to, whatever the
\* transports do and in whatever order calls, answers and timeouts come.
THEOREM OneTimerHolds == Spec => []OneTimer
<1>1. Good(client) => OneTimer
  BY DEF Good, Clock, OneTimer
<1> QED  BY <1>1, GoodHolds, PTL

\* AnsweredOwn: a completion settles the call it was sent for, over any number of
\* connections, transports and calls, and however late the answer comes.
THEOREM AnsweredOwnHolds == Spec => []AnsweredOwn
BY GoodHolds, PTL
-----------------------------------------------------------------------------
(* A client that starts once                                                 *)

Awaits          == {"negotiate", "renegotiate", "connect"}
StartFields     == {"pc", "inner", "redirects", "t", "rest"}
TransportFields == {"kind", "phase", "handled", "running", "got", "hs"}
StopFields      == {"pc", "of"}

NoneConnected(c) == \A t \in DOMAIN c.ts : ~c.ts[t].handled /\ ~c.ts[t].running

\* Until its transport has connected, a start waits, and no transport is handled
\* or polls.
OneStart(c) ==
    /\ IsSeq(c.starts) /\ DOMAIN c.starts \subseteq {1}
    /\ \A s \in DOMAIN c.starts :
          /\ StartFields \subseteq DOMAIN c.starts[s] /\ IsSeq(c.starts[s].rest)
          /\ c.starts[s].pc \in Awaits => c.starts[s].inner = "pending" /\ NoneConnected(c)

\* The transport that is handled is the client's as long as it has one.
OneTransport(c) ==
    /\ \A t \in DOMAIN c.ts :
          /\ TransportFields \subseteq DOMAIN c.ts[t]
          /\ c.ts[t].kind \in Kinds
          /\ c.ts[t].handled => c.transport \in {t, 0}
          /\ c.ts[t].running => c.ts[t].phase = "open" /\ c.ts[t].kind = "LongPolling"
    /\ DOMAIN c.starts = {} => DOMAIN c.ts = {}
    /\ c.transport # 0 => c.transport \in DOMAIN c.ts
    /\ c.conn = "Connected" /\ c.transport # 0 => c.ts[c.transport].handled

\* A stop waits for the start there is; one that waits for the DELETE request
\* has seen the start's end, and nothing but long polling has been handled.
Stopping(c, p) ==
    /\ p.of # 0 => p.of \in DOMAIN c.starts
    /\ p.pc = "start" /\ p.of = 0 => DOMAIN c.starts = {}
    /\ p.pc = "delete" =>
          /\ DOMAIN c.starts # {}
          /\ \A s \in DOMAIN c.starts : c.starts[s].pc \notin Awaits
          /\ \A t \in DOMAIN c.ts : c.ts[t].handled => c.ts[t].kind = "LongPolling"

Stops(c) ==
    /\ IsSeq(c.stops)
    /\ \A k \in DOMAIN c.stops : StopFields \subseteq DOMAIN c.stops[k] /\ Stopping(c, c.stops[k])

Line(c) == OneStart(c) /\ OneTransport(c) /\ Stops(c)

\* A call that has no answer is registered for one.
Registered(c) ==
    /\ IsSeq(c.invs)
    /\ \A i \in DOMAIN c.invs :
          /\ "status" \in DOMAIN c.invs[i]
          /\ c.invs[i].status = "pending" => \E id \in DOMAIN c.callbacks : c.callbacks[id] = i

Waits(c) == \E i \in DOMAIN c.invs : c.invs[i].status = "pending"

\* A handled transport has not ended: its end will be told, or a stop will end it.
Held(c) ==
    \E t \in DOMAIN c.ts :
       /\ c.ts[t].handled
       /\ \/ c.ts[t].phase = "closing"
          \/ c.ts[t].phase = "open" /\ c.ts[t].kind = "LongPolling"
          \/ c.ts[t].phase = "open" /\ c.transport = t /\ (c.conn = "Connected" \/ DOMAIN c.stops # {})

Rest(c)  == Line(c) /\ Registered(c) /\ (Waits(c) => Held(c))
Sound(c) == Good(c) /\ Rest(c)

-----------------------------------------------------------------------------
(* What keeps a client sound *)

SameTransports(f, g) ==
    /\ DOMAIN g = DOMAIN f
    /\ \A t \in DOMAIN g :
          /\ TransportFields \subseteq DOMAIN g[t]
          /\ g[t].kind = f[t].kind /\ g[t].phase = f[t].phase
          /\ g[t].handled = f[t].handled /\ g[t].running = f[t].running

\* From c to d nothing changes that ends or begins a connection.
SameLine(c, d) ==
    /\ d.conn = c.conn /\ d.transport = c.transport
    /\ d.starts = c.starts /\ d.stops = c.stops
    /\ SameTransports(c.ts, d.ts)

LEMMA LineKept ==
  ASSUME NEW c, NEW d, Line(c), SameLine(c, d)
  PROVE  Line(d) /\ (Held(d) <=> Held(c))
<1>1. OneStart(d)  BY DEF Line, OneStart, NoneConnected, SameLine, SameTransports
<1>2. OneTransport(d)  BY DEF Line, OneTransport, SameLine, SameTransports
<1>3. Stops(d)  BY DEF Line, Stops, Stopping, SameLine, SameTransports
<1>4. Held(d) <=> Held(c)  BY DEF Held, SameLine, SameTransports
<1> QED  BY <1>1, <1>2, <1>3, <1>4 DEF Line

LEMMA RestKept ==
  ASSUME NEW c, NEW d, Line(c), Waits(c) => Held(c), SameLine(c, d), Registered(d),
         Waits(d) => Waits(c)
  PROVE  Rest(d)
BY LineKept DEF Rest

LEMMA QuietRest ==
  ASSUME NEW c, NEW d, Rest(c), SameLine(c, d), d.invs = c.invs, d.callbacks = c.callbacks
  PROVE  Rest(d)
<1>1. Registered(d) /\ (Waits(d) => Waits(c))  BY DEF Rest, Registered, Waits
<1> QED  BY <1>1, RestKept DEF Rest

LEMMA TransportsSame ==
  ASSUME NEW c, Line(c)
  PROVE  SameTransports(c.ts, c.ts)
BY DEF Line, OneTransport, SameTransports

\* The field n of one transport is assigned.
Assigned(f, h, t, n, x) ==
    /\ IsSeq(h) /\ DOMAIN h = DOMAIN f
    /\ \A u \in DOMAIN f :
          /\ TransportFields \subseteq DOMAIN h[u]
          /\ h[u].kind = IF u = t /\ n = "kind" THEN x ELSE f[u].kind
          /\ h[u].phase = IF u = t /\ n = "phase" THEN x ELSE f[u].phase
          /\ h[u].handled = IF u = t /\ n = "handled" THEN x ELSE f[u].handled
          /\ h[u].running = IF u = t /\ n = "running" THEN x ELSE f[u].running

Fielded(f) == IsSeq(f) /\ \A u \in DOMAIN f : TransportFields \subseteq DOMAIN f[u]

LEMMA FieldSet ==
  ASSUME NEW f, Fielded(f), NEW t, NEW x
  PROVE  /\ Assigned(f, [f EXCEPT ![t].phase = x], t, "phase", x)
         /\ Assigned(f, [f EXCEPT ![t].handled = x], t, "handled", x)
         /\ Assigned(f, [f EXCEPT ![t].running = x], t, "running", x)
<1> SUFFICES ASSUME NEW n \in {"phase", "handled", "running"}
             PROVE  Assigned(f, [f EXCEPT ![t][n] = x], t, n, x)
  OBVIOUS
<1> DEFINE h == [f EXCEPT ![t] = [f[t] EXCEPT ![n] = x]]
<1>1. IsSeq(h) /\ DOMAIN h = DOMAIN f  BY SeqExcept DEF Fielded
<1>2. ASSUME NEW u \in DOMAIN f
      PROVE  /\ TransportFields \subseteq DOMAIN h[u]
             /\ \A k \in TransportFields : h[u][k] = IF u = t /\ k = n THEN x ELSE f[u][k]
  BY DEF Fielded, TransportFields
<1>3. {"kind", "phase", "handled", "running"} \subseteq TransportFields
  BY DEF TransportFields
<1>4. ASSUME NEW u \in DOMAIN f
      PROVE  /\ h[u].kind = IF u = t /\ n = "kind" THEN x ELSE f[u].kind
             /\ h[u].phase = IF u = t /\ n = "phase" THEN x ELSE f[u].phase
             /\ h[u].handled = IF u = t /\ n = "handled" THEN x ELSE f[u].handled
             /\ h[u].running = IF u = t /\ n = "running" THEN x ELSE f[u].running
  BY <1>2, <1>3
<1>5. Assigned(f, h, t, n, x)  BY <1>1, <1>2, <1>4 DEF Assigned
<1> QED  BY <1>5

\* No call waits but those that did, and none of S.
Fade(c, d, S) ==
    /\ IsSeq(d.invs) /\ DOMAIN d.invs = DOMAIN c.invs
    /\ \A i \in DOMAIN d.invs :
          /\ "status" \in DOMAIN d.invs[i]
          /\ d.invs[i].status = "pending" => c.invs[i].status = "pending" /\ i \notin S

LEMMA SettledFade ==
  ASSUME NEW c, Shape(c), Registered(c), NEW S, NEW s, s # "pending"
  PROVE  /\ Fields \subseteq DOMAIN Settled(c, S, s)
         /\ Fade(c, Settled(c, S, s), S)
         /\ Settled(c, S, s).callbacks = c.callbacks
         /\ Line(c) => SameLine(c, Settled(c, S, s))
<1> DEFINE g == [i \in DOMAIN c.invs |->
                   IF i \in S /\ c.invs[i].status = "pending"
                   THEN [c.invs[i] EXCEPT !.status = s] ELSE c.invs[i]]
           d == [c EXCEPT !.invs = g]
<1>1. Settled(c, S, s) = d  BY DEF Settled
<1>2. IsSeq(g)
  <2>1. PICK R : c.invs \in Seq(R)  BY DEF Registered, IsSeq
  <2>2. Len(c.invs) \in Nat /\ DOMAIN c.invs = 1 .. Len(c.invs)  BY <2>1
  <2> DEFINE G == {g[i] : i \in DOMAIN c.invs}
  <2>3. g \in [1 .. Len(c.invs) -> G]  BY <2>2
  <2> HIDE DEF g, G
  <2>4. g \in Seq(G)  BY <2>2, <2>3
  <2> QED  BY <2>4 DEF IsSeq
<1>3. /\ DOMAIN g = DOMAIN c.invs
      /\ \A i \in DOMAIN c.invs :
            /\ "status" \in DOMAIN g[i]
            /\ g[i].status = "pending" => c.invs[i].status = "pending" /\ i \notin S
  BY DEF Registered
<1> HIDE DEF g
<1>4. /\ Fields \subseteq DOMAIN d /\ d.invs = g /\ d.callbacks = c.callbacks
      /\ d.conn = c.conn /\ d.transport = c.transport /\ d.starts = c.starts
      /\ d.stops = c.stops /\ d.ts = c.ts
  BY DEF Shape, Fields
<1> HIDE DEF d
<1>5. Line(c) => SameLine(c, d)  BY <1>4, TransportsSame DEF SameLine
<1> QED  BY <1>1, <1>2, <1>3, <1>4, <1>5 DEF Fade

WaitsBut(c, S) == \E i \in DOMAIN c.invs : c.invs[i].status = "pending" /\ i \notin S

\* The calls of S are settled, and their callbacks may go.
LEMMA FadeRest ==
  ASSUME NEW c, NEW d, NEW S, Line(c), Registered(c), WaitsBut(c, S) => Held(c),
         SameLine(c, d), Fade(c, d, S), DOMAIN d.callbacks \subseteq DOMAIN c.callbacks,
         \A id \in DOMAIN c.callbacks :
            IF id \in DOMAIN d.callbacks THEN d.callbacks[id] = c.callbacks[id]
                                         ELSE c.callbacks[id] \in S
  PROVE  Rest(d)
<1>1. Registered(d)
  <2>1. ASSUME NEW i \in DOMAIN d.invs, d.invs[i].status = "pending"
        PROVE  \E id \in DOMAIN d.callbacks : d.callbacks[id] = i
    <3>1. i \in DOMAIN c.invs /\ c.invs[i].status = "pending" /\ i \notin S  BY <2>1 DEF Fade
    <3>2. PICK id \in DOMAIN c.callbacks : c.callbacks[id] = i  BY <3>1 DEF Registered
    <3>3. id \in DOMAIN d.callbacks /\ d.callbacks[id] = i  BY <3>1, <3>2
    <3> QED  BY <3>3
  <2> QED  BY <2>1 DEF Registered, Fade
<1>2. Waits(d) => WaitsBut(c, S)  BY DEF Waits, WaitsBut, Fade
<1> QED  BY <1>1, <1>2, LineKept DEF Rest
-----------------------------------------------------------------------------
(* The operators, for a client that starts once                              *)

LEMMA TimeoutSound ==
  ASSUME NEW c, Sound(c)
  PROVE  /\ Sound(cleanupTimeout(c))
         /\ c.timer = FALSE => Sound(configureTimeout(c))
<1>1. SameTransports(c.ts, c.ts)  BY TransportsSame DEF Sound, Rest
<1>2. ASSUME NEW d, d = cleanupTimeout(c) \/ d = configureTimeout(c)
      PROVE  Rest(d)
  <2>1. SameLine(c, d) /\ d.invs = c.invs /\ d.callbacks = c.callbacks
    BY <1>1, <1>2 DEF cleanupTimeout, configureTimeout, SameLine, Sound, Good, Shape, Fields
  <2> QED  BY <2>1, QuietRest DEF Sound
<1> QED  BY <1>2, CleanGood, ConfigureGood DEF Sound

\* Whoever waits when the connection closes is told.
LEMMA ConnectionClosedRest ==
  ASSUME NEW c, Shape(c), Line(c), Registered(c)
  PROVE  /\ Rest(connectionClosed(c)) /\ connectionClosed(c).transport = c.transport
         /\ Fields \subseteq DOMAIN connectionClosed(c)
<1> DEFINE e == Settled(c, Pending(c), "failed")
           g == [e EXCEPT !.callbacks = <<>>]
           d == cleanupTimeout(g)
<1>1. Fields \subseteq DOMAIN e /\ Fade(c, e, Pending(c)) /\ SameLine(c, e)
  BY SettledFade
<1> HIDE DEF e
<1>2. /\ Fields \subseteq DOMAIN d /\ d.invs = e.invs
      /\ d.conn = e.conn /\ d.transport = e.transport /\ d.starts = e.starts
      /\ d.stops = e.stops /\ d.ts = e.ts
  BY <1>1 DEF cleanupTimeout, Fields
<1>3. connectionClosed(c) = d  BY DEF connectionClosed, e
<1> HIDE DEF d
<1>4. SameLine(c, d)  BY <1>1, <1>2 DEF SameLine, SameTransports
<1>5. ~Waits(d)
  <2> SUFFICES ASSUME NEW i \in DOMAIN d.invs, d.invs[i].status = "pending"
               PROVE  FALSE
    BY DEF Waits
  <2>1. i \in DOMAIN c.invs /\ c.invs[i].status = "pending" /\ i \notin Pending(c)
    BY <1>1, <1>2 DEF Fade
  <2> QED  BY <2>1 DEF Registered, Pending
<1>6. Registered(d)  BY <1>1, <1>2, <1>5 DEF Registered, Waits, Fade
<1>7. Rest(d)  BY <1>4, <1>5, <1>6, LineKept DEF Rest
<1> QED  BY <1>2, <1>3, <1>4, <1>7 DEF SameLine

\* The connection and its transport are given up.
LEMMA GivenUpLine ==
  ASSUME NEW c, NEW d, Line(c), d.starts = c.starts, d.stops = c.stops,
         SameTransports(c.ts, d.ts), d.transport = 0, d.conn \in {c.conn, "Disconnected"}
  PROVE  Line(d)
<1>1. OneStart(d)  BY DEF Line, OneStart, NoneConnected, SameTransports
<1>2. OneTransport(d)  BY DEF Line, OneTransport, SameTransports
<1>3. Stops(d)  BY DEF Line, Stops, Stopping, SameTransports
<1> QED  BY <1>1, <1>2, <1>3 DEF Line

LEMMA StopConnectionRest ==
  ASSUME NEW c, Shape(c), Line(c), Registered(c)
  PROVE  /\ Rest(stopConnection(c)) /\ stopConnection(c).transport = 0
         /\ Fields \subseteq DOMAIN stopConnection(c)
<1> DEFINE d == [c EXCEPT !.transport = 0, !.conn = "Disconnected"]
<1>1. /\ Fields \subseteq DOMAIN d /\ d.invs = c.invs /\ d.callbacks = c.callbacks
      /\ d.conn = "Disconnected" /\ d.transport = 0 /\ d.starts = c.starts
      /\ d.stops = c.stops /\ d.ts = c.ts /\ d.posts = c.posts
  BY DEF Shape, Fields
<1>2. stopConnection(c) = connectionClosed(d)  BY DEF stopConnection
<1> HIDE DEF d
<1>3. Line(d)  BY <1>1, TransportsSame, GivenUpLine
<1>4. Shape(d) /\ Registered(d)  BY <1>1 DEF Shape, Registered
<1> QED  BY <1>1, <1>2, <1>3, <1>4, ConnectionClosedRest

\* The phase of a transport becomes x, and it may run no more.
Phased(f, g, t, x) ==
    /\ IsSeq(g) /\ DOMAIN g = DOMAIN f
    /\ \A u \in DOMAIN g :
          /\ TransportFields \subseteq DOMAIN g[u]
          /\ g[u].kind = f[u].kind /\ g[u].handled = f[u].handled
          /\ g[u].phase = IF u = t THEN x ELSE f[u].phase

LEMMA PhaseLine ==
  ASSUME NEW c, Line(c), NEW t, NEW x, NEW f, NEW d,
         Assigned(c.ts, f, t, "phase", x), Assigned(f, d.ts, t, "running", FALSE),
         d.starts = c.starts, d.stops = c.stops,
         d.transport = c.transport, d.conn \in {c.conn, "Disconnected"}
  PROVE  Line(d) /\ Phased(c.ts, d.ts, t, x)
<1>1. \A u \in DOMAIN c.ts :
         /\ f[u].kind = c.ts[u].kind /\ f[u].handled = c.ts[u].handled
         /\ f[u].phase = IF u = t THEN x ELSE c.ts[u].phase
         /\ f[u].running = c.ts[u].running
  BY DEF Assigned
<1>2. \A u \in DOMAIN f :
         /\ d.ts[u].kind = f[u].kind /\ d.ts[u].handled = f[u].handled
         /\ d.ts[u].phase = f[u].phase
         /\ d.ts[u].running = IF u = t THEN FALSE ELSE f[u].running
         /\ TransportFields \subseteq DOMAIN d.ts[u]
  BY DEF Assigned
<1>3. DOMAIN f = DOMAIN c.ts /\ DOMAIN d.ts = DOMAIN f  BY DEF Assigned
<1>4. \A u \in DOMAIN d.ts :
         /\ TransportFields \subseteq DOMAIN d.ts[u]
         /\ d.ts[u].kind = c.ts[u].kind /\ d.ts[u].handled = c.ts[u].handled
         /\ d.ts[u].phase = IF u = t THEN x ELSE c.ts[u].phase
         /\ d.ts[u].running = IF u = t THEN FALSE ELSE c.ts[u].running
  <2> SUFFICES ASSUME NEW u \in DOMAIN d.ts
               PROVE  /\ TransportFields \subseteq DOMAIN d.ts[u]
                      /\ d.ts[u].kind = c.ts[u].kind /\ d.ts[u].handled = c.ts[u].handled
                      /\ d.ts[u].phase = IF u = t THEN x ELSE c.ts[u].phase
                      /\ d.ts[u].running = IF u = t THEN FALSE ELSE c.ts[u].running
    OBVIOUS
  <2>1. u \in DOMAIN f /\ u \in DOMAIN c.ts  BY <1>3
  <2>2. f[u].phase = IF u = t THEN x ELSE c.ts[u].phase  BY <1>1, <2>1
  <2>3. d.ts[u].running = IF u = t THEN FALSE ELSE c.ts[u].running  BY <1>1, <1>2, <2>1
  <2> QED  BY <1>1, <1>2, <2>1, <2>2, <2>3
<1>5. DOMAIN d.ts = DOMAIN c.ts /\ IsSeq(d.ts)  BY DEF Assigned
<1>6. OneStart(d)  BY <1>4, <1>5 DEF Line, OneStart, NoneConnected
<1>7. OneTransport(d)
  <2>1. \A u \in DOMAIN d.ts :
           d.ts[u].running => d.ts[u].phase = "open" /\ d.ts[u].kind = "LongPolling"
    <3>1. \A u \in DOMAIN d.ts : d.ts[u].running => u # t /\ c.ts[u].running  BY <1>4
    <3>2. \A u \in DOMAIN c.ts :
             c.ts[u].running => c.ts[u].phase = "open" /\ c.ts[u].kind = "LongPolling"
      BY DEF Line, OneTransport
    <3> QED  BY <1>4, <1>5, <3>1, <3>2
  <2> QED  BY <1>4, <1>5, <2>1 DEF Line, OneTransport
<1>8. Stops(d)
  <2>1. Stops(c)  BY DEF Line
  <2>2. \A u \in DOMAIN d.ts : d.ts[u].handled = c.ts[u].handled /\ d.ts[u].kind = c.ts[u].kind
    BY <1>4
  <2>3. \A k : Stopping(c, k) => Stopping(d, k)  BY <1>5, <2>2 DEF Stopping
  <2> QED  BY <2>1, <2>3 DEF Stops
<1> QED  BY <1>4, <1>5, <1>6, <1>7, <1>8 DEF Line, Phased

LEMMA ClosedRest ==
  ASSUME NEW c, Sound(c), NEW t
  PROVE  Rest(Closed(c, t))
<1> DEFINE f == [c.ts EXCEPT ![t].phase = "closed"]
           g == [f EXCEPT ![t].running = FALSE]
           d == [c EXCEPT !.ts[t].phase = "closed", !.ts[t].running = FALSE]
<1>1. /\ Fields \subseteq DOMAIN d /\ d.invs = c.invs /\ d.callbacks = c.callbacks
      /\ d.conn = c.conn /\ d.transport = c.transport /\ d.starts = c.starts
      /\ d.stops = c.stops /\ d.posts = c.posts /\ d.ts = g
  BY DEF Sound, Good, Shape, Fields
<1>2. Closed(c, t) = IF c.ts[t].handled THEN stopConnection(d) ELSE d
  BY DEF Closed
<1> HIDE DEF d
<1>3. Line(d) /\ Phased(c.ts, d.ts, t, "closed")
  <2>1. Assigned(c.ts, f, t, "phase", "closed")
    BY FieldSet DEF Sound, Good, Rest, Shape, Line, OneTransport, Fielded
  <2> HIDE DEF f
  <2>2. Fielded(f)  BY <2>1 DEF Assigned, Fielded
  <2>3. Assigned(f, g, t, "running", FALSE)  BY <2>2, FieldSet
  <2> HIDE DEF g
  <2>4. d.conn \in {c.conn, "Disconnected"}  BY <1>1
  <2>5. Assigned(f, d.ts, t, "running", FALSE)  BY <1>1, <2>3
  <2>6. Line(c)  BY DEF Sound, Rest
  <2>7. d.starts = c.starts /\ d.stops = c.stops /\ d.transport = c.transport  BY <1>1
  <2> QED  BY <2>1, <2>4, <2>5, <2>6, <2>7, PhaseLine
<1>4. Shape(d) /\ Registered(d)
  BY <1>1, <1>3 DEF Sound, Good, Rest, Shape, Registered, TransportFields, Phased
<1>5. CASE c.ts[t].handled
  BY <1>2, <1>3, <1>4, <1>5, StopConnectionRest DEF Sound, Rest
<1>6. CASE ~c.ts[t].handled
  <2>1. Waits(d) => Waits(c)  BY <1>1 DEF Waits
  <2>2. Held(c) => Held(d)  BY <1>1, <1>3, <1>6 DEF Held, Phased
  <2> QED  BY <1>2, <1>3, <1>4, <1>6, <2>1, <2>2 DEF Sound, Rest
<1> QED  BY <1>5, <1>6
LEMMA StopRest ==
  ASSUME NEW c, Sound(c)
  PROVE  Rest(stop(c))
<1> DEFINE p == [pc |-> "start", of |-> Len(c.starts)]
           f == Append(c.stops, p)
           d == [c EXCEPT !.conn = "Disconnected", !.stops = f]
<1>1. Shape(c) /\ Line(c)  BY DEF Sound, Good, Rest
<1>2. /\ IsSeq(f) /\ DOMAIN f # {}
      /\ \A k \in DOMAIN f : f[k] = p \/ (k \in DOMAIN c.stops /\ f[k] = c.stops[k])
  <2>1. IsSeq(c.stops)  BY <1>1 DEF Line, Stops
  <2> HIDE DEF p
  <2>2. /\ IsSeq(f) /\ Len(c.stops) \in Nat /\ DOMAIN c.stops = 1 .. Len(c.stops)
        /\ DOMAIN f = 1 .. Len(c.stops) + 1
        /\ \A i \in 1 .. Len(c.stops) : f[i] = c.stops[i]
        /\ f[Len(c.stops) + 1] = p
    BY <2>1, SeqAppend
  <2> QED  BY <2>2
<1>3. StopFields \subseteq DOMAIN p /\ Stopping(c, p)
  <2>1. IsSeq(c.starts)  BY <1>1 DEF Line, OneStart
  <2>2. Len(c.starts) \in Nat /\ DOMAIN c.starts = 1 .. Len(c.starts)  BY <2>1, SeqAppend
  <2>3. p.pc = "start" /\ p.of = Len(c.starts) /\ StopFields \subseteq DOMAIN p
    BY DEF StopFields
  <2> HIDE DEF p
  <2> QED  BY <2>2, <2>3 DEF Stopping
<1>4. /\ d.conn = "Disconnected" /\ d.transport = c.transport /\ d.starts = c.starts
      /\ d.ts = c.ts /\ d.stops = f /\ d.invs = c.invs /\ d.callbacks = c.callbacks
  BY <1>1 DEF Shape, Fields
<1>5. stop(c) = d  BY DEF stop
<1> HIDE DEF d, f, p
<1>6. OneStart(d) /\ OneTransport(d)
  BY <1>1, <1>4 DEF Line, OneStart, OneTransport, NoneConnected
<1>7. Stops(d)
  <2>1. \A q : Stopping(c, q) => Stopping(d, q)  BY <1>4 DEF Stopping
  <2>2. \A k \in DOMAIN d.stops : StopFields \subseteq DOMAIN d.stops[k] /\ Stopping(d, d.stops[k])
    BY <1>1, <1>2, <1>3, <1>4, <2>1 DEF Line, Stops
  <2> QED  BY <1>2, <1>4, <2>2 DEF Stops
<1>8. Held(c) => Held(d)  BY <1>2, <1>4 DEF Held
<1>9. Registered(d) /\ (Waits(d) => Waits(c))  BY <1>4 DEF Sound, Rest, Registered, Waits
<1> QED  BY <1>5, <1>6, <1>7, <1>8, <1>9 DEF Sound, Rest, Line

-----------------------------------------------------------------------------
(* Sending, for a client that starts once                                    *)

\* What can be sent has a transport that is handled and open.
LEMMA CanSendHeld ==
  ASSUME NEW c, Line(c), CanSend(c)
  PROVE  Held(c)
<1> DEFINE t == c.transport
<1>1. /\ c.conn = "Connected" /\ t \in DOMAIN c.ts /\ c.ts[t].handled
      /\ c.ts[t].kind \in Kinds
      /\ c.ts[t].running => c.ts[t].phase = "open"
  BY DEF Line, OneTransport, CanSend
<1>2. c.ts[t].phase = "open"
  <2>1. CASE c.ts[t].kind = "WebSockets"  BY <2>1 DEF CanSend
  <2>2. CASE c.ts[t].kind = "ServerSentEvents"  BY <2>2 DEF CanSend
  <2>3. CASE c.ts[t].kind = "LongPolling"
    <3>1. c.ts[t].running  BY <2>3 DEF CanSend
    <3> QED  BY <1>1, <3>1
  <2> QED  BY <1>1, <2>1, <2>2, <2>3 DEF Kinds
<1> QED  BY <1>1, <1>2 DEF Held

LEMMA SendLine ==
  ASSUME NEW c, Shape(c), Line(c), NEW m
  PROVE  /\ SameLine(c, Send(c, m))
         /\ Send(c, m).invs = c.invs /\ Send(c, m).callbacks = c.callbacks
<1> DEFINE tr == c.transport
           f == [c.ts EXCEPT ![tr] = [c.ts[tr] EXCEPT !.got = @ \cup {m}]]
           d == [c EXCEPT !.ts = f]
           e == [c EXCEPT !.posts = Append(@, [t |-> tr, m |-> m])]
<1>1. Send(c, m) \in {d, e}  BY DEF Send
<1>2. SameTransports(c.ts, f)
  <2>1. DOMAIN f = DOMAIN c.ts  OBVIOUS
  <2>2. ASSUME NEW u \in DOMAIN f
        PROVE  /\ TransportFields \subseteq DOMAIN f[u]
               /\ f[u].kind = c.ts[u].kind /\ f[u].phase = c.ts[u].phase
               /\ f[u].handled = c.ts[u].handled /\ f[u].running = c.ts[u].running
    <3>1. TransportFields \subseteq DOMAIN c.ts[u]  BY DEF Line, OneTransport
    <3> QED  BY <3>1 DEF TransportFields
  <2> QED  BY <2>1, <2>2 DEF SameTransports
<1>3. SameTransports(c.ts, c.ts)  BY TransportsSame
<1> HIDE DEF f
<1>4. SameLine(c, d) /\ d.invs = c.invs /\ d.callbacks = c.callbacks
  BY <1>2 DEF SameLine, Shape, Fields
<1>5. SameLine(c, e) /\ e.invs = c.invs /\ e.callbacks = c.callbacks
  BY <1>3 DEF SameLine, Shape, Fields
<1> QED  BY <1>1, <1>4, <1>5

\* A start goes on, and waits for its transport only if it did before.
Onward(f, g) ==
    /\ IsSeq(g) /\ DOMAIN g = DOMAIN f
    /\ \A s \in DOMAIN g :
          /\ StartFields \subseteq DOMAIN g[s] /\ IsSeq(g[s].rest)
          /\ g[s].pc \in Awaits => f[s].pc \in Awaits /\ g[s].inner = f[s].inner

LEMMA OnwardLine ==
  ASSUME NEW c, NEW d, Line(c), Onward(c.starts, d.starts), d.stops = c.stops,
         d.conn = c.conn, d.transport = c.transport, d.ts = c.ts
  PROVE  Line(d) /\ (Held(d) <=> Held(c))
<1>1. OneStart(d)  BY DEF Line, OneStart, NoneConnected, Onward
<1>2. OneTransport(d)  BY DEF Line, OneTransport, Onward
<1>3. Stops(d)  BY DEF Line, Stops, Stopping, Onward
<1>4. Held(d) <=> Held(c)  BY DEF Held
<1> QED  BY <1>1, <1>2, <1>3, <1>4 DEF Line

LEMMA OnwardRest ==
  ASSUME NEW c, NEW d, Rest(c), Onward(c.starts, d.starts), d.stops = c.stops,
         d.conn = c.conn, d.transport = c.transport, d.ts = c.ts,
         d.invs = c.invs, d.callbacks = c.callbacks
  PROVE  Rest(d)
<1>1. Line(d) /\ (Held(d) <=> Held(c))  BY OnwardLine DEF Rest
<1>2. Registered(d) /\ (Waits(d) => Waits(c))  BY DEF Rest, Registered, Waits
<1> QED  BY <1>1, <1>2 DEF Rest

LEMMA OnwardSet ==
  ASSUME NEW c, OneStart(c), NEW s, NEW x
  PROVE  /\ x \notin Awaits \/ c.starts[s].pc \in Awaits
              => Onward(c.starts, [c.starts EXCEPT ![s].pc = x])
         /\ Onward(c.starts, [c.starts EXCEPT ![s].redirects = x])
         /\ Onward(c.starts, [c.starts EXCEPT ![s].pc = "resume", ![s].inner = x])
<1>1. ASSUME NEW e, StartFields \subseteq DOMAIN e, e.rest = c.starts[s].rest,
             e.pc \in Awaits => c.starts[s].pc \in Awaits /\ e.inner = c.starts[s].inner
      PROVE  Onward(c.starts, [c.starts EXCEPT ![s] = e])
  <2> DEFINE g == [c.starts EXCEPT ![s] = e]
  <2>1. IsSeq(g) /\ DOMAIN g = DOMAIN c.starts  BY SeqExcept DEF OneStart
  <2>2. \A u \in DOMAIN g : (g[u] = e /\ u = s) \/ g[u] = c.starts[u]  OBVIOUS
  <2> HIDE DEF g
  <2>3. Onward(c.starts, g)  BY <1>1, <2>1, <2>2 DEF OneStart, Onward
  <2> QED  BY <2>3 DEF g
<1>2. CASE s \in DOMAIN c.starts
  <2>1. StartFields \subseteq DOMAIN c.starts[s]  BY <1>2 DEF OneStart
  <2> DEFINE e == c.starts[s]
             p == [e EXCEPT !.pc = x]
             r == [e EXCEPT !.redirects = x]
             i == [e EXCEPT !.pc = "resume", !.inner = x]
  <2>2. /\ StartFields \subseteq DOMAIN p /\ p.rest = e.rest /\ p.pc = x /\ p.inner = e.inner
        /\ StartFields \subseteq DOMAIN r /\ r.rest = e.rest /\ r.pc = e.pc /\ r.inner = e.inner
        /\ StartFields \subseteq DOMAIN i /\ i.rest = e.rest /\ i.pc = "resume"
    BY <2>1 DEF StartFields
  <2>3. "resume" \notin Awaits  BY DEF Awaits
  <2>4. [c.starts EXCEPT ![s].pc = "resume", ![s].inner = x] = [c.starts EXCEPT ![s] = i]
    OBVIOUS
  <2> HIDE DEF p, r, i
  <2>5. x \notin Awaits \/ e.pc \in Awaits => Onward(c.starts, [c.starts EXCEPT ![s] = p])
    BY <1>1, <2>2
  <2>6. Onward(c.starts, [c.starts EXCEPT ![s] = r])  BY <1>1, <2>2
  <2>7. Onward(c.starts, [c.starts EXCEPT ![s] = i])  BY <1>1, <2>2, <2>3
  <2> QED  BY <2>4, <2>5, <2>6, <2>7 DEF p, r
<1>3. CASE s \notin DOMAIN c.starts
  <2>1. Onward(c.starts, c.starts)  BY DEF OneStart, Onward
  <2>2. \A e : [c.starts EXCEPT ![s] = e] = c.starts
    <3>1. PICK S : c.starts \in Seq(S)  BY DEF OneStart, IsSeq
    <3>2. c.starts \in [1 .. Len(c.starts) -> S] /\ s \notin 1 .. Len(c.starts)
      BY <1>3, <3>1
    <3> QED  BY <3>2
  <2>3. [c.starts EXCEPT ![s].pc = "resume", ![s].inner = x] = c.starts
    BY <2>2
  <2> QED  BY <2>1, <2>2, <2>3
<1> QED  BY <1>2, <1>3
\* A message is refused: its call fails, and waits no more.
LEMMA RefusedRest ==
  ASSUME NEW c, Shape(c), Line(c), Registered(c), NEW m, m[1] # "handshake", Own(c, m),
         WaitsBut(c, {m[2]}) => Held(c)
  PROVE  Rest(Sent(c, m, FALSE))
<1> DEFINE e == Settled(c, {m[2]}, "failed")
           f == [id \in DOMAIN e.callbacks \ {m[3]} |-> e.callbacks[id]]
           d == [e EXCEPT !.callbacks = f]
<1>1. /\ Fields \subseteq DOMAIN e /\ Fade(c, e, {m[2]}) /\ e.callbacks = c.callbacks
      /\ SameLine(c, e)
  BY SettledFade
<1> HIDE DEF e
<1>2. /\ d.invs = e.invs /\ d.callbacks = f
      /\ d.conn = e.conn /\ d.transport = e.transport /\ d.starts = e.starts
      /\ d.stops = e.stops /\ d.ts = e.ts
  BY <1>1 DEF Fields
<1>3. Sent(c, m, FALSE) = d  BY DEF Sent, e
<1>4. /\ DOMAIN f \subseteq DOMAIN c.callbacks
      /\ \A id \in DOMAIN c.callbacks :
            IF id \in DOMAIN f THEN f[id] = c.callbacks[id] ELSE c.callbacks[id] \in {m[2]}
  BY <1>1 DEF Own
<1> HIDE DEF d, f
<1>5. SameLine(c, d) /\ Fade(c, d, {m[2]})
  BY <1>1, <1>2 DEF SameLine, SameTransports, Fade
<1> QED  BY <1>2, <1>3, <1>4, <1>5, FadeRest

LEMMA SentRest ==
  ASSUME NEW c, Sound(c), NEW m, Own(c, m), NEW ok \in BOOLEAN
  PROVE  Rest(Sent(c, m, ok))
<1>1. ASSUME NEW e, Sound(e), NEW x, x \notin Awaits
      PROVE  Rest([e EXCEPT !.starts[m[2]].pc = x])
  <2> DEFINE g == [e.starts EXCEPT ![m[2]].pc = x]
             d == [e EXCEPT !.starts = g]
  <2>1. Onward(e.starts, g)  BY <1>1, OnwardSet DEF Sound, Rest, Line
  <2> HIDE DEF g
  <2>2. /\ d.starts = g /\ d.stops = e.stops /\ d.conn = e.conn /\ d.transport = e.transport
        /\ d.ts = e.ts /\ d.invs = e.invs /\ d.callbacks = e.callbacks
    BY <1>1 DEF Sound, Good, Shape, Fields
  <2> HIDE DEF d
  <2>3. Rest(d)  BY <1>1, <2>1, <2>2, OnwardRest DEF Sound
  <2> QED  BY <2>3 DEF d, g
<1>2. CASE m[1] = "handshake" /\ ok
  <2> DEFINE e == configureTimeout(cleanupTimeout(c))
  <2>1. Sound(e)
    <3>1. Sound(cleanupTimeout(c))  BY TimeoutSound
    <3>2. cleanupTimeout(c).timer = FALSE  BY CleanGood DEF Sound
    <3> QED  BY <3>1, <3>2, TimeoutSound
  <2>2. Sent(c, m, ok) = [e EXCEPT !.starts[m[2]].pc = "resolved"]  BY <1>2 DEF Sent
  <2> HIDE DEF e
  <2>3. "resolved" \notin Awaits  BY DEF Awaits
  <2> QED  BY <1>1, <2>1, <2>2, <2>3
<1>3. CASE m[1] = "handshake" /\ ~ok
  <2>1. Sent(c, m, ok) = [c EXCEPT !.starts[m[2]].pc = "rejected"]  BY <1>3 DEF Sent
  <2>2. "rejected" \notin Awaits  BY DEF Awaits
  <2> QED  BY <1>1, <2>1, <2>2
<1>4. CASE m[1] # "handshake" /\ ok
  BY <1>4 DEF Sent, Sound
<1>5. CASE m[1] # "handshake" /\ ~ok
  <2>1. WaitsBut(c, {m[2]}) => Held(c)  BY DEF Sound, Rest, Waits, WaitsBut
  <2>2. Sent(c, m, ok) = Sent(c, m, FALSE)  BY <1>5
  <2> QED  BY <1>5, <2>1, <2>2, RefusedRest DEF Sound, Good, Rest
<1> QED  BY <1>2, <1>3, <1>4, <1>5

LEMMA SendRest ==
  ASSUME NEW c, Sound(c), NEW m, Own(c, m)
  PROVE  Sound(Send(c, m)) /\ Own(Send(c, m), m)
BY SendLine, SendGood, QuietRest DEF Sound, Rest, Good

LEMMA SendOrFailRest ==
  ASSUME NEW c, Sound(c), NEW m, Own(c, m)
  PROVE  Rest(SendOrFail(c, m))
<1>1. Rest(Sent(c, m, FALSE))  BY SentRest
<1>2. Sound(Send(c, m)) /\ Own(Send(c, m), m)  BY SendRest
<1>3. Rest(Sent(Send(c, m), m, TRUE))  BY <1>2, SentRest
<1> QED  BY <1>1, <1>2, <1>3 DEF SendOrFail, Sound

-----------------------------------------------------------------------------
(* Starting once                                                             *)

\* Before a transport has connected nobody waits for an answer.
LEMMA NobodyWaits ==
  ASSUME NEW c, Sound(c), NEW s \in DOMAIN c.starts, c.starts[s].pc \in Awaits
  PROVE  NoneConnected(c) /\ ~Waits(c)
BY DEF Sound, Rest, Line, OneStart, NoneConnected, Held

\* No start waits for its transport any more.
Over(f, g) ==
    /\ IsSeq(g) /\ DOMAIN g = DOMAIN f
    /\ \A u \in DOMAIN g :
          /\ StartFields \subseteq DOMAIN g[u] /\ IsSeq(g[u].rest)
          /\ g[u].pc \notin Awaits

\* The start is over, and a transport of b may be handled from now on.
LEMMA StartOverRest ==
  ASSUME NEW b, Sound(b), NEW s \in DOMAIN b.starts, b.starts[s].pc \in Awaits, NEW d,
         Over(b.starts, d.starts),
         d.stops = b.stops, d.invs = b.invs, d.callbacks = b.callbacks,
         DOMAIN d.ts = DOMAIN b.ts,
         \A t \in DOMAIN d.ts :
            /\ TransportFields \subseteq DOMAIN d.ts[t] /\ d.ts[t].kind \in Kinds
            /\ d.ts[t].handled => d.transport \in {t, 0}
            /\ d.ts[t].running => d.ts[t].phase = "open" /\ d.ts[t].kind = "LongPolling",
         d.transport # 0 => d.transport \in DOMAIN d.ts,
         d.conn = "Connected" /\ d.transport # 0 => d.ts[d.transport].handled
  PROVE  Rest(d)
<1>1. Line(b) /\ Registered(b) /\ ~Waits(b)  BY NobodyWaits DEF Sound, Rest
<1>2. OneStart(d)  BY <1>1 DEF Line, OneStart, Over
<1>3. OneTransport(d)  BY <1>1 DEF OneTransport, Over
<1>4. Stops(d)
  <2>1. ASSUME NEW p, Stopping(b, p) PROVE Stopping(d, p)
    BY <2>1 DEF Stopping, Over
  <2> QED  BY <1>1, <2>1 DEF Line, Stops
<1>5. Registered(d) /\ ~Waits(d)  BY <1>1 DEF Registered, Waits
<1> QED  BY <1>2, <1>3, <1>4, <1>5 DEF Rest, Line

LEMMA ResumeStarts ==
  ASSUME NEW b, Line(b), NEW s \in DOMAIN b.starts, NEW o
  PROVE  Over(b.starts, [b.starts EXCEPT ![s].pc = "resume", ![s].inner = o])
<1> DEFINE g == [b.starts EXCEPT ![s].pc = "resume", ![s].inner = o]
<1>1. DOMAIN b.starts = {s}  BY DEF Line, OneStart
<1>2. Onward(b.starts, g)  BY OnwardSet DEF Line
<1>3. g[s].pc = "resume"
  <2>1. StartFields \subseteq DOMAIN b.starts[s]  BY DEF Line, OneStart
  <2> QED  BY <2>1 DEF StartFields
<1>4. "resume" \notin Awaits  BY DEF Awaits
<1> HIDE DEF g
<1>5. Over(b.starts, g)  BY <1>1, <1>2, <1>3, <1>4 DEF Onward, Over
<1> QED  BY <1>5 DEF g

LEMMA StartFailsRest ==
  ASSUME NEW c, Sound(c), NEW s \in DOMAIN c.starts, c.starts[s].pc \in Awaits
  PROVE  Rest(StartFails(c, s))
<1> DEFINE g == [c.starts EXCEPT ![s].pc = "resume", ![s].inner = "rejected"]
           d == StartFails(c, s)
<1>1. /\ d.starts = g /\ d.stops = c.stops /\ d.invs = c.invs /\ d.callbacks = c.callbacks
      /\ d.ts = c.ts /\ d.transport = 0 /\ d.conn = "Disconnected"
  BY DEF StartFails, Resume, Sound, Good, Shape, Fields
<1>2. Line(c)  BY DEF Sound, Rest
<1> HIDE DEF d
<1>3. Over(c.starts, g)  BY <1>2, ResumeStarts
<1> HIDE DEF g
<1>4. \A t \in DOMAIN d.ts :
         /\ TransportFields \subseteq DOMAIN d.ts[t] /\ d.ts[t].kind \in Kinds
         /\ d.ts[t].handled => d.transport \in {t, 0}
         /\ d.ts[t].running => d.ts[t].phase = "open" /\ d.ts[t].kind = "LongPolling"
  BY <1>1, <1>2 DEF Line, OneTransport
<1>5. Rest(d)  BY <1>1, <1>3, <1>4, StartOverRest
<1> QED  BY <1>5 DEF d
\* The start's transport has connected: from b to c only transports have changed.
LEMMA ConnectedRest ==
  ASSUME NEW b, Sound(b), NEW s \in DOMAIN b.starts, b.starts[s].pc \in Awaits,
         NEW c, Fields \subseteq DOMAIN c, c.starts = b.starts, c.stops = b.stops,
         c.transport = b.transport, c.invs = b.invs, c.callbacks = b.callbacks,
         Fielded(c.ts), DOMAIN c.ts = DOMAIN b.ts,
         \A t \in DOMAIN c.ts :
            /\ c.ts[t].kind \in Kinds /\ ~c.ts[t].handled
            /\ c.ts[t].running => c.ts[t].phase = "open" /\ c.ts[t].kind = "LongPolling"
  PROVE  Rest(Connected(c, s))
<1> DEFINE tr == c.transport
           e == changeState(c, "Connecting", "Connected")
           f == [c.ts EXCEPT ![tr].handled = TRUE]
           h == [e EXCEPT !.ts[tr].handled = TRUE,
                          !.keepAlive = @ \/ c.ts[tr].kind = "LongPolling"]
           g(o) == [c.starts EXCEPT ![s].pc = "resume", ![s].inner = o]
           d == Connected(c, s)
<1>1. tr # 0 => tr \in DOMAIN c.ts  BY DEF Sound, Rest, Line, OneTransport
<1>2. \A o : Over(b.starts, g(o))
  <2>1. Line(b)  BY DEF Sound, Rest
  <2> QED  BY <2>1, ResumeStarts
<1>3. /\ Fields \subseteq DOMAIN e /\ e.starts = c.starts /\ e.stops = c.stops
      /\ e.invs = c.invs /\ e.callbacks = c.callbacks /\ e.ts = c.ts /\ e.transport = tr
  BY DEF changeState, Fields
<1>4. CASE tr = 0
  <2>1. d = StartFails(e, s)  BY <1>4 DEF Connected
  <2> HIDE DEF d, e
  <2>2. /\ d.starts = g("rejected") /\ d.stops = b.stops /\ d.invs = b.invs
        /\ d.callbacks = b.callbacks /\ d.ts = c.ts /\ d.transport = 0
    BY <1>3, <2>1 DEF StartFails, Resume, Fields
  <2> HIDE DEF g
  <2>3. Over(b.starts, d.starts)  BY <1>2, <2>2
  <2>4. \A t \in DOMAIN d.ts :
           /\ TransportFields \subseteq DOMAIN d.ts[t] /\ d.ts[t].kind \in Kinds
           /\ d.ts[t].handled => d.transport \in {t, 0}
           /\ d.ts[t].running => d.ts[t].phase = "open" /\ d.ts[t].kind = "LongPolling"
    BY <2>2 DEF Fielded
  <2>5. Rest(d)  BY <2>2, <2>3, <2>4, StartOverRest
  <2> QED  BY <2>5 DEF d
<1>5. CASE tr # 0
  <2>1. d = Resume(h, s, "resolved")  BY <1>5 DEF Connected
  <2>2. Assigned(c.ts, f, tr, "handled", TRUE)  BY FieldSet
  <2> HIDE DEF e
  <2>3. /\ Fields \subseteq DOMAIN h /\ h.starts = c.starts /\ h.stops = c.stops
        /\ h.invs = c.invs /\ h.callbacks = c.callbacks /\ h.transport = tr /\ h.ts = f
    BY <1>3 DEF Fields
  <2> HIDE DEF d, h, f
  <2>4. /\ d.starts = g("resolved") /\ d.stops = b.stops /\ d.invs = b.invs
        /\ d.callbacks = b.callbacks /\ d.ts = f /\ d.transport = tr
    BY <2>1, <2>3 DEF Resume, Fields
  <2> HIDE DEF g
  <2>5. Over(b.starts, d.starts)  BY <1>2, <2>4
  <2>9. \A t \in DOMAIN c.ts :
           /\ t \in DOMAIN f /\ TransportFields \subseteq DOMAIN f[t]
           /\ f[t].kind = c.ts[t].kind /\ f[t].phase = c.ts[t].phase
           /\ f[t].running = c.ts[t].running
           /\ f[t].handled <=> t = tr
    BY <2>2 DEF Assigned
  <2>10. DOMAIN f = DOMAIN c.ts  BY <2>2 DEF Assigned
  <2>6. /\ DOMAIN d.ts = DOMAIN b.ts
        /\ \A t \in DOMAIN d.ts :
              /\ TransportFields \subseteq DOMAIN d.ts[t] /\ d.ts[t].kind \in Kinds
              /\ d.ts[t].handled => d.transport \in {t, 0}
              /\ d.ts[t].running => d.ts[t].phase = "open" /\ d.ts[t].kind = "LongPolling"
              /\ t = d.transport => d.ts[t].handled
    BY <2>4, <2>9, <2>10
  <2>7. d.transport # 0 => d.transport \in DOMAIN d.ts  BY <1>1, <2>4, <2>6
  <2>8. Rest(d)  BY <2>4, <2>5, <2>6, <2>7, StartOverRest
  <2> QED  BY <2>8 DEF d
<1> QED  BY <1>4, <1>5

LEMMA Least ==
  ASSUME NEW T, T \subseteq Nat, T # {}
  PROVE  \E n \in T : \A k \in T : n <= k
<1>1. IsWellFoundedOn(OpToRel(<, Nat), Nat)  BY NatLessThanWellFounded
<1>2. PICK n \in T : \A k \in T : ~(<<k, n>> \in OpToRel(<, Nat))  BY <1>1, WFMin
<1>3. \A k \in T : ~(k < n)  BY <1>2 DEF OpToRel
<1> QED  BY <1>3

\* The transport that is tried next is one that the page can use.
LEMMA NextUsable ==
  ASSUME NEW offer, IsSeq(offer), {i \in DOMAIN offer : offer[i] \in Usable} # {}
  PROVE  LET usable == {i \in DOMAIN offer : offer[i] \in Usable}
             i == CHOOSE n \in usable : \A m \in usable : n <= m
         IN  offer[i] \in Kinds /\ IsSeq(SubSeq(offer, i + 1, Len(offer)))
<1> DEFINE usable == {i \in DOMAIN offer : offer[i] \in Usable}
           i == CHOOSE n \in usable : \A m \in usable : n <= m
<1>1. PICK S : offer \in Seq(S)  BY DEF IsSeq
<1>2. usable \subseteq Nat  BY <1>1
<1>3. \E n \in usable : \A m \in usable : n <= m  BY <1>2, Least
<1>4. i \in usable  BY <1>3
<1> HIDE DEF i
<1>5. offer[i] \in Kinds  BY <1>4, ClientConstants
<1>6. SubSeq(offer, i + 1, Len(offer)) \in Seq(S)  BY <1>1, <1>4
<1> QED  BY <1>5, <1>6 DEF i, IsSeq

LEMMA CreateRest ==
  ASSUME NEW c, Sound(c), NEW s \in DOMAIN c.starts, c.starts[s].pc \in Awaits,
         NEW offer, IsSeq(offer), NEW again \in BOOLEAN
  PROVE  Rest(createTransport(c, s, offer, again))
<1> DEFINE usable == {i \in DOMAIN offer : offer[i] \in Usable}
           i == CHOOSE n \in usable : \A m \in usable : n <= m
           t == Len(c.ts) + 1
           n == NewTransport(offer[i])
           f == Append(c.ts, n)
           pc == IF again THEN "renegotiate" ELSE "connect"
           rest == SubSeq(offer, i + 1, Len(offer))
           e == [c.starts[s] EXCEPT !.t = t, !.rest = rest, !.pc = pc]
           g == [c.starts EXCEPT ![s] = e]
           d == [c EXCEPT !.conn = "Connecting", !.ts = f, !.transport = t,
                          !.starts[s].t = t, !.starts[s].rest = rest, !.starts[s].pc = pc]
<1>1. CASE usable = {}
  BY <1>1, StartFailsRest DEF createTransport
<1>2. CASE usable # {}
  <2>1. offer[i] \in Kinds /\ IsSeq(rest)  BY <1>2, NextUsable
  <2>2. createTransport(c, s, offer, again) = d  BY <1>2 DEF createTransport
  <2>3. Line(c) /\ Shape(c) /\ Registered(c) /\ NoneConnected(c) /\ ~Waits(c)
    BY NobodyWaits DEF Sound, Good, Rest
  <2>4. pc \in Awaits  BY DEF Awaits
  <2>5. /\ n.kind = offer[i] /\ n.handled = FALSE /\ n.running = FALSE
        /\ TransportFields \subseteq DOMAIN n
    BY DEF NewTransport, TransportFields
  <2> HIDE DEF i, usable, rest, n, pc
  <2>6. StartFields \subseteq DOMAIN c.starts[s] /\ c.starts[s].inner = "pending"
    BY <2>3 DEF Line, OneStart
  <2>7. /\ StartFields \subseteq DOMAIN e /\ e.pc = pc /\ e.rest = rest
        /\ e.inner = "pending"
    BY <2>6 DEF StartFields
  <2>8. /\ d.starts = g /\ d.stops = c.stops /\ d.invs = c.invs /\ d.callbacks = c.callbacks
        /\ d.ts = f /\ d.transport = t /\ d.conn = "Connecting"
    BY <2>3 DEF Shape, Fields
  <2> HIDE DEF d, e
  <2>9. IsSeq(g) /\ DOMAIN g = DOMAIN c.starts /\ DOMAIN c.starts = {s} /\ g[s] = e
    BY <2>3, SeqExcept DEF Line, OneStart
  <2> HIDE DEF g
  <2>10. /\ t \in DOMAIN f
         /\ \A u \in DOMAIN f : f[u] = n \/ (u \in DOMAIN c.ts /\ f[u] = c.ts[u])
    <3>1. IsSeq(c.ts)  BY <2>3 DEF Shape
    <3> QED  BY <3>1, SeqAppend
  <2> HIDE DEF f, t
  <2>11. NoneConnected(d)  BY <2>3, <2>5, <2>8, <2>10 DEF NoneConnected
  <2>12. OneStart(d)  BY <2>1, <2>3, <2>7, <2>8, <2>9, <2>11 DEF Line, OneStart
  <2>13. OneTransport(d)
    <3>1. \A u \in DOMAIN d.ts : TransportFields \subseteq DOMAIN d.ts[u] /\ d.ts[u].kind \in Kinds
      BY <2>1, <2>3, <2>5, <2>8, <2>10 DEF Line, OneTransport
    <3> QED  BY <2>8, <2>9, <2>10, <2>11, <3>1 DEF OneTransport, NoneConnected
  <2>14. Stops(d)
    <3>1. ASSUME NEW p, Stopping(c, p) PROVE Stopping(d, p)
      BY <2>8, <2>9, <3>1 DEF Stopping
    <3> QED  BY <2>3, <2>8, <3>1 DEF Line, Stops
  <2>15. Registered(d) /\ ~Waits(d)  BY <2>3, <2>8 DEF Registered, Waits
  <2> QED  BY <2>2, <2>12, <2>13, <2>14, <2>15 DEF Rest, Line
<1> QED  BY <1>1, <1>2
-----------------------------------------------------------------------------
(* Receiving, for a client that starts once                                  *)

LEMMA DispatchRest ==
  ASSUME NEW c, Sound(c), NEW m
  PROVE  Rest(Dispatch(c, m))
<1>1. Shape(c) /\ Line(c) /\ Registered(c) /\ (\A S : WaitsBut(c, S) => Held(c))
  BY DEF Sound, Good, Rest, Waits, WaitsBut
<1>2. CASE m.type = "completion" /\ m.id \in DOMAIN c.callbacks
  <2> DEFINE i == c.callbacks[m.id]
             f == [x \in DOMAIN c.callbacks \ {m.id} |-> c.callbacks[x]]
             b == [c EXCEPT !.callbacks = f]
             d == Settled(b, {i}, "answered")
             e == Settled(c, {i}, "answered")
  <2>1. Dispatch(c, m) = d  BY <1>2 DEF Dispatch
  <2>2. /\ Fields \subseteq DOMAIN e /\ Fade(c, e, {i}) /\ SameLine(c, e)
    BY <1>1, SettledFade
  <2>3. /\ d.invs = e.invs /\ d.callbacks = f
        /\ d.conn = e.conn /\ d.transport = e.transport /\ d.starts = e.starts
        /\ d.stops = e.stops /\ d.ts = e.ts
    BY <1>1 DEF Settled, Shape, Fields
  <2>4. /\ DOMAIN f \subseteq DOMAIN c.callbacks
        /\ \A id \in DOMAIN c.callbacks :
              IF id \in DOMAIN f THEN f[id] = c.callbacks[id] ELSE c.callbacks[id] \in {i}
    OBVIOUS
  <2> HIDE DEF d, e, f, i
  <2>5. SameLine(c, d) /\ Fade(c, d, {i})  BY <2>2, <2>3 DEF SameLine, SameTransports, Fade
  <2> QED  BY <1>1, <2>1, <2>3, <2>4, <2>5, FadeRest
<1>3. CASE m.type \in {"close", "request"}
  BY <1>3, StopRest DEF Dispatch
<1>4. \A S : Rest(Settled(c, S, "failed"))
  <2> TAKE S
  <2> DEFINE d == Settled(c, S, "failed")
  <2>1. Fade(c, d, S) /\ SameLine(c, d) /\ d.callbacks = c.callbacks
    BY <1>1, SettledFade
  <2> HIDE DEF d
  <2>2. Rest(d)  BY <1>1, <2>1, FadeRest
  <2> QED  BY <2>2 DEF d
<1>5. CASE /\ m.type \notin {"close", "request"}
           /\ ~(m.type = "completion" /\ m.id \in DOMAIN c.callbacks)
  BY <1>4, <1>5 DEF Dispatch, Sound
<1> QED  BY <1>2, <1>3, <1>5

LEMMA IncomingRest ==
  ASSUME NEW c, Sound(c), NEW chunk
  PROVE  Rest(processIncomingData(c, chunk).c)
<1> DEFINE b    == cleanupTimeout(c)
           hs   == processHandshakeResponse(b, chunk.hs)
           read == [hs EXCEPT !.received = TRUE]
<1>1. Sound(b) /\ b.timer = FALSE  BY TimeoutSound, CleanGood DEF Sound
<1> HIDE DEF b
<1>2. Sound(hs) /\ hs.timer = FALSE
  <2>1. Rest(stop(b))  BY <1>1, StopRest
  <2>2. Calm(b, stop(b))  BY <1>1, StopCalm DEF Sound
  <2>3. Good(stop(b)) /\ stop(b).timer = FALSE  BY <1>1, <2>2, CalmGood DEF Calm, Sound
  <2> QED  BY <1>1, <2>1, <2>3 DEF processHandshakeResponse, Sound
<1> HIDE DEF hs
<1>3. Sound(read) /\ read.timer = FALSE
  <2>1. Calm(hs, read)  BY <1>2, CarriedSame DEF Calm, Sound, Good, Shape, Fields
  <2>2. Good(read) /\ read.timer = FALSE  BY <1>2, <2>1, CalmGood DEF Calm, Sound
  <2>3. /\ read.conn = hs.conn /\ read.transport = hs.transport /\ read.starts = hs.starts
        /\ read.stops = hs.stops /\ read.ts = hs.ts
        /\ read.invs = hs.invs /\ read.callbacks = hs.callbacks
    BY <1>2 DEF Sound, Good, Shape, Fields
  <2> HIDE DEF read
  <2>4. SameLine(hs, read)  BY <1>2, <2>3, TransportsSame DEF SameLine, Sound, Rest
  <2>5. Rest(read)  BY <1>2, <2>3, <2>4, QuietRest DEF Sound
  <2> QED  BY <2>2, <2>5 DEF Sound
<1> HIDE DEF read
<1>4. ASSUME NEW d, Sound(d), d.timer = FALSE
      PROVE  Rest(configureTimeout(Dispatch(d, chunk.m)))
  <2>1. Rest(Dispatch(d, chunk.m))  BY <1>4, DispatchRest
  <2>2. Good(Dispatch(d, chunk.m)) /\ Dispatch(d, chunk.m).timer = FALSE
    BY <1>4, DispatchGood DEF Sound
  <2> QED  BY <2>1, <2>2, TimeoutSound DEF Sound
<1>5. processIncomingData(c, chunk).c \in
        {configureTimeout(Dispatch(b, chunk.m)), configureTimeout(Dispatch(read, chunk.m)), b, hs}
  BY DEF processIncomingData, b, hs, read
<1> QED  BY <1>1, <1>2, <1>3, <1>4, <1>5 DEF Sound

-----------------------------------------------------------------------------
(* The actions of a client that starts once                                  *)

\* From client to d only fields change that say nothing of starts, stops,
\* transports and calls.
LEMMA OneFieldRest ==
  ASSUME NEW c, Sound(c), NEW d, d.conn = c.conn, d.transport = c.transport,
         d.starts = c.starts, d.stops = c.stops, d.ts = c.ts,
         d.invs = c.invs, d.callbacks = c.callbacks
  PROVE  Rest(d)
<1>1. SameLine(c, d)  BY TransportsSame DEF SameLine, Sound, Rest
<1> QED  BY <1>1, QuietRest DEF Sound

\* A start goes on: what becomes of its record is sound.
LEMMA StepOfStart ==
  ASSUME NEW c, Sound(c), NEW g, Onward(c.starts, g)
  PROVE  Sound([c EXCEPT !.starts = g])
<1> DEFINE d == [c EXCEPT !.starts = g]
<1>1. Calm(c, d)  BY CarriedSame DEF Calm, Sound, Good, Shape, Fields
<1>2. Good(d)  BY <1>1, CalmGood DEF Sound
<1>3. /\ d.starts = g /\ d.stops = c.stops /\ d.conn = c.conn /\ d.transport = c.transport
      /\ d.ts = c.ts /\ d.invs = c.invs /\ d.callbacks = c.callbacks
  BY DEF Sound, Good, Shape, Fields
<1> HIDE DEF d
<1>4. Rest(d)  BY <1>3, OnwardRest DEF Sound
<1>5. Sound(d)  BY <1>2, <1>4 DEF Sound
<1> QED  BY <1>5 DEF d

LEMMA OnceStart ==
  ASSUME MaxStarts <= 1, Sound(client), start
  PROVE  Rest(client')
<1> DEFINE s == [pc |-> "negotiate", inner |-> "pending", redirects |-> 0, t |-> 0, rest |-> <<>>]
           g == Append(client.starts, s)
<1>1. Line(client) /\ Shape(client) /\ Registered(client)  BY DEF Sound, Good, Rest
<1>2. CASE client' = [client EXCEPT !.received = FALSE]
  <2>1. /\ client'.conn = client.conn /\ client'.transport = client.transport
        /\ client'.starts = client.starts /\ client'.stops = client.stops
        /\ client'.ts = client.ts /\ client'.invs = client.invs
        /\ client'.callbacks = client.callbacks
    BY <1>1, <1>2 DEF Shape, Fields
  <2> QED  BY <2>1, OneFieldRest
<1>3. CASE client' = [client EXCEPT !.received = FALSE, !.conn = "Connecting",
                                    !.starts = Append(@, s)]
  <2>1. /\ client'.conn = "Connecting" /\ client'.transport = client.transport
        /\ client'.starts = g /\ client'.stops = client.stops
        /\ client'.ts = client.ts /\ client'.invs = client.invs
        /\ client'.callbacks = client.callbacks
    BY <1>1, <1>3 DEF Shape, Fields
  <2>2. StartFields \subseteq DOMAIN s /\ s.pc = "negotiate" /\ s.inner = "pending"
        /\ s.rest = <<>>
    BY DEF StartFields
  <2>3. <<>> \in Seq({})  OBVIOUS
  <2>4. IsSeq(s.rest)  BY <2>2, <2>3 DEF IsSeq
  <2> HIDE DEF s
  <2>5. IsSeq(client.starts) /\ Len(client.starts) < MaxStarts  BY <1>1 DEF Line, OneStart, start
  <2>6. /\ Len(client.starts) \in Nat /\ DOMAIN client.starts = 1 .. Len(client.starts)
        /\ IsSeq(g) /\ DOMAIN g = 1 .. Len(client.starts) + 1
        /\ g[Len(client.starts) + 1] = s
    BY <2>5, SeqAppend
  <2>7. Len(client.starts) = 0  BY <2>5, <2>6, ClientConstants
  <2>8. DOMAIN client.starts = {} /\ DOMAIN g = {1} /\ g[1] = s  BY <2>6, <2>7
  <2> HIDE DEF g
  <2>9. DOMAIN client.ts = {} /\ client.transport = 0
    BY <1>1, <2>8 DEF Line, OneTransport
  <2>10. OneStart(client')  BY <2>1, <2>2, <2>4, <2>6, <2>8, <2>9 DEF OneStart, NoneConnected
  <2>11. OneTransport(client')  BY <2>1, <2>9 DEF OneTransport
  <2>12. Stops(client')
    <3>1. ASSUME NEW k \in DOMAIN client.stops PROVE Stopping(client', client.stops[k])
      <4>1. Stopping(client, client.stops[k])  BY <1>1, <3>1 DEF Line, Stops
      <4>2. client.stops[k].of = 0 /\ client.stops[k].pc # "delete"
        BY <2>8, <4>1 DEF Stopping
      <4>3. ~CanResume(client)  BY DEF start, Event
      <4>4. client.stops[k].pc # "start"  BY <3>1, <4>2, <4>3 DEF CanResume
      <4> QED  BY <4>2, <4>4 DEF Stopping
    <3> QED  BY <1>1, <2>1, <3>1 DEF Line, Stops
  <2>13. ~Waits(client)  BY <2>9 DEF Sound, Rest, Held
  <2>14. Registered(client') /\ ~Waits(client')  BY <1>1, <2>1, <2>13 DEF Registered, Waits
  <2> QED  BY <2>10, <2>11, <2>12, <2>14 DEF Rest, Line
<1> QED  BY <1>2, <1>3 DEF start
LEMMA PhaseOnlyLine ==
  ASSUME NEW c, Line(c), NEW t, NEW x, NEW d, Assigned(c.ts, d.ts, t, "phase", x),
         t \in DOMAIN c.ts => ~c.ts[t].running,
         d.starts = c.starts, d.stops = c.stops,
         d.transport = c.transport, d.conn \in {c.conn, "Disconnected"}
  PROVE  Line(d) /\ Phased(c.ts, d.ts, t, x)
<1>1. \A u \in DOMAIN d.ts :
         /\ TransportFields \subseteq DOMAIN d.ts[u]
         /\ d.ts[u].kind = c.ts[u].kind /\ d.ts[u].handled = c.ts[u].handled
         /\ d.ts[u].phase = IF u = t THEN x ELSE c.ts[u].phase
         /\ d.ts[u].running = c.ts[u].running
  BY DEF Assigned
<1>2. DOMAIN d.ts = DOMAIN c.ts /\ IsSeq(d.ts)  BY DEF Assigned
<1>3. OneStart(d)  BY <1>1, <1>2 DEF Line, OneStart, NoneConnected
<1>4. OneTransport(d)
  <2>1. \A u \in DOMAIN d.ts :
           d.ts[u].running => d.ts[u].phase = "open" /\ d.ts[u].kind = "LongPolling"
    BY <1>1, <1>2 DEF Line, OneTransport
  <2> QED  BY <1>1, <1>2, <2>1 DEF Line, OneTransport
<1>5. Stops(d)  BY <1>1, <1>2 DEF Line, Stops, Stopping
<1> QED  BY <1>1, <1>2, <1>3, <1>4, <1>5 DEF Line, Phased

LEMMA NegotiatedRest ==
  ASSUME Sound(client), NEW s \in DOMAIN client.starts, Negotiated(s) \/ Renegotiated(s)
  PROVE  Rest(client')
<1>1. client.starts[s].pc \in Awaits  BY DEF Negotiated, Renegotiated, Awaits
<1>2. Shape(client) /\ OneStart(client)  BY DEF Sound, Good, Rest, Line
<1>3. Rest(StartFails(client, s))  BY <1>1, StartFailsRest
<1>4. Rest(Resume(client, s, "resolved"))
  <2> DEFINE g == [client.starts EXCEPT ![s].pc = "resume", ![s].inner = "resolved"]
  <2>1. Onward(client.starts, g)  BY <1>2, OnwardSet
  <2>2. Resume(client, s, "resolved") = [client EXCEPT !.starts = g]  BY DEF Resume
  <2> HIDE DEF g
  <2> QED  BY <2>1, <2>2, StepOfStart DEF Sound
<1>5. \A n : Rest([client EXCEPT !.starts[s].redirects = n])
  <2> TAKE n
  <2> DEFINE g == [client.starts EXCEPT ![s].redirects = n]
  <2>1. Onward(client.starts, g)  BY <1>2, OnwardSet
  <2>2. [client EXCEPT !.starts[s].redirects = n] = [client EXCEPT !.starts = g]  OBVIOUS
  <2> HIDE DEF g
  <2>3. Rest([client EXCEPT !.starts = g])  BY <2>1, StepOfStart DEF Sound
  <2> QED  BY <2>2, <2>3
<1>6. Rest([client EXCEPT !.starts[s].pc = "connect"])
  <2> DEFINE g == [client.starts EXCEPT ![s].pc = "connect"]
  <2>1. Onward(client.starts, g)  BY <1>1, <1>2, OnwardSet
  <2>2. [client EXCEPT !.starts[s].pc = "connect"] = [client EXCEPT !.starts = g]  OBVIOUS
  <2> HIDE DEF g
  <2>3. Rest([client EXCEPT !.starts = g])  BY <2>1, StepOfStart DEF Sound
  <2> QED  BY <2>2, <2>3
<1>7. ASSUME NEW offer \in Offers PROVE Rest(createTransport(client, s, offer, FALSE))
  <2>1. IsSeq(offer)  BY <1>7, ClientConstants DEF IsSeq
  <2> QED  BY <1>1, <2>1, CreateRest
<1>8. CASE Negotiated(s)
  <2>1. \/ client' = StartFails(client, s)
        \/ client' = Resume(client, s, "resolved")
        \/ client' = [client EXCEPT !.starts[s].redirects = client.starts[s].redirects + 1]
        \/ \E offer \in Offers : client' = createTransport(client, s, offer, FALSE)
    BY <1>8 DEF Negotiated
  <2> QED  BY <1>3, <1>4, <1>5, <1>7, <2>1
<1>9. CASE Renegotiated(s)
  BY <1>3, <1>6, <1>9 DEF Renegotiated
<1> QED  BY <1>8, <1>9

LEMMA ConnectRest ==
  ASSUME Sound(client), NEW s \in DOMAIN client.starts, Connect(s)
  PROVE  Rest(client')
<1> DEFINE t == client.starts[s].t
           f(x) == [client.ts EXCEPT ![t].phase = x]
           g == [f("open") EXCEPT ![t].running = (client.ts[t].kind = "LongPolling")]
           o == [client EXCEPT !.ts[t].phase = "open",
                               !.ts[t].running = client.ts[t].kind = "LongPolling"]
           p == [client EXCEPT !.ts[t].phase = "closed"]
           q == [client EXCEPT !.ts[t].phase = "closed", !.conn = "Disconnected"]
<1>1. client.starts[s].pc \in Awaits  BY DEF Connect, Awaits
<1>2. /\ Shape(client) /\ Line(client) /\ Registered(client)
      /\ NoneConnected(client) /\ ~Waits(client) /\ IsSeq(client.starts[s].rest)
  BY <1>1, NobodyWaits DEF Sound, Good, Rest, Line, OneStart
<1>3. \A x : Assigned(client.ts, f(x), t, "phase", x)
  <2>1. Fielded(client.ts)  BY <1>2 DEF Shape, Line, OneTransport, Fielded
  <2> QED  BY <2>1, FieldSet
<1>4. \A u \in DOMAIN client.ts :
         client.ts[u].kind \in Kinds /\ ~client.ts[u].handled /\ ~client.ts[u].running
  BY <1>2 DEF Line, OneTransport, NoneConnected
<1>5. Rest(Connected(o, s))
  <2>1. Fielded(f("open")) /\ Assigned(client.ts, f("open"), t, "phase", "open")
    BY <1>3 DEF Assigned, Fielded
  <2> DEFINE y == client.ts[t].kind = "LongPolling"
  <2>2. /\ Fields \subseteq DOMAIN o /\ o.starts = client.starts /\ o.stops = client.stops
        /\ o.transport = client.transport /\ o.invs = client.invs
        /\ o.callbacks = client.callbacks /\ o.ts = g
    BY <1>2 DEF Shape, Fields
  <2> HIDE DEF f, o
  <2>3. Assigned(f("open"), g, t, "running", y)  BY <2>1, FieldSet
  <2> HIDE DEF g
  <2>8. \A u \in DOMAIN g :
           /\ u \in DOMAIN f("open") /\ g[u].kind = f("open")[u].kind
           /\ g[u].phase = f("open")[u].phase /\ g[u].handled = f("open")[u].handled
           /\ g[u].running = IF u = t THEN y ELSE f("open")[u].running
    BY <2>3 DEF Assigned
  <2>9. \A u \in DOMAIN f("open") :
           /\ u \in DOMAIN client.ts /\ f("open")[u].kind = client.ts[u].kind
           /\ f("open")[u].handled = client.ts[u].handled
           /\ f("open")[u].running = client.ts[u].running
           /\ u = t => f("open")[u].phase = "open"
    BY <2>1 DEF Assigned
  <2>10. \A u \in DOMAIN g : u = t => (g[u].running <=> y)
    <3> HIDE DEF y
    <3> QED  BY <2>8
  <2>4. \A u \in DOMAIN g :
           /\ u \in DOMAIN client.ts
           /\ g[u].kind = client.ts[u].kind /\ (g[u].handled <=> client.ts[u].handled)
           /\ u = t => g[u].phase = "open" /\ (g[u].running <=> y)
           /\ u # t => (g[u].running <=> client.ts[u].running)
    <3> HIDE DEF y
    <3>1. \A u \in DOMAIN g : u # t => g[u].running = client.ts[u].running  BY <2>8, <2>9
    <3> QED  BY <2>8, <2>9, <2>10, <3>1
  <2>5. Fielded(g) /\ DOMAIN g = DOMAIN client.ts  BY <2>1, <2>3 DEF Assigned, Fielded
  <2>6. \A u \in DOMAIN o.ts :
           /\ o.ts[u].kind \in Kinds /\ ~o.ts[u].handled
           /\ o.ts[u].running => o.ts[u].phase = "open" /\ o.ts[u].kind = "LongPolling"
    BY <1>4, <2>2, <2>4
  <2>7. Fielded(o.ts) /\ DOMAIN o.ts = DOMAIN client.ts  BY <2>2, <2>5
  <2> QED  BY <1>1, <2>2, <2>6, <2>7, ConnectedRest
<1>6. Rest(Connected(p, s))
  <2>1. /\ Fields \subseteq DOMAIN p /\ p.starts = client.starts /\ p.stops = client.stops
        /\ p.transport = client.transport /\ p.invs = client.invs
        /\ p.callbacks = client.callbacks /\ p.ts = f("closed")
    BY <1>2 DEF Shape, Fields
  <2> HIDE DEF f, p
  <2>2. Fielded(p.ts) /\ DOMAIN p.ts = DOMAIN client.ts
    BY <1>3, <2>1 DEF Assigned, Fielded
  <2>3. \A u \in DOMAIN p.ts :
           /\ u \in DOMAIN client.ts
           /\ p.ts[u].kind = client.ts[u].kind /\ (p.ts[u].handled <=> client.ts[u].handled)
           /\ p.ts[u].running <=> client.ts[u].running
    BY <1>3, <2>1 DEF Assigned
  <2>4. \A u \in DOMAIN p.ts :
           /\ p.ts[u].kind \in Kinds /\ ~p.ts[u].handled
           /\ p.ts[u].running => p.ts[u].phase = "open" /\ p.ts[u].kind = "LongPolling"
    BY <1>4, <2>3
  <2> QED  BY <1>1, <2>1, <2>2, <2>4, ConnectedRest
<1>7. Rest(createTransport(q, s, client.starts[s].rest, TRUE))
  <2>1. /\ Fields \subseteq DOMAIN q /\ q.starts = client.starts /\ q.stops = client.stops
        /\ q.transport = client.transport /\ q.conn = "Disconnected" /\ q.invs = client.invs
        /\ q.callbacks = client.callbacks /\ q.ts = f("closed")
    BY <1>2 DEF Shape, Fields
  <2>2. Good(q)
    <3>1. Carried(client.ts, f("closed"))  BY CarriedSame, CarriedField DEF Sound
    <3>2. q.posts = client.posts /\ q.timer = client.timer /\ q.armed = client.armed
          /\ q.nextId = client.nextId
      BY <1>2 DEF Shape, Fields
    <3> HIDE DEF f, q
    <3>3. Calm(client, q)  BY <2>1, <3>1, <3>2 DEF Calm
    <3> QED  BY <3>3, CalmGood DEF Sound
  <2> HIDE DEF f, q
  <2>3. Line(q)
    <3>1. Assigned(client.ts, q.ts, t, "phase", "closed")  BY <1>3, <2>1
    <3>2. q.conn \in {client.conn, "Disconnected"}  BY <2>1
    <3> QED  BY <1>2, <1>4, <2>1, <3>1, <3>2, PhaseOnlyLine
  <2>4. Registered(q) /\ ~Waits(q)  BY <1>2, <2>1 DEF Registered, Waits
  <2>5. Sound(q)  BY <2>2, <2>3, <2>4 DEF Sound, Rest
  <2> QED  BY <1>1, <1>2, <2>1, <2>5, CreateRest
<1>8. client' \in {Connected(o, s), Connected(p, s),
                   createTransport(q, s, client.starts[s].rest, TRUE)}
  BY DEF Connect
<1> HIDE DEF o, p, q
<1> QED  BY <1>5, <1>6, <1>7, <1>8

LEMMA StartResumesRest ==
  ASSUME Sound(client), NEW s \in DOMAIN client.starts, StartResumes(s)
  PROVE  Rest(client')
<1> DEFINE r(x) == [client EXCEPT !.starts[s].pc = x]
           g(x) == [client.starts EXCEPT ![s].pc = x]
<1>1. \A x \in {"rejected", "send"} : Sound(r(x))
  <2> TAKE x \in {"rejected", "send"}
  <2>1. OneStart(client) /\ x \notin Awaits  BY DEF Sound, Rest, Line, Awaits
  <2>2. Onward(client.starts, g(x))  BY <2>1, OnwardSet
  <2>3. r(x) = [client EXCEPT !.starts = g(x)]  OBVIOUS
  <2> HIDE DEF g, r
  <2> QED  BY <2>2, <2>3, StepOfStart
<1>2. \A c : Own(c, <<"handshake", s>>)  BY DEF Own
<1>3. client' \in {r("rejected"), SendOrFail(r("send"), <<"handshake", s>>)}
  BY DEF StartResumes
<1> HIDE DEF r
<1> QED  BY <1>1, <1>2, <1>3, SendOrFailRest DEF Sound
LEMMA SeqRemove ==
  ASSUME NEW f, IsSeq(f), NEW k \in DOMAIN f
  PROVE  /\ IsSeq(RemoveAt(f, k))
         /\ \A j \in DOMAIN RemoveAt(f, k) : \E l \in DOMAIN f : RemoveAt(f, k)[j] = f[l]
<1> DEFINE T == {f[l] : l \in DOMAIN f}
           a == SubSeq(f, 1, k - 1)
           b == SubSeq(f, k + 1, Len(f))
<1>1. PICK S : f \in Seq(S)  BY DEF IsSeq
<1>2. Len(f) \in Nat /\ DOMAIN f = 1 .. Len(f) /\ f \in [1 .. Len(f) -> S]  BY <1>1
<1>3. f \in Seq(T)
  <2>1. f \in [1 .. Len(f) -> T]  BY <1>2
  <2> HIDE DEF T
  <2> QED  BY <1>2, <2>1
<1> HIDE DEF T
<1>4. a \in Seq(T) /\ b \in Seq(T)  BY <1>2, <1>3
<1> HIDE DEF a, b
<1>5. a \o b \in Seq(T)  BY <1>4
<1>6. RemoveAt(f, k) \in Seq(T)  BY <1>5 DEF RemoveAt, a, b
<1>7. \A j \in DOMAIN RemoveAt(f, k) : RemoveAt(f, k)[j] \in T  BY <1>6
<1> QED  BY <1>6, <1>7 DEF IsSeq, T

\* Some stops have returned.
LEMMA ReturnedLine ==
  ASSUME NEW c, Line(c), NEW k \in DOMAIN c.stops, NEW d, d.stops = RemoveAt(c.stops, k),
         d.starts = c.starts, d.conn = c.conn, d.transport = c.transport, d.ts = c.ts
  PROVE  Line(d)
<1>1. OneStart(d) /\ OneTransport(d)  BY DEF Line, OneStart, OneTransport, NoneConnected
<1>2. Stops(d)
  <2>1. /\ IsSeq(d.stops)
        /\ \A j \in DOMAIN d.stops : \E l \in DOMAIN c.stops : d.stops[j] = c.stops[l]
    BY SeqRemove DEF Line, Stops
  <2>2. ASSUME NEW p, Stopping(c, p) PROVE Stopping(d, p)
    BY <2>2 DEF Stopping
  <2> QED  BY <2>1, <2>2 DEF Line, Stops
<1> QED  BY <1>1, <1>2 DEF Line

\* Before a stop waits for the DELETE request its start has ended, and the only
\* transport that is handled is the long-polling one it has told to end.
LEMMA StopKnows ==
  ASSUME NEW c, Line(c), NEW k \in DOMAIN c.stops, NEW t \in DOMAIN c.ts, c.transport = t,
         t # 0, c.ts[t].kind = "LongPolling", c.stops[k].pc = "start",
         c.stops[k].of # 0 => c.starts[c.stops[k].of].inner # "pending"
  PROVE  Stopping(c, [c.stops[k] EXCEPT !.pc = "delete"])
<1> DEFINE q == c.stops[k]
           p == [q EXCEPT !.pc = "delete"]
<1>1. StopFields \subseteq DOMAIN q /\ Stopping(c, q)  BY DEF Line, Stops
<1>2. p.pc = "delete" /\ p.of = q.of  BY <1>1 DEF StopFields
<1>3. q.of \in DOMAIN c.starts /\ c.starts[q.of].inner # "pending"
  BY <1>1 DEF Stopping, Line, OneTransport
<1>4. \A s \in DOMAIN c.starts : s = q.of  BY <1>3 DEF Line, OneStart
<1>5. \A s \in DOMAIN c.starts : c.starts[s].pc \notin Awaits
  BY <1>3, <1>4 DEF Line, OneStart
<1>6. \A u \in DOMAIN c.ts : c.ts[u].handled => c.ts[u].kind = "LongPolling"
  BY DEF Line, OneTransport
<1> HIDE DEF p, q
<1>7. Stopping(c, p)  BY <1>2, <1>3, <1>5, <1>6 DEF Stopping
<1> QED  BY <1>7 DEF p, q

LEMMA StopResumesRest ==
  ASSUME Sound(client), NEW k \in DOMAIN client.stops, StopResumes(k)
  PROVE  Rest(client')
<1> DEFINE t == client.transport
           c == [client EXCEPT !.stops = RemoveAt(@, k)]
           f == [client.ts EXCEPT ![t].phase = "closed"]
           g == [f EXCEPT ![t].running = FALSE]
           h == [client.ts EXCEPT ![t].phase = "closing"]
           r == [client.ts EXCEPT ![t].running = FALSE]
           e == [c EXCEPT !.ts[t].phase = "closed", !.ts[t].running = FALSE]
           z(d) == [d EXCEPT !.transport = 0]
           p == [client EXCEPT !.ts[t].running = FALSE, !.stops[k].pc = "delete"]
           q == [c EXCEPT !.ts[t].phase = "closing", !.transport = 0]
<1>1. /\ Shape(client) /\ Line(client) /\ Registered(client)
      /\ Waits(client) => Held(client)
  BY DEF Sound, Good, Rest
<1>2. /\ Fields \subseteq DOMAIN c /\ c.stops = RemoveAt(client.stops, k)
      /\ c.starts = client.starts /\ c.conn = client.conn /\ c.transport = t
      /\ c.ts = client.ts /\ c.invs = client.invs /\ c.callbacks = client.callbacks
      /\ c.posts = client.posts
  BY <1>1 DEF Shape, Fields
<1>3. e.ts = g /\ q.ts = h /\ p.ts = r
  BY <1>1, <1>2 DEF Shape, Fields
<1>4. /\ client.stops[k].pc = "start"
      /\ client.stops[k].of # 0 => client.starts[client.stops[k].of].inner # "pending"
      /\ client' =
           IF t = 0 THEN c
           ELSE IF c.ts[t].kind = "LongPolling" THEN p
           ELSE IF c.ts[t].phase # "open" THEN z(c)
           ELSE IF c.ts[t].kind = "WebSockets" THEN q
           ELSE z(Closed(c, t))
  BY DEF StopResumes
<1>5. Closed(c, t) = IF c.ts[t].handled THEN stopConnection(e) ELSE e  BY DEF Closed
<1>6. /\ Fields \subseteq DOMAIN e /\ e.stops = c.stops /\ e.starts = c.starts
      /\ e.conn = c.conn /\ e.transport = t /\ e.invs = c.invs /\ e.callbacks = c.callbacks
      /\ e.posts = c.posts
  BY <1>2 DEF Fields
<1>7. /\ q.stops = c.stops /\ q.starts = c.starts /\ q.conn = c.conn /\ q.transport = 0
      /\ q.invs = c.invs /\ q.callbacks = c.callbacks
  BY <1>2 DEF Fields
<1>8. /\ p.stops = [client.stops EXCEPT ![k].pc = "delete"] /\ p.starts = client.starts
      /\ p.conn = client.conn /\ p.transport = t /\ p.invs = client.invs
      /\ p.callbacks = client.callbacks
  BY <1>1 DEF Shape, Fields
<1> HIDE DEF c, e, p, q
<1>9. Line(c) /\ Registered(c) /\ IsSeq(c.ts)
  BY <1>1, <1>2, ReturnedLine DEF Registered, Shape
<1>10. Fielded(client.ts)  BY <1>1 DEF Shape, Line, OneTransport, Fielded
<1>11. \A d : Fields \subseteq DOMAIN d =>
          /\ z(d).stops = d.stops /\ z(d).starts = d.starts /\ z(d).conn = d.conn
          /\ z(d).transport = 0 /\ z(d).ts = d.ts /\ z(d).invs = d.invs
          /\ z(d).callbacks = d.callbacks
  BY DEF Fields
<1> HIDE DEF z
<1>12. t # 0 => t \in DOMAIN client.ts  BY <1>1 DEF Line, OneTransport
<1>13. 0 \notin DOMAIN client.ts
  <2>1. PICK S : client.ts \in Seq(S)  BY <1>1 DEF Shape, IsSeq
  <2> QED  BY <2>1
\* Without a transport there is nothing to stop.
<1>14. CASE t = 0
  <2>1. Held(client) => Held(c)  BY <1>2, <1>13, <1>14 DEF Held
  <2>2. Waits(c) => Waits(client)  BY <1>2 DEF Waits
  <2> QED  BY <1>1, <1>4, <1>9, <1>14, <2>1, <2>2 DEF Rest
\* A poll is told to end, and the DELETE request is sent.
<1>15. CASE t # 0 /\ client.ts[t].kind = "LongPolling"
  <2>1. Assigned(client.ts, r, t, "running", FALSE)  BY <1>10, FieldSet
  <2> HIDE DEF r
  <2>2. /\ DOMAIN p.ts = DOMAIN client.ts
        /\ \A u \in DOMAIN p.ts :
              /\ TransportFields \subseteq DOMAIN p.ts[u]
              /\ p.ts[u].kind = client.ts[u].kind /\ p.ts[u].handled = client.ts[u].handled
              /\ p.ts[u].phase = client.ts[u].phase
              /\ p.ts[u].running => client.ts[u].running
    BY <1>3, <2>1 DEF Assigned
  <2>3. OneStart(p)  BY <1>1, <1>8, <2>2 DEF Line, OneStart, NoneConnected
  <2>4. OneTransport(p)  BY <1>1, <1>8, <2>2 DEF Line, OneTransport
  <2>5. Stops(p)
    <3> DEFINE v == [client.stops[k] EXCEPT !.pc = "delete"]
               w == [client.stops EXCEPT ![k] = v]
    <3>1. IsSeq(w) /\ DOMAIN w = DOMAIN client.stops
      BY <1>1, SeqExcept DEF Line, Stops
    <3>2. \A j \in DOMAIN w : w[j] = v \/ w[j] = client.stops[j]  OBVIOUS
    <3>3. StopFields \subseteq DOMAIN v  BY <1>1 DEF Line, Stops
    <3>4. Stopping(client, v)  BY <1>1, <1>4, <1>12, <1>15, StopKnows
    <3>5. p.stops = w  BY <1>8
    <3> HIDE DEF v, w
    <3>6. ASSUME NEW y, Stopping(client, y) PROVE Stopping(p, y)
      BY <1>8, <2>2, <3>6 DEF Stopping
    <3> QED  BY <1>1, <3>1, <3>2, <3>3, <3>4, <3>5, <3>6 DEF Line, Stops
  <2>6. DOMAIN p.stops = DOMAIN client.stops  BY <1>8
  <2>7. Held(client) => Held(p)  BY <1>8, <2>2, <2>6 DEF Held
  <2>8. Registered(p) /\ (Waits(p) => Waits(client))  BY <1>1, <1>8 DEF Registered, Waits
  <2> QED  BY <1>1, <1>2, <1>4, <1>15, <2>3, <2>4, <2>5, <2>7, <2>8 DEF Rest, Line
\* A transport that is not open is left to end.
<1>16. CASE t # 0 /\ client.ts[t].kind # "LongPolling" /\ client.ts[t].phase # "open"
  <2>1. /\ z(c).stops = c.stops /\ z(c).starts = c.starts /\ z(c).conn = c.conn
        /\ z(c).transport = 0 /\ z(c).ts = c.ts /\ z(c).invs = c.invs
        /\ z(c).callbacks = c.callbacks
    BY <1>2, <1>11
  <2>2. SameTransports(c.ts, z(c).ts)  BY <1>9, <2>1, TransportsSame
  <2>3. Line(z(c))  BY <1>9, <2>1, <2>2, GivenUpLine
  <2>4. Held(client) => Held(z(c))  BY <1>2, <1>13, <1>16, <2>1 DEF Held
  <2>5. Registered(z(c)) /\ (Waits(z(c)) => Waits(client))
    BY <1>2, <1>9, <2>1 DEF Registered, Waits
  <2> QED  BY <1>1, <1>2, <1>4, <1>16, <2>3, <2>4, <2>5 DEF Rest
\* A web socket begins its closing handshake.
<1>17. CASE t # 0 /\ client.ts[t].phase = "open" /\ client.ts[t].kind = "WebSockets"
  <2> DEFINE d == [c EXCEPT !.ts = h]
  <2>1. Assigned(client.ts, h, t, "phase", "closing")  BY <1>10, FieldSet
  <2> HIDE DEF h
  <2>2. /\ d.stops = c.stops /\ d.starts = c.starts /\ d.conn = c.conn
        /\ d.transport = c.transport /\ d.ts = h
    BY <1>2 DEF Fields
  <2> HIDE DEF d
  <2>3. ~client.ts[t].running  BY <1>1, <1>12, <1>17 DEF Line, OneTransport
  <2>4. Assigned(c.ts, d.ts, t, "phase", "closing")  BY <1>2, <2>1, <2>2
  <2>5. d.conn \in {c.conn, "Disconnected"}  BY <2>2
  <2>6. t \in DOMAIN c.ts => ~c.ts[t].running  BY <1>2, <2>3
  <2>7. Line(d) /\ Phased(c.ts, d.ts, t, "closing")
    BY <1>9, <2>2, <2>4, <2>5, <2>6, PhaseOnlyLine
  <2>8. SameTransports(d.ts, q.ts)  BY <1>3, <2>2, <2>7, TransportsSame
  <2>9. Line(q)  BY <1>7, <2>2, <2>7, <2>8, GivenUpLine
  <2>10. /\ DOMAIN q.ts = DOMAIN client.ts
         /\ \A u \in DOMAIN q.ts :
               /\ q.ts[u].kind = client.ts[u].kind /\ q.ts[u].handled = client.ts[u].handled
               /\ q.ts[u].phase = IF u = t THEN "closing" ELSE client.ts[u].phase
    BY <1>2, <1>3, <2>2, <2>7 DEF Phased
  <2>11. Held(client) => Held(q)  BY <1>17, <2>10 DEF Held
  <2>12. Registered(q) /\ (Waits(q) => Waits(client))
    BY <1>2, <1>7, <1>9 DEF Registered, Waits
  <2> QED  BY <1>1, <1>2, <1>4, <1>17, <2>9, <2>11, <2>12 DEF Rest
\* Server-sent events are closed at once.
<1>18. CASE t # 0 /\ client.ts[t].phase = "open" /\ client.ts[t].kind = "ServerSentEvents"
  <2>1. Assigned(client.ts, f, t, "phase", "closed")  BY <1>10, FieldSet
  <2> HIDE DEF f
  <2>2. Fielded(f)  BY <2>1 DEF Assigned, Fielded
  <2>3. Assigned(f, g, t, "running", FALSE)  BY <2>2, FieldSet
  <2> HIDE DEF g
  <2>4. Assigned(c.ts, f, t, "phase", "closed") /\ Assigned(f, e.ts, t, "running", FALSE)
    BY <1>2, <1>3, <2>1, <2>3
  <2>5. e.conn \in {c.conn, "Disconnected"} /\ e.transport = c.transport  BY <1>2, <1>6
  <2>6. Line(e) /\ Phased(c.ts, e.ts, t, "closed")
    BY <1>6, <1>9, <2>4, <2>5, PhaseLine
  <2>7. Shape(e) /\ Registered(e)
    BY <1>1, <1>2, <1>6, <1>9, <2>6 DEF Shape, Registered, Phased, TransportFields
  <2>8. client' = z(Closed(c, t))  BY <1>2, <1>4, <1>18
  <2>9. CASE c.ts[t].handled
    <3> DEFINE d == stopConnection(e)
    <3>1. Rest(d) /\ Fields \subseteq DOMAIN d /\ d.transport = 0
      BY <2>6, <2>7, StopConnectionRest
    <3>2. client' = z(d)  BY <1>5, <2>8, <2>9
    <3> HIDE DEF d
    <3>3. SameLine(d, z(d))  BY <1>11, <3>1, TransportsSame DEF SameLine, Rest
    <3> QED  BY <1>11, <3>1, <3>2, <3>3, QuietRest
  <2>10. CASE ~c.ts[t].handled
    <3>1. client' = z(e)  BY <1>5, <2>8, <2>10
    <3>2. /\ z(e).stops = e.stops /\ z(e).starts = e.starts /\ z(e).conn = e.conn
          /\ z(e).transport = 0 /\ z(e).ts = e.ts /\ z(e).invs = e.invs
          /\ z(e).callbacks = e.callbacks
      BY <1>6, <1>11
    <3>3. SameTransports(e.ts, z(e).ts)  BY <2>6, <3>2, TransportsSame
    <3>4. Line(z(e))  BY <2>6, <3>2, <3>3, GivenUpLine
    <3>5. /\ DOMAIN e.ts = DOMAIN client.ts
          /\ \A u \in DOMAIN e.ts :
                /\ e.ts[u].kind = client.ts[u].kind /\ e.ts[u].handled = client.ts[u].handled
                /\ e.ts[u].phase = IF u = t THEN "closed" ELSE client.ts[u].phase
      BY <1>2, <2>6 DEF Phased
    <3>6. Held(client) => Held(z(e))  BY <1>2, <2>10, <3>2, <3>5 DEF Held
    <3>7. Registered(z(e)) /\ (Waits(z(e)) => Waits(client))
      BY <1>2, <1>6, <2>7, <3>2 DEF Registered, Waits
    <3> QED  BY <1>1, <3>1, <3>4, <3>6, <3>7 DEF Rest
  <2> QED  BY <2>9, <2>10
<1>19. t # 0 => client.ts[t].kind \in Kinds  BY <1>1, <1>12 DEF Line, OneTransport
<1> QED  BY <1>14, <1>15, <1>16, <1>17, <1>18, <1>19 DEF Kinds

LEMMA DeletedRest ==
  ASSUME Sound(client), NEW k \in DOMAIN client.stops, Deleted(k)
  PROVE  Rest(client')
<1> DEFINE c == [client EXCEPT !.stops = RemoveAt(@, k)]
           z == [c EXCEPT !.transport = 0]
<1>1. /\ Shape(client) /\ Line(client) /\ Registered(client)
      /\ Waits(client) => Held(client)
  BY DEF Sound, Good, Rest
<1>2. /\ Fields \subseteq DOMAIN c /\ c.stops = RemoveAt(client.stops, k)
      /\ c.starts = client.starts /\ c.conn = client.conn /\ c.transport = client.transport
      /\ c.ts = client.ts /\ c.invs = client.invs /\ c.callbacks = client.callbacks
  BY <1>1 DEF Shape, Fields
<1>3. client' \in {c, z} /\ client.stops[k].pc = "delete"  BY DEF Deleted
<1> HIDE DEF c
<1>4. /\ z.stops = c.stops /\ z.starts = c.starts /\ z.conn = c.conn /\ z.transport = 0
      /\ z.ts = c.ts /\ z.invs = c.invs /\ z.callbacks = c.callbacks
  BY <1>2 DEF Fields
<1> HIDE DEF z
<1>5. Line(c)  BY <1>1, <1>2, ReturnedLine
<1>6. Line(z)
  <2>1. SameTransports(c.ts, z.ts)  BY <1>4, <1>5, TransportsSame
  <2> QED  BY <1>4, <1>5, <2>1, GivenUpLine
<1>7. \A t \in DOMAIN client.ts : client.ts[t].handled => client.ts[t].kind = "LongPolling"
  <2>1. Stopping(client, client.stops[k])  BY <1>1 DEF Line, Stops
  <2> QED  BY <1>3, <2>1 DEF Stopping
<1>8. Held(client) => Held(c) /\ Held(z)
  <2>1. ASSUME NEW t \in DOMAIN client.ts, client.ts[t].handled,
               client.ts[t].phase \in {"open", "closing"}
        PROVE  Held(c) /\ Held(z)
    <3>1. client.ts[t].kind = "LongPolling"  BY <1>7, <2>1
    <3> QED  BY <1>2, <1>4, <2>1, <3>1 DEF Held
  <2> QED  BY <2>1 DEF Held
<1>9. /\ Registered(c) /\ (Waits(c) => Waits(client))
      /\ Registered(z) /\ (Waits(z) => Waits(client))
  BY <1>1, <1>2, <1>4 DEF Registered, Waits
<1> QED  BY <1>1, <1>3, <1>5, <1>6, <1>8, <1>9 DEF Rest

LEMMA StopActionsRest ==
  ASSUME Sound(client), Stop \/ serverTimeout
  PROVE  Rest(client')
<1>1. CASE Stop
  BY <1>1, TimeoutSound, StopRest DEF Stop
<1>2. CASE serverTimeout
  <2> DEFINE d == [client EXCEPT !.armed = @ - 1, !.timer = @ /\ client.armed > 1]
  <2>1. Good(d)  BY <1>2, TimerFires DEF Sound
  <2>2. client' = stop(d)  BY <1>2 DEF serverTimeout
  <2>3. /\ d.conn = client.conn /\ d.transport = client.transport
        /\ d.starts = client.starts /\ d.stops = client.stops
        /\ d.ts = client.ts /\ d.invs = client.invs /\ d.callbacks = client.callbacks
    BY DEF Sound, Good, Shape, Fields
  <2> HIDE DEF d
  <2>4. Rest(d)  BY <2>3, OneFieldRest
  <2> QED  BY <2>1, <2>2, <2>4, StopRest DEF Sound
<1> QED  BY <1>1, <1>2

\* A new call waits only if its message went to a transport that is open.
LEMMA InvokeRest ==
  ASSUME Sound(client), NEW kind, Invoke(kind)
  PROVE  Rest(client')
<1> DEFINE id == client.nextId
           i  == Len(client.invs) + 1
           v  == [kind |-> kind, status |-> "pending"]
           a  == Append(client.invs, v)
           f  == [x \in DOMAIN client.callbacks \cup {id} |->
                     IF x = id THEN i ELSE client.callbacks[x]]
           c  == [client EXCEPT !.nextId = id + 1,
                                !.invs = Append(@, [kind |-> kind, status |-> "pending"]),
                                !.callbacks = [x \in DOMAIN @ \cup {id} |->
                                                  IF x = id THEN i ELSE @[x]]]
           m  == <<"invoke", i, id>>
<1>1. client' \in {Settled(c, {i}, "failed"), SendOrFail(c, m)}
  BY DEF Invoke, createInvocation
<1>2. Good(c) /\ Own(c, m)  BY InvokeGood DEF Sound
<1>3. /\ c.conn = client.conn /\ c.transport = client.transport
      /\ c.starts = client.starts /\ c.stops = client.stops /\ c.ts = client.ts
      /\ c.invs = a /\ c.callbacks = f
  BY DEF Sound, Good, Shape, Fields
<1>4. m[1] = "invoke" /\ m[2] = i  OBVIOUS
<1> HIDE DEF c, m
<1>5. Line(client) /\ Registered(client)  BY DEF Sound, Rest
<1>6. /\ DOMAIN f = DOMAIN client.callbacks \cup {id} /\ f[id] = i
      /\ \A x \in DOMAIN client.callbacks : x # id => f[x] = client.callbacks[x]
  OBVIOUS
<1>7. id \notin DOMAIN client.callbacks
  <2>1. id \in Nat /\ \A x \in DOMAIN client.callbacks : x \in Nat /\ x < id
    BY DEF Sound, Good, Owned
  <2> QED  BY <2>1
<1>8. "status" \in DOMAIN v  OBVIOUS
<1> HIDE DEF f, v
<1>9. /\ IsSeq(a) /\ DOMAIN a = DOMAIN client.invs \cup {i} /\ i \notin DOMAIN client.invs
      /\ a[i] = v /\ \A j \in DOMAIN client.invs : a[j] = client.invs[j]
  <2>1. IsSeq(client.invs)  BY <1>5 DEF Registered
  <2>2. /\ IsSeq(a) /\ Len(client.invs) \in Nat /\ DOMAIN client.invs = 1 .. Len(client.invs)
        /\ DOMAIN a = 1 .. Len(client.invs) + 1
        /\ \A j \in 1 .. Len(client.invs) : a[j] = client.invs[j]
        /\ a[Len(client.invs) + 1] = v
    BY <2>1, SeqAppend
  <2> QED  BY <2>2
<1> HIDE DEF a, i
<1>10. SameLine(client, c)  BY <1>3, <1>5, TransportsSame DEF SameLine
<1>11. Line(c) /\ (Held(client) => Held(c))  BY <1>5, <1>10, LineKept
<1>12. Registered(c)
  <2>1. ASSUME NEW j \in DOMAIN a, a[j].status = "pending"
        PROVE  \E x \in DOMAIN f : f[x] = j
    <3>1. CASE j = i  BY <1>6, <3>1
    <3>2. CASE j \in DOMAIN client.invs
      <4>1. client.invs[j].status = "pending"  BY <1>9, <2>1, <3>2
      <4>2. PICK x \in DOMAIN client.callbacks : client.callbacks[x] = j
        BY <1>5, <3>2, <4>1 DEF Registered
      <4> QED  BY <1>6, <1>7, <4>2
    <3> QED  BY <1>9, <3>1, <3>2
  <2> QED  BY <1>3, <1>5, <1>8, <1>9, <2>1 DEF Registered
<1>13. WaitsBut(c, {i}) => Held(c)
  <2>1. WaitsBut(c, {i}) => Waits(client)  BY <1>3, <1>9 DEF WaitsBut, Waits
  <2> QED  BY <1>11, <2>1 DEF Sound, Rest
<1>14. CASE client' = Settled(c, {i}, "failed")
  <2> DEFINE d == Settled(c, {i}, "failed")
  <2>1. Fade(c, d, {i}) /\ SameLine(c, d) /\ d.callbacks = c.callbacks
    BY <1>2, <1>11, <1>12, SettledFade DEF Good
  <2> HIDE DEF d
  <2>2. Rest(d)  BY <1>11, <1>12, <1>13, <2>1, FadeRest
  <2> QED  BY <1>14, <2>2 DEF d
<1>15. CASE client' = SendOrFail(c, m) /\ ~CanSend(c)
  <2>1. client' = Sent(c, m, FALSE)  BY <1>15 DEF SendOrFail
  <2>2. WaitsBut(c, {m[2]}) => Held(c)  BY <1>4, <1>13
  <2>3. m[1] # "handshake"  BY <1>4
  <2> QED  BY <1>2, <1>11, <1>12, <2>1, <2>2, <2>3, RefusedRest DEF Good
<1>16. CASE client' = SendOrFail(c, m) /\ CanSend(c)
  <2>1. Held(c)  BY <1>11, <1>16, CanSendHeld
  <2>2. Sound(c)  BY <1>2, <1>11, <1>12, <2>1 DEF Sound, Rest
  <2> QED  BY <1>2, <1>16, <2>2, SendOrFailRest
<1> QED  BY <1>1, <1>14, <1>15, <1>16

LEMMA DisposeRest ==
  ASSUME Sound(client), dispose
  PROVE  Rest(client')
<1>1. PICK id \in DOMAIN client.callbacks :
        LET i == client.callbacks[id]
            c == [Settled(client, {i}, "cancelled") EXCEPT
                     !.callbacks = [x \in DOMAIN @ \ {id} |-> @[x]]]
        IN  client' = IF CanSend(c) THEN Send(c, <<"cancel", i, id>>) ELSE c
  BY DEF dispose
<1> DEFINE i == client.callbacks[id]
           e == Settled(client, {i}, "cancelled")
           f == [x \in DOMAIN e.callbacks \ {id} |-> e.callbacks[x]]
           c == [Settled(client, {i}, "cancelled") EXCEPT
                    !.callbacks = [x \in DOMAIN @ \ {id} |-> @[x]]]
<1>2. client' \in {Send(c, <<"cancel", i, id>>), c}  BY <1>1
<1>3. Good(c) /\ Own(c, <<"cancel", i, id>>)  BY DisposeGood DEF Sound
<1>4. Shape(client) /\ Line(client) /\ Registered(client) /\ (WaitsBut(client, {i}) => Held(client))
  BY DEF Sound, Good, Rest, Waits, WaitsBut
<1>5. /\ Fields \subseteq DOMAIN e /\ Fade(client, e, {i}) /\ SameLine(client, e)
      /\ e.callbacks = client.callbacks
  BY <1>4, SettledFade
<1>6. c = [e EXCEPT !.callbacks = f]  OBVIOUS
<1> HIDE DEF e, c
<1>7. /\ c.invs = e.invs /\ c.callbacks = f
      /\ c.conn = e.conn /\ c.transport = e.transport /\ c.starts = e.starts
      /\ c.stops = e.stops /\ c.ts = e.ts
  BY <1>5, <1>6 DEF Fields
<1>8. /\ DOMAIN f \subseteq DOMAIN client.callbacks
      /\ \A x \in DOMAIN client.callbacks :
            IF x \in DOMAIN f THEN f[x] = client.callbacks[x] ELSE client.callbacks[x] \in {i}
  BY <1>5
<1> HIDE DEF f, i
<1>9. SameLine(client, c) /\ Fade(client, c, {i})
  BY <1>5, <1>7 DEF SameLine, SameTransports, Fade
<1>10. Rest(c)  BY <1>4, <1>7, <1>8, <1>9, FadeRest
<1>11. Sound(c)  BY <1>3, <1>10 DEF Sound
<1> QED  BY <1>2, <1>3, <1>11, SendRest DEF Sound

LEMMA PostedRest ==
  ASSUME Sound(client), Posted
  PROVE  Rest(client')
<1> DEFINE p == Head(client.posts)
           c == [client EXCEPT !.posts = Tail(@)]
           f == [c.ts EXCEPT ![p.t].got = @ \cup {p.m}]
           d == [c EXCEPT !.ts[p.t].got = @ \cup {p.m}]
<1>1. client' \in {Sent(d, p.m, TRUE), Sent(d, p.m, FALSE), Sent(c, p.m, FALSE)}
  BY DEF Posted
<1>2. Good(c) /\ Good(d) /\ Own(c, p.m) /\ Own(d, p.m)
  BY PostedGood DEF Sound
<1> HIDE DEF p
<1>3. /\ c.conn = client.conn /\ c.transport = client.transport
      /\ c.starts = client.starts /\ c.stops = client.stops /\ c.ts = client.ts
      /\ c.invs = client.invs /\ c.callbacks = client.callbacks
  BY DEF Sound, Good, Shape, Fields
<1> HIDE DEF c
<1>4. Rest(c)  BY <1>3, OneFieldRest
<1>5. /\ d.conn = c.conn /\ d.transport = c.transport
      /\ d.starts = c.starts /\ d.stops = c.stops /\ d.ts = f
      /\ d.invs = c.invs /\ d.callbacks = c.callbacks
  BY <1>2 DEF Good, Shape, Fields
<1>6. SameTransports(c.ts, f)
  <2>1. DOMAIN f = DOMAIN c.ts  OBVIOUS
  <2>2. ASSUME NEW u \in DOMAIN f
        PROVE  /\ TransportFields \subseteq DOMAIN f[u]
               /\ f[u].kind = c.ts[u].kind /\ f[u].phase = c.ts[u].phase
               /\ f[u].handled = c.ts[u].handled /\ f[u].running = c.ts[u].running
    <3>1. TransportFields \subseteq DOMAIN c.ts[u]  BY <1>4 DEF Rest, Line, OneTransport
    <3> QED  BY <3>1 DEF TransportFields
  <2> QED  BY <2>1, <2>2 DEF SameTransports
<1> HIDE DEF d, f
<1>7. SameLine(c, d)  BY <1>5, <1>6 DEF SameLine
<1>8. Rest(d)  BY <1>4, <1>5, <1>7, QuietRest
<1> QED  BY <1>1, <1>2, <1>4, <1>8, SentRest DEF Sound

LEMMA ReceiveRest ==
  ASSUME Sound(client), NEW t \in DOMAIN client.ts, Receive(t)
  PROVE  Rest(client')
<1> DEFINE c == [client EXCEPT !.ts[t].hs = TRUE]
           g == [client.ts EXCEPT ![t].hs = TRUE]
           r(chunk) == processIncomingData(c, chunk)
<1>1. PICK chunk : client' = Received(c, t, r(chunk))
  BY DEF Receive
<1>2. c.ts = g  BY DEF Sound, Good, Shape, Fields
<1>3. Good(c)
  <2>1. Carried(client.ts, g)  BY CarriedSame, CarriedField DEF Sound
  <2> HIDE DEF g
  <2>2. Calm(client, c)  BY <1>2, <2>1 DEF Calm, Sound, Good, Shape, Fields
  <2> QED  BY <2>2, CalmGood DEF Sound
<1>4. /\ c.conn = client.conn /\ c.transport = client.transport
      /\ c.starts = client.starts /\ c.stops = client.stops
      /\ c.invs = client.invs /\ c.callbacks = client.callbacks
  BY DEF Sound, Good, Shape, Fields
<1>5. SameTransports(client.ts, g)
  <2>1. DOMAIN g = DOMAIN client.ts  OBVIOUS
  <2>2. ASSUME NEW u \in DOMAIN g
        PROVE  /\ TransportFields \subseteq DOMAIN g[u]
               /\ g[u].kind = client.ts[u].kind /\ g[u].phase = client.ts[u].phase
               /\ g[u].handled = client.ts[u].handled /\ g[u].running = client.ts[u].running
    <3>1. TransportFields \subseteq DOMAIN client.ts[u]
      BY DEF Sound, Rest, Line, OneTransport
    <3> QED  BY <3>1 DEF TransportFields
  <2> QED  BY <2>1, <2>2 DEF SameTransports
<1> HIDE DEF c, g
<1>6. SameLine(client, c)  BY <1>2, <1>4, <1>5 DEF SameLine
<1>7. Sound(c)  BY <1>3, <1>4, <1>6, QuietRest DEF Sound
<1>8. Sound(r(chunk).c)  BY <1>7, IncomingGood, IncomingRest DEF Sound
<1> HIDE DEF r
<1>9. Received(c, t, r(chunk)) \in
        {r(chunk).c, stopConnection(r(chunk).c), Closed(r(chunk).c, t)}
  BY DEF Received
<1> QED  BY <1>1, <1>8, <1>9, StopConnectionRest, ClosedRest DEF Sound, Good, Rest

LEMMA SoundStep ==
  ASSUME MaxStarts <= 1, Sound(client), AnsweredOwn, [Next]_vars
  PROVE  Sound(client') /\ AnsweredOwn'
<1>1. Good(client') /\ AnsweredOwn'  BY NextStep DEF Sound
<1>2. CASE UNCHANGED vars
  <2>1. client' = client  BY <1>2 DEF vars
  <2>2. Rest(client)  BY DEF Sound
  <2> QED  BY <1>1, <2>1, <2>2 DEF Sound
<1>3. ASSUME NEW t \in DOMAIN client.ts, TransportCloses(t) PROVE Rest(client')
  BY <1>3, ClosedRest DEF TransportCloses
<1>4. ASSUME Next PROVE Rest(client')
  <2>1. CASE Starting
    BY <2>1, NegotiatedRest, ConnectRest DEF Starting
  <2>2. CASE Resuming
    BY <2>2, StartResumesRest, StopResumesRest DEF Resuming
  <2>3. CASE Deleting
    BY <2>3, DeletedRest DEF Deleting
  <2>4. CASE Program
    BY <2>4, OnceStart, StopActionsRest, InvokeRest, DisposeRest DEF Program
  <2>5. CASE Network
    BY <2>5, <1>3, ReceiveRest DEF Network
  <2>6. CASE Posted
    BY <2>6, PostedRest
  <2>7. CASE serverTimeout
    BY <2>7, StopActionsRest
  <2> QED
    BY <1>4, <2>1, <2>2, <2>3, <2>4, <2>5, <2>6, <2>7 DEF Next
<1> QED  BY <1>1, <1>2, <1>4 DEF Sound

LEMMA InitSound ==
  ASSUME Init
  PROVE  Sound(client) /\ AnsweredOwn
<1>1. Good(client) /\ AnsweredOwn  BY InitGood
<1>2. /\ client.conn = "Disconnected" /\ client.transport = 0
      /\ client.starts = <<>> /\ client.stops = <<>> /\ client.ts = <<>>
      /\ client.invs = <<>> /\ client.callbacks = <<>>
  BY DEF Init
<1>3. <<>> \in Seq({}) /\ DOMAIN (<<>>) = {}  OBVIOUS
<1>4. IsSeq(<<>>)  BY <1>3 DEF IsSeq
<1>5. Line(client)  BY <1>2, <1>3, <1>4 DEF Line, OneStart, OneTransport, Stops
<1>6. Registered(client) /\ ~Waits(client)  BY <1>2, <1>3, <1>4 DEF Registered, Waits
<1> QED  BY <1>1, <1>5, <1>6 DEF Sound, Rest

\* SettledWhenDead: a client that is started once leaves no call waiting when its
\* connection is over, whichever transports are offered, tried and closed, however
\* many calls and stops there are, and whatever is lost.
THEOREM SettledWhenDeadHolds ==
  ASSUME MaxStarts <= 1
  PROVE  Spec => []SettledWhenDead
<1>1. Init => Sound(client) /\ AnsweredOwn  BY InitSound
<1>2. Sound(client) /\ AnsweredOwn /\ [Next]_vars => (Sound(client) /\ AnsweredOwn)'
  BY SoundStep
<1>3. Sound(client) => SettledWhenDead
  <2> SUFFICES ASSUME Sound(client), Dead PROVE ~Waits(client)
    BY DEF SettledWhenDead, Waits
  <2>1. DOMAIN client.stops = {}  BY DEF Dead
  <2>2. ~Held(client)  BY <2>1 DEF Dead, Held
  <2> QED  BY <2>2 DEF Sound, Rest
<1> QED  BY <1>1, <1>2, <1>3, PTL DEF Spec
==============================================================================
