------------------------ MODULE Es6PromiseInvariants ------------------------
(***************************************************************************)
(* The inductive invariants of Es6Promise, and the relations between the   *)
(* heap before and after a call of the library that they are proved with.  *)
(*                                                                         *)
(* PInv follows the callbacks of the program: each waits where `publish'   *)
(* or `flush' will come to it, in the order of registration.  CInv follows *)
(* the promises of `all' and `finally': who may still settle each of them, *)
(* and with what.                                                          *)
(***************************************************************************)
EXTENDS Es6Promise

-----------------------------------------------------------------------------
(* Heaps                                                                   *)

\* A heap with a state and a result for every promise.
Shape(h) ==
    /\ {"state", "result"} \subseteq DOMAIN h
    /\ h.state = [p \in Promises |-> h.state[p]]
    /\ h.result = [p \in Promises |-> h.result[p]]

\* From the heap h to g, what is settled stays.
Kept(h, g) ==
    /\ Shape(g)
    /\ \A p \in Promises : h.state[p] # PENDING =>
          g.state[p] = h.state[p] /\ g.result[p] = h.result[p]

-----------------------------------------------------------------------------
(* What a heap of the library looks like                                   *)

IsSeq(f) == \E S : f \in Seq(S)

HeapFields == {"made", "deferred", "state", "result", "subscribers", "queue", "scheduled",
               "foreign", "enums"}

\* A callback of the program, as opposed to one of the library's own.
Mine(cb) == cb.k \in {"user", "finally"}

CallbackOK(h, cb) ==
    /\ cb.k \in {"none", "user", "finally", "return", "throw", "resolve", "reject", "settledAt"}
    /\ cb.k = "none" => cb = NoCallback
    /\ cb.k = "finally" => cb.then \in {"return", "throw"}
    /\ cb.k \in {"resolve", "reject"} => cb.promise \in Promises
    /\ cb.k = "settledAt" => cb.enum \in DOMAIN h.enums

Silent(cb) == cb.k \in {"resolve", "reject", "settledAt"}

SubscriberOK(h, s) ==
    /\ CallbackOK(h, s.ok) /\ CallbackOK(h, s.err)
    /\ s.child \in Promises \/ (s.child = NoChild /\ Silent(s.ok) /\ Silent(s.err))

JobOK(h, j) ==
    /\ j.k \in {"publish", "invoke", "foreign"}
    /\ j.k = "publish" => j = Publish(j.promise) /\ j.promise \in Promises /\ h.state[j.promise] # PENDING
    /\ j.k = "invoke"  => j.child \in Promises /\ CallbackOK(h, j.callback)
    /\ j.k = "foreign" => j.promise \in Promises

\* What stands for a promise: foreign thenables that were asked, enumerators.
Stands(f) == IsSeq(f) /\ \A x \in DOMAIN f : "promise" \in DOMAIN f[x] /\ f[x].promise \in Promises

Subscribers(h) ==
    /\ h.subscribers = [p \in Promises |-> h.subscribers[p]]
    /\ \A p \in Promises : /\ IsSeq(h.subscribers[p])
                          /\ \A k \in DOMAIN h.subscribers[p] : SubscriberOK(h, h.subscribers[p][k])

Jobs(h) == IsSeq(h.queue) /\ \A q \in DOMAIN h.queue : JobOK(h, h.queue[q])

Made(h) == h.made \subseteq Promises /\ IsFiniteSet(h.made) /\ h.deferred \subseteq h.made

Typed(h) ==
    /\ HeapFields \subseteq DOMAIN h /\ Shape(h) /\ h.scheduled \in BOOLEAN
    /\ \A p \in Promises : h.state[p] \in {PENDING, FULFILLED, REJECTED}
    /\ Made(h) /\ Subscribers(h) /\ Jobs(h) /\ Stands(h.foreign) /\ Stands(h.enums)

-----------------------------------------------------------------------------
(* What one call of the library does to the heap: nothing of the program's *)
(* is added, and whoever settles a promise with subscribers publishes it.  *)

Extends(f, g) == DOMAIN f \subseteq DOMAIN g /\ \A k \in DOMAIN f : g[k] = f[k]

NewSubscribers(h, g) ==
    \A p \in Promises :
       /\ Extends(h.subscribers[p], g.subscribers[p])
       /\ \A k \in DOMAIN g.subscribers[p] \ DOMAIN h.subscribers[p] :
             ~Mine(g.subscribers[p][k].ok) /\ ~Mine(g.subscribers[p][k].err)

NewJobs(h, g) ==
    /\ Extends(h.queue, g.queue)
    /\ \A q \in DOMAIN g.queue \ DOMAIN h.queue :
          g.queue[q].k = "invoke" => ~Mine(g.queue[q].callback)
    /\ h.scheduled => g.scheduled
    /\ DOMAIN g.queue = {} \/ DOMAIN h.queue # {} \/ g.scheduled

\* The promises that are settled and still have subscribers.
Full(h) == {p \in Promises : h.state[p] # PENDING /\ DOMAIN h.subscribers[p] # {}}

Publishes(h, g) ==
    \A p \in Full(g) \ Full(h) :
       \E q \in DOMAIN g.queue \ DOMAIN h.queue : g.queue[q] = Publish(p)

Calm(h, g) ==
    /\ Typed(g) /\ Kept(h, g) /\ NewSubscribers(h, g) /\ NewJobs(h, g) /\ Publishes(h, g)
    /\ h.made \subseteq g.made /\ DOMAIN h.enums \subseteq DOMAIN g.enums

\* Nothing subscribes to a promise that is settled.
Steady(h, g) == \A p \in Promises : h.state[p] # PENDING => g.subscribers[p] = h.subscribers[p]

\* n promises at most are made, and no deferred.
Makes(h, g, n) == g.deferred = h.deferred /\ Cardinality(g.made) <= Cardinality(h.made) + n

Quietly(h, g, n) == Calm(h, g) /\ Steady(h, g) /\ Makes(h, g, n)

\* There are promises enough for n more.
Room(h, n) == IsFiniteSet(Promises) => Cardinality(h.made) + n <= Cardinality(Promises)

OthersSame(h, g) ==
    /\ HeapFields \subseteq DOMAIN g
    /\ g.made = h.made /\ g.deferred = h.deferred
    /\ g.foreign = h.foreign /\ g.enums = h.enums

QueueSame(h, g) == g.queue = h.queue /\ g.scheduled = h.scheduled

Queued(h, g, job) ==
    /\ g.queue = Append(h.queue, job)
    /\ g.scheduled \in BOOLEAN /\ (h.scheduled => g.scheduled)
    /\ DOMAIN h.queue = {} => g.scheduled

\* A subscriber is added; a settled promise that had none is published.
Subscribed(h, g, p, s) ==
    /\ OthersSame(h, g) /\ g.state = h.state /\ g.result = h.result
    /\ g.subscribers = [h.subscribers EXCEPT ![p] = Append(h.subscribers[p], s)]
    /\ \/ QueueSame(h, g) /\ (h.state[p] = PENDING \/ DOMAIN h.subscribers[p] # {})
       \/ Queued(h, g, Publish(p)) /\ h.state[p] # PENDING

\* The deferred a callback of the program settles, if any.
Settles(o) == o.d \in Promises \/ o.d = NoChild

-----------------------------------------------------------------------------
(* Where the reactions are.  A reaction (a call of `then' or `finally') is *)
(* a subscriber of its parent, a job of the queue or has been called, and  *)
(* it is so in the order of the reactions: what was called is before what  *)
(* waits in the parent's list, and that before what waits in the queue.    *)
(*                                                                         *)
(* a is the index of the job that is running, t the turn of publish, R the *)
(* reactions and C the calls.                                              *)

Flow(h, a, t) ==
    /\ a \in Nat /\ a <= Len(h.queue) + 1 /\ t \in Nat \ {0}
    /\ t > 1 => /\ a \in DOMAIN h.queue /\ h.queue[a].k = "publish"
                /\ t <= Len(h.subscribers[h.queue[a].promise]) + 1
    /\ DOMAIN h.queue # {} => a > 0 \/ h.scheduled

\* Who is settled and has subscribers is going to publish.
Published(h, a) ==
    \A p \in Full(h) : \E q \in DOMAIN h.queue : a <= q /\ h.queue[q] = Publish(p)

\* Each reaction has a child of its own.
Reacted(h, R) ==
    /\ IsSeq(R)
    /\ \A n \in DOMAIN R :
          /\ R[n].parent \in Promises /\ R[n].child \in h.made
          /\ Mine(R[n].ok) \/ R[n].ok = NoCallback
          /\ Mine(R[n].err) \/ R[n].err = NoCallback
          /\ Mine(R[n].ok) \/ Mine(R[n].err)
          /\ R[n].ok.k = "finally" <=> R[n].err.k = "finally"
    /\ \A m, n \in DOMAIN R : R[m].child = R[n].child => m = n

\* The k-th subscriber of p is the reaction r, and the turns before t are over.
OfSub(h, p, k, r) ==
    /\ k \in DOMAIN h.subscribers[p]
    /\ r.parent = p /\ h.subscribers[p][k] = [child |-> r.child, ok |-> r.ok, err |-> r.err]

Served(h, a, t, p, k) == k < t /\ h.queue[a] = Publish(p)

\* The q-th job is the reaction r, whose parent is settled.
CalledFor(h, r) == IF h.state[r.parent] = FULFILLED THEN r.ok ELSE r.err

Awaits(h, a, q) ==
    q \in DOMAIN h.queue /\ a <= q /\ h.queue[q].k = "invoke" /\ Mine(h.queue[q].callback)

OfJob(h, a, q, r) ==
    /\ Awaits(h, a, q)
    /\ h.state[r.parent] # PENDING /\ h.queue[q].child = r.child
    /\ h.queue[q].callback = CalledFor(h, r) /\ h.queue[q].detail = h.result[r.parent]

\* Whatever will call the program back is a reaction.
Known(h, a, R) ==
    /\ \A p \in Promises : \A k \in DOMAIN h.subscribers[p] :
          Mine(h.subscribers[p][k].ok) \/ Mine(h.subscribers[p][k].err)
             => \E n \in DOMAIN R : OfSub(h, p, k, R[n])
    /\ \A q : Awaits(h, a, q) => \E n \in DOMAIN R : OfJob(h, a, q, R[n])

SubsOrdered(h, R) ==
    \A p \in Promises : \A k, l : \A m, n \in DOMAIN R :
       OfSub(h, p, k, R[m]) /\ OfSub(h, p, l, R[n]) /\ k < l => m < n

JobsOrdered(h, a, R) ==
    \A q, r : \A m, n \in DOMAIN R :
       OfJob(h, a, q, R[m]) /\ OfJob(h, a, r, R[n]) /\ q < r /\ R[m].parent = R[n].parent => m < n

\* Subscribers are published before the jobs that were queued since.
SubsFirst(h, a, R) ==
    \A p \in Promises : \A k, q : \A m, n \in DOMAIN R :
       OfSub(h, p, k, R[m]) /\ OfJob(h, a, q, R[n]) /\ R[n].parent = p
          => m < n /\ \E b \in DOMAIN h.queue : a <= b /\ b < q /\ h.queue[b] = Publish(p)

\* What was called was called in order, with what the parent is settled with.
CallsRight(h, R, C) ==
    /\ IsSeq(C)
    /\ \A i \in DOMAIN C : C[i].child \in h.made
    /\ \A i \in DOMAIN C : \A m \in DOMAIN R : C[i].child = R[m].child =>
          h.state[R[m].parent] # PENDING /\ C[i].detail = h.result[R[m].parent]
    /\ \A i, j \in DOMAIN C : \A m, n \in DOMAIN R :
          C[i].child = R[m].child /\ C[j].child = R[n].child /\ R[m].parent = R[n].parent /\ i < j
             => m < n

\* What was called is before all that waits.
CallsFirst(h, a, t, R, C) ==
    \A i \in DOMAIN C : \A m, n \in DOMAIN R :
       C[i].child = R[m].child /\ R[m].parent = R[n].parent
       => /\ \A k : OfSub(h, R[n].parent, k, R[n]) /\ ~Served(h, a, t, R[n].parent, k) => m < n
          /\ \A q : OfJob(h, a, q, R[n]) => m < n

\* No reaction is lost.
IsDue(h, a, t, r, C) ==
    \/ \E i \in DOMAIN C : C[i].child = r.child
    \/ \E k : OfSub(h, r.parent, k, r) /\ ~Served(h, a, t, r.parent, k)
    \/ \E q : OfJob(h, a, q, r)
    \/ h.state[r.parent] # PENDING /\ CalledFor(h, r) = NoCallback

Due(h, a, t, R, C) == \A n \in DOMAIN R : IsDue(h, a, t, R[n], C)

World(h, a, t, R, C) ==
    /\ Typed(h) /\ Flow(h, a, t) /\ Published(h, a) /\ Reacted(h, R) /\ Known(h, a, R)
    /\ SubsOrdered(h, R) /\ JobsOrdered(h, a, R) /\ SubsFirst(h, a, R)
    /\ CallsRight(h, R, C) /\ CallsFirst(h, a, t, R, C) /\ Due(h, a, t, R, C)

\* publish has not passed the end of the list it runs over.
TurnOK(h, a, t) == t > 1 => t \in DOMAIN h.subscribers[h.queue[a].promise]

\* The two callbacks of `then', `catch' or `finally'.
Callbacks(ok, err) ==
    /\ Mine(ok) \/ ok = NoCallback
    /\ Mine(err) \/ err = NoCallback
    /\ Mine(ok) \/ Mine(err)
    /\ ok.k = "finally" <=> err.k = "finally"

-----------------------------------------------------------------------------
(* There are promises enough.  A call of the program makes one promise,    *)
(* and lets at most three more be made later: two by the callback of       *)
(* `finally', or those of the loop of `all' or `race'.                     *)

\* The calls of `finally' whose callback has not been called.
Waiting(R, C) ==
    {n \in DOMAIN R : R[n].ok.k = "finally" /\ \A i \in DOMAIN C : C[i].child # R[n].child}

\* What the loop may still make.
Needs(l) ==
    IF l.k = "all" THEN 3 - l.i
    ELSE IF l.k = "race" THEN IF l.i = 3 THEN 0 ELSE 4 - l.i
    ELSE 0

\* The loops run outside a flush and have two entries, the first a promise.
LoopOK(h, a, l) ==
    \/ l = Idle
    \/ /\ a = 0
       /\ l = [k |-> l.k, e |-> l.e, entries |-> l.entries, i |-> l.i]
       /\ l.i \in 1 .. 3 /\ Len(l.entries) = 2 /\ l.entries[1] \in Promises
       /\ \/ l.k = "all" /\ l.e \in DOMAIN h.enums
          \/ l.k = "race" /\ l.e \in Promises

Budget(h, R, C, l, s) ==
    /\ Cardinality(h.made) + 2 * Cardinality(Waiting(R, C)) + Needs(l)
          <= Cardinality(h.deferred) + 4 * s
    /\ s \in Nat /\ s <= MaxSteps
    /\ Cardinality(h.deferred) <= MaxDeferred

-----------------------------------------------------------------------------
(* The invariant of the callbacks                                          *)

Stand(h, a, t, l, s, R, C) ==
    World(h, a, t, R, C) /\ TurnOK(h, a, t) /\ LoopOK(h, a, l) /\ Budget(h, R, C, l, s)

\* The callbacks that are left, the promises that are left, and where the loops are.
PInv == Stand(heap, at, turn, loop, steps, reactions, calls)

-----------------------------------------------------------------------------
(* The hands.  A hand of a promise is a subscriber or a job that may       *)
(* settle it.  What a call of the library settles is one of the promises   *)
(* it was given, and it gives a new hand to those and to new promises      *)
(* only: all the others are spared.                                        *)

\* No promise, and no object whose `then' cannot be read.
Flat(v) == v \notin Promises \cup BadThens

\* The arrays that `all' makes are not promises.
ArraysApart == \A f : IsSeq(f) => Flat(f)

Names(cb, x) == cb.k \in {"resolve", "reject"} /\ cb.promise = x

SubHand(s, x) == s.child = x \/ Names(s.ok, x) \/ Names(s.err, x)

JobHand(j, x) == \/ j.k = "invoke" /\ (j.child = x \/ Names(j.callback, x))
                 \/ j.k = "foreign" /\ j.promise = x

\* What reports to the i-th place of the enumerator e.
Collects(cb) == cb.k = "settledAt"

Collect(e, i) ==
    [child |-> NoChild, ok  |-> [k |-> "settledAt", enum |-> e, state |-> FULFILLED, i |-> i],
                        err |-> [k |-> "settledAt", enum |-> e, state |-> REJECTED, i |-> i]]

SaneSub(h, s) ==
    /\ \A x \in Promises : SubHand(s, x) => x \in h.made
    /\ Collects(s.ok) \/ Collects(s.err) =>
          \E e \in DOMAIN h.enums : \E i \in {1, 2} : s = Collect(e, i)

SaneJob(h, j) ==
    /\ \A x \in Promises : JobHand(j, x) => x \in h.made
    /\ j.k = "invoke" => ~Collects(j.callback) /\ (j.settled = FULFILLED => Flat(j.detail))
    /\ j.k = "foreign" => Flat(j.thenable)

SaneForeign(h, f) == f.promise \in h.made /\ Flat(f.thenable)

SaneEnum(h, e) ==
    /\ e = [promise |-> e.promise, remaining |-> e.remaining, result |-> e.result]
    /\ e.promise \in h.made /\ IsSeq(e.result)

Sane(h) ==
    /\ \A p \in Promises : h.state[p] = FULFILLED => Flat(h.result[p])
    /\ \A p \in Promises : h.state[p] # PENDING => p \in h.made
    /\ \A p \in Promises : \A k \in DOMAIN h.subscribers[p] : SaneSub(h, h.subscribers[p][k])
    /\ \A q \in DOMAIN h.queue : SaneJob(h, h.queue[q])
    /\ \A f \in DOMAIN h.foreign : SaneForeign(h, h.foreign[f])
    /\ \A e \in DOMAIN h.enums : SaneEnum(h, h.enums[e])

Grows(h, g) ==
    /\ Typed(g) /\ Kept(h, g) /\ Sane(g) /\ h.made \subseteq g.made
    /\ \A p \in Promises : Extends(h.subscribers[p], g.subscribers[p])
    /\ Extends(h.queue, g.queue)
    /\ \A e \in DOMAIN h.enums : e \in DOMAIN g.enums /\ g.enums[e].promise = h.enums[e].promise

\* From h to g nobody settles x, and x has no new hand.
Spared(h, g, x) ==
    /\ g.state[x] = h.state[x] /\ g.result[x] = h.result[x]
    /\ \A p \in Promises : \A k \in DOMAIN g.subscribers[p] \ DOMAIN h.subscribers[p] :
          /\ ~SubHand(g.subscribers[p][k], x)
          /\ \A e \in DOMAIN g.enums : \A i : g.enums[e].promise = x => g.subscribers[p][k] # Collect(e, i)
    /\ \A q \in DOMAIN g.queue \ DOMAIN h.queue : ~JobHand(g.queue[q], x)
    /\ x \in g.deferred => x \in h.deferred
    /\ \A f \in DOMAIN g.foreign : g.foreign[f].promise = x =>
          \E d \in DOMAIN h.foreign : h.foreign[d].promise = x
    /\ \A e \in DOMAIN g.enums : g.enums[e].promise = x =>
          e \in DOMAIN h.enums /\ g.enums[e] = h.enums[e]

Spares(h, g, D) == Grows(h, g) /\ \A x \in h.made : x \in D \/ Spared(h, g, x)

\* How a promise is settled.
Settled(h, g, p, s, v) ==
    /\ OthersSame(h, g) /\ g.subscribers = h.subscribers
    /\ g.state = [h.state EXCEPT ![p] = s] /\ g.result = [h.result EXCEPT ![p] = v]
    /\ Queued(h, g, Publish(p)) \/ (QueueSame(h, g) /\ DOMAIN h.subscribers[p] = {})

\* x follows p.
Link(x) == [child |-> NoChild, ok  |-> [k |-> "resolve", promise |-> x],
                               err |-> [k |-> "reject", promise |-> x]]

-----------------------------------------------------------------------------
(* Enumerators, and the callbacks that settle                              *)

\* The enumerator e with so many entries left and these values.
Filled(h, e, left, values) ==
    [h EXCEPT !.enums[e] = [promise |-> h.enums[e].promise, remaining |-> left, result |-> values]]

\* g is h with that enumerator.
FilledBy(h, g, e, left, values) ==
    /\ Typed(g) /\ Sane(g) /\ Calm(h, g) /\ Spares(h, g, {h.enums[e].promise})
    /\ g.state = h.state /\ g.result = h.result /\ g.made = h.made
    /\ g.subscribers = h.subscribers /\ QueueSame(h, g) /\ g.deferred = h.deferred
    /\ g.foreign = h.foreign /\ DOMAIN g.enums = DOMAIN h.enums
    /\ g.enums[e].promise = h.enums[e].promise
    /\ g.enums[e].remaining = left /\ g.enums[e].result = values
    /\ \A d \in DOMAIN h.enums : d # e => g.enums[d] = h.enums[d]

Placed(values, i, v) == [values EXCEPT ![i] = v]

\* A promise of the entry, with the enumerator's hand on it.
Watched(h, e, entry, i) ==
    willSettleAt(handleMaybeThenable(makePromise(h), NewPromise(h), entry), NewPromise(h), e, i)

\* What a call of `all' leaves to its loop.
Counter(h, entries) == [promise |-> NewPromise(h), remaining |-> Len(entries),
                        result |-> [i \in DOMAIN entries |-> Undefined]]

\* The callback cb, with the outcome o, settles promises of D at most.
Within(h, cb, o, D) ==
    /\ \A x \in Promises : Names(cb, x) => x \in h.made /\ x \in D
    /\ Collects(cb) => h.enums[cb.enum].promise \in D
    /\ Mine(cb) => o.d = NoChild \/ (o.d \in h.made /\ o.d \in D)

\* The foreign object f seals what it was given.
Sealed(h, f) == [h EXCEPT !.foreign[f].sealed = TRUE]

\* A foreign object is asked.
Asked(h, p, v) ==
    [h EXCEPT !.foreign = Append(@, [promise |-> p, thenable |-> v, sealed |-> FALSE])]

-----------------------------------------------------------------------------
(* The hands that wait.  h is the heap, a the index of the job that is     *)
(* running, t the turn of publish, l the loop; g, b, u and m are the same  *)
(* after a step.                                                           *)

Unserved(h, a, t, p, k) == k \in DOMAIN h.subscribers[p] /\ ~Served(h, a, t, p, k)

Unrun(h, a, q) == q \in DOMAIN h.queue /\ a <= q

\* The program, a foreign object or a race may settle x.
Elsewhere(h, l, x) == \/ x \in h.deferred
                      \/ \E f \in DOMAIN h.foreign : h.foreign[f].promise = x
                      \/ l.k = "race" /\ l.e = x

\* The step neither settles x nor gives it a hand.
Frame(h, a, t, l, g, b, u, m, x) ==
    /\ g.state[x] = h.state[x] /\ g.result[x] = h.result[x]
    /\ \A p \in Promises : \A k : Unserved(g, b, u, p, k) =>
          \/ Unserved(h, a, t, p, k) /\ h.subscribers[p][k] = g.subscribers[p][k]
          \/ /\ ~SubHand(g.subscribers[p][k], x)
             /\ \A e \in DOMAIN g.enums : \A i : g.enums[e].promise = x => g.subscribers[p][k] # Collect(e, i)
    /\ \A q : Unrun(g, b, q) =>
          \/ Unrun(h, a, q) /\ h.queue[q] = g.queue[q]
          \/ ~JobHand(g.queue[q], x)
    /\ Elsewhere(g, m, x) => Elsewhere(h, l, x)
    /\ \A e \in DOMAIN g.enums : g.enums[e].promise = x =>
          e \in DOMAIN h.enums /\ g.enums[e] = h.enums[e]

\* The subscribers that wait still do, but for those of U, pairs of a promise and a place.
Keeps(h, a, t, g, b, u, U) ==
    \A p \in Promises : \A k : Unserved(h, a, t, p, k) =>
       <<p, k>> \in U \/ (Unserved(g, b, u, p, k) /\ g.subscribers[p][k] = h.subscribers[p][k])

Moves(h, a, t, l, g, b, u, m, D, U) ==
    /\ Typed(g) /\ Sane(g) /\ Kept(h, g) /\ h.made \subseteq g.made
    /\ \A e \in DOMAIN h.enums : e \in DOMAIN g.enums /\ g.enums[e].promise = h.enums[e].promise
    /\ \A x \in h.made : x \in D \/ Frame(h, a, t, l, g, b, u, m, x)
    /\ Keeps(h, a, t, g, b, u, U)

\* From h to g hands are let go of, and nothing else.
Later(h, a, t, l, g, b, u, m) ==
    /\ g.state = h.state /\ g.result = h.result /\ g.made = h.made /\ g.deferred = h.deferred
    /\ g.foreign = h.foreign /\ g.enums = h.enums
    /\ \A p \in Promises : \A k \in DOMAIN g.subscribers[p] :
          k \in DOMAIN h.subscribers[p] /\ g.subscribers[p][k] = h.subscribers[p][k]
    /\ \A q \in DOMAIN g.queue : q \in DOMAIN h.queue /\ g.queue[q] = h.queue[q]
    /\ \A p \in Promises : \A k : Unserved(g, b, u, p, k) => Unserved(h, a, t, p, k)
    /\ \A q : Unrun(g, b, q) => Unrun(h, a, q)
    /\ m.k = "race" => (l.k = "race" /\ m.e = l.e) \/ m.e \notin h.made

-----------------------------------------------------------------------------
(* finally: its promise waits for the callback, then for the repetition of *)
(* the parent's outcome, and nobody else settles either.                   *)

Alone(h, l, x) ==
    /\ x \in h.made /\ ~Elsewhere(h, l, x)
    /\ \A e \in DOMAIN h.enums : h.enums[e].promise # x

\* x waits for p to settle, if for anything.
OnlyLink(h, a, t, l, x, p) ==
    /\ h.state[x] = PENDING /\ Alone(h, l, x)
    /\ \A q : Unrun(h, a, q) => ~JobHand(h.queue[q], x)
    /\ \A y \in Promises : \A k : Unserved(h, a, t, y, k) /\ SubHand(h.subscribers[y][k], x) =>
          y = p /\ h.subscribers[y][k] = Link(x)

\* The promise of the reaction r waits for its callback.
OwnHand(h, a, t, l, r) ==
    /\ h.state[r.child] = PENDING /\ Alone(h, l, r.child)
    /\ \A q : Unrun(h, a, q) /\ JobHand(h.queue[q], r.child) => OfJob(h, a, q, r)
    /\ \A y \in Promises : \A k : Unserved(h, a, t, y, k) /\ SubHand(h.subscribers[y][k], r.child) =>
          OfSub(h, y, k, r)

\* c repeats the outcome of p, or is rejected.
Repeats(h, c, p) ==
    \/ h.state[c] = REJECTED
    \/ h.state[c] = FULFILLED /\ h.state[p] = FULFILLED /\ h.result[c] = h.result[p]

Repeat(h, p, cb) ==
    \/ cb.k = "throw"
    \/ cb.k = "return" /\ h.state[p] = FULFILLED /\ cb.v = h.result[p]

RepeatSub(h, p, s, q) == s.child = q /\ Repeat(h, p, s.ok) /\ s.err = NoCallback

RepeatJob(h, p, j, q) ==
    /\ j.k = "invoke" /\ j.child = q
    /\ Repeat(h, p, j.callback) \/ (j.callback = NoCallback /\ j.settled = REJECTED)

\* q repeats p's outcome, or is going to.
Repeater(h, a, t, l, q, p) ==
    \/ Repeats(h, q, p)
    \/ /\ h.state[q] = PENDING /\ Alone(h, l, q)
       /\ \A n : Unrun(h, a, n) /\ JobHand(h.queue[n], q) => RepeatJob(h, p, h.queue[n], q)
       /\ \A y \in Promises : \A k : Unserved(h, a, t, y, k) /\ SubHand(h.subscribers[y][k], q) =>
             RepeatSub(h, p, h.subscribers[y][k], q)

Called(C, c) == \E i \in DOMAIN C : C[i].child = c

\* The parent's value is a thenable.
Foreign(h, p) == h.state[p] = FULFILLED /\ h.result[p] \in Thenables

FinallyOK(h, a, t, l, r, C) ==
    \/ ~Called(C, r.child) /\ OwnHand(h, a, t, l, r)
    \/ Foreign(h, r.parent)
    \/ Called(C, r.child) /\ Repeats(h, r.child, r.parent)
    \/ /\ Called(C, r.child)
       /\ \E q \in Promises : /\ q # r.child /\ OnlyLink(h, a, t, l, r.child, q)
                              /\ Repeater(h, a, t, l, q, r.parent)

\* The job of a settled promise for its child.
Invoke(h, p, c, ok, err) ==
    [k |-> "invoke", settled |-> h.state[p], child |-> c,
     callback |-> IF h.state[p] = FULFILLED THEN ok ELSE err, detail |-> h.result[p]]

\* g is h with the new child c of p, which has one hand.
Handed(h, g, p, c, ok, err) ==
    /\ g.state = h.state /\ g.result = h.result /\ g.made = h.made \cup {c}
    /\ g.deferred = h.deferred /\ g.foreign = h.foreign /\ g.enums = h.enums
    /\ \A y \in Promises : \A k \in DOMAIN g.subscribers[y] : SubHand(g.subscribers[y][k], c) =>
          /\ y = p /\ h.state[p] = PENDING
          /\ g.subscribers[y][k] = [child |-> c, ok |-> ok, err |-> err]
    /\ \A q \in DOMAIN g.queue : JobHand(g.queue[q], c) =>
          h.state[p] # PENDING /\ g.queue[q] = Invoke(h, p, c, ok, err)

\* Nothing that waits settles x.
Free(h, a, t, l, x) ==
    /\ h.state[x] = PENDING /\ Alone(h, l, x)
    /\ \A q : Unrun(h, a, q) => ~JobHand(h.queue[q], x)
    /\ \A y \in Promises : \A k : Unserved(h, a, t, y, k) => ~SubHand(h.subscribers[y][k], x)

-----------------------------------------------------------------------------
(* all: every place of the values is filled once, with what its entry is   *)
(* settled with, and nobody but the enumerator settles the promise.        *)

OnTurn(l, e) == l.k = "all" /\ l.e = e

\* The i-th place of e waits for the loop, or for the promise x of its entry.
Todo(l, e, i) == OnTurn(l, e) /\ i >= l.i

AwaitAt(h, a, t, e, i, x, k) == Unserved(h, a, t, x, k) /\ h.subscribers[x][k] = Collect(e, i)

Await(h, a, t, e, i) == \E x \in Promises : \E k : AwaitAt(h, a, t, e, i, x, k)

Lefts(h, a, t, l, e) == {i \in {1, 2} : Todo(l, e, i) \/ Await(h, a, t, e, i)}

\* v gave a thenable, of which nothing is promised.
Gave(h, v) == IF v \in Promises THEN Foreign(h, v) ELSE v \in Thenables

\* w is the value of the entry v.
Item(h, v, w) == \/ Gave(h, v)
                 \/ IF v \in Promises THEN h.state[v] = FULFILLED /\ w = h.result[v] ELSE w = v

\* The entry v has failed with w.
Blamed(h, v, w) == Gave(h, v) \/ (v \in Promises /\ h.state[v] = REJECTED /\ h.result[v] = w)

Failing(h, en, w) == \E i \in {1, 2} : Blamed(h, en[i], w)

\* The entry v has come to the state s, with w.
Ended(h, v, s, w) == IF s = REJECTED THEN Blamed(h, v, w) ELSE Item(h, v, w)

Same(h, x, p) == h.state[p] # PENDING /\ h.state[x] = h.state[p] /\ h.result[x] = h.result[p]

\* x is settled as the entry v is, or is going to be.
LinkedTo(h, a, t, x, p) == \E k : Unserved(h, a, t, p, k) /\ h.subscribers[p][k] = Link(x)

Follows(h, a, t, l, x, p) == OnlyLink(h, a, t, l, x, p) /\ LinkedTo(h, a, t, x, p)

Mirror(h, a, t, l, x, v) ==
    Gave(h, v) \/ (v \in Promises /\ (Same(h, x, v) \/ Follows(h, a, t, l, x, v)))

\* Nobody but the enumerator e settles P.
Private(h, a, t, l, e, P) ==
    /\ P \in Promises /\ P \in h.made /\ ~Elsewhere(h, l, P)
    /\ \A q : Unrun(h, a, q) => ~JobHand(h.queue[q], P)
    /\ \A y \in Promises : \A k : Unserved(h, a, t, y, k) => ~SubHand(h.subscribers[y][k], P)
    /\ \A d \in DOMAIN h.enums : h.enums[d].promise = P => d = e

\* A place waits for one thing.
Placing(h, a, t, l, e) ==
    /\ \A i \in {1, 2} : Todo(l, e, i) => ~Await(h, a, t, e, i)
    /\ \A i \in {1, 2} : \A x, y \in Promises : \A k, n :
          AwaitAt(h, a, t, e, i, x, k) /\ AwaitAt(h, a, t, e, i, y, n) => x = y /\ k = n

Mirrors(h, a, t, l, e, en) ==
    \A i \in {1, 2} : \A x \in Promises : \A k :
       AwaitAt(h, a, t, e, i, x, k) => Mirror(h, a, t, l, x, en[i])

\* L are the places that are left.
Count(L) == (IF 1 \in L THEN 1 ELSE 0) + (IF 2 \in L THEN 1 ELSE 0)

Summed(h, l, e, en, L) ==
    LET P == h.enums[e].promise
        N == h.enums[e]
    IN  \/ h.state[P] = REJECTED /\ Failing(h, en, h.result[P])
        \/ h.state[P] = FULFILLED /\ \A i \in {1, 2} : Item(h, en[i], h.result[P][i])
        \/ /\ h.state[P] = PENDING
           /\ N.remaining = Count(L)
           /\ N.remaining = 0 => OnTurn(l, e)
           /\ \A i \in {1, 2} : i \notin L => Item(h, en[i], N.result[i])

\* The enumerator e works for the call x of `all'.
Serves(h, l, e, x) ==
    /\ e \in DOMAIN h.enums /\ h.enums[e].promise = x.promise
    /\ DOMAIN h.enums[e].result = {1, 2} /\ DOMAIN x.entries = {1, 2}
    /\ OnTurn(l, e) => l.entries = x.entries

AllOK(h, a, t, l, e, x) ==
    /\ Serves(h, l, e, x) /\ Private(h, a, t, l, e, x.promise) /\ Placing(h, a, t, l, e)
    /\ Mirrors(h, a, t, l, e, x.entries) /\ Summed(h, l, e, x.entries, Lefts(h, a, t, l, e))

Alls(h, a, t, l, A) ==
    /\ IsSeq(A) /\ DOMAIN A = DOMAIN h.enums
    /\ \A e \in DOMAIN A : AllOK(h, a, t, l, e, A[e])

\* The loop is where it was, as far as e is concerned.
SameTurn(l, m, e) ==
    /\ OnTurn(m, e) <=> OnTurn(l, e)
    /\ OnTurn(l, e) => m.i = l.i /\ m.entries = l.entries

\* Settling and counting: promises are published at most.
Hushed(h, g) ==
    /\ g.made = h.made /\ g.deferred = h.deferred /\ g.foreign = h.foreign
    /\ g.subscribers = h.subscribers /\ DOMAIN g.enums = DOMAIN h.enums
    /\ \A d \in DOMAIN h.enums : g.enums[d].promise = h.enums[d].promise
    /\ \A q \in DOMAIN g.queue :
          (q \in DOMAIN h.queue /\ g.queue[q] = h.queue[q]) \/ g.queue[q].k = "publish"

\* The values f have the place i filled.
PlaceSummed(h, e, en, L, i, f) ==
    /\ DOMAIN f = {1, 2}
    /\ h.enums[e].remaining - 1 = Count(L \ {i})
    /\ \A j \in {1, 2} : j \notin L \ {i} => Item(h, en[j], f[j])
    /\ h.enums[e].remaining - 1 = 0 => \A j \in {1, 2} : Item(h, en[j], f[j])

\* What is left of e's places is M.
SumsTo(g, e, en, M, P) ==
    /\ \A m : Summed(g, m, e, en, M)
    /\ DOMAIN g.enums[e].result = {1, 2} /\ g.enums[e].promise = P

-----------------------------------------------------------------------------
(* The invariant of `all' and `finally'                                    *)

Finals(h, a, t, l, R, C) ==
    \A n \in DOMAIN R : R[n].ok.k = "finally" =>
       /\ R[n].ok.then = "return" /\ R[n].err.then = "throw"
       /\ FinallyOK(h, a, t, l, R[n], C)

\* What is known of the promises of a loop.
LoopMade(h, l) ==
    /\ l.k = "race" => l.e \in h.made
    /\ l.k = "all" => \A i \in {1, 2} : l.entries[i] \in Promises => l.entries[i] \in h.made

Combined(h, a, t, l, R, C, A) ==
    Sane(h) /\ LoopMade(h, l) /\ Finals(h, a, t, l, R, C) /\ Alls(h, a, t, l, A)

\* Who may settle the promises of `all' and of `finally', and how.
CInv == Combined(heap, at, turn, loop, reactions, calls, alls)

-----------------------------------------------------------------------------
(* A step of flush or of a loop: what it uses up, calls and counts         *)

\* Who follows a promise settles as it did, unless that gave a thenable.
LinksRun(h, a, t, l, g, D) ==
    \A x, p \in Promises : OnlyLink(h, a, t, l, x, p) /\ x \in D =>
       h.state[p] # PENDING /\ (Foreign(h, p) \/ Same(g, x, p))

\* Who repeats does.
RepeatsRun(h, a, t, l, g, D) ==
    \A q, p \in Promises : Repeater(h, a, t, l, q, p) /\ h.state[q] = PENDING /\ q \in D =>
       Foreign(h, p) \/ Repeats(g, q, p)

\* The callback of `finally' that is called does what it should.
OwnRuns(h, a, t, l, g, b, u, m, D, r, C, E) ==
    ~Called(C, r.child) /\ OwnHand(h, a, t, l, r) =>
       IF r.child \in D THEN FinallyOK(g, b, u, m, r, E) ELSE ~Called(E, r.child)

NextTurn(l, m, e, i) ==
    /\ OnTurn(l, e) /\ OnTurn(m, e) /\ l.i = i /\ m.i = i + 1 /\ m.entries = l.entries

\* c has the subscriber s more, and all that waited still do.
OneMore(h, g, a, c, s) ==
    \E z :
      /\ \A y \in Promises : \A n : Unserved(g, a, 1, y, n) <=>
            Unserved(h, a, 1, y, n) \/ (y = c /\ n = z)
      /\ \A y \in Promises : \A n : Unserved(h, a, 1, y, n) =>
            ~(y = c /\ n = z) /\ g.subscribers[y][n] = h.subscribers[y][n]
      /\ g.subscribers[c][z] = s

Counted(h) == "enums" \in DOMAIN h

Recount(h, g) == Counted(g) /\ DOMAIN g.enums = DOMAIN h.enums

\* The calls after one of the callback cb for c.
Recorded(C, cb, c, E) ==
    IF Mine(cb) THEN \E d : E = Append(C, d) /\ d.child = c ELSE E = C

\* The promise of a job that is run, or of nobody's.
JobOf(h, l, j, D) == \A x \in Promises : x \in D => JobHand(j, x) \/ Elsewhere(h, l, x)

\* The subscriber fills a place of an enumerator that x belongs to.
Assigns(h, s, x) == \E e \in DOMAIN h.enums : \E i \in {1, 2} : s = Collect(e, i) /\ h.enums[e].promise = x

\* The promises of a subscriber that is served, and of nobody's.
SubOf(h, l, s, D) ==
    \A x \in Promises : x \in D <=> SubHand(s, x) \/ Elsewhere(h, l, x) \/ Assigns(h, s, x)

\* publish is at the t-th subscriber of p, which is s.
Serving(h, a, t, p, s) ==
    /\ a \in DOMAIN h.queue /\ h.queue[a] = Publish(p) /\ h.state[p] # PENDING
    /\ t \in DOMAIN h.subscribers[p] /\ h.subscribers[p][t] = s

\* What the turn does to the heap.
Turned(h, p, s, cb, o, g) ==
    g = IF s.child = NoChild
        THEN tryCatch(h, cb, h.result[p], o).heap
        ELSE invokeCallback(h, h.state[p], s.child, cb, h.result[p], o)

ChosenBy(h, p, s, cb) == cb = IF h.state[p] = FULFILLED THEN s.ok ELSE s.err

\* publish is done with p.
Emptied(h, p) == [h EXCEPT !.subscribers[p] = <<>>]

=============================================================================
