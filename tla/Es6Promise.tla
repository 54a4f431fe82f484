----------------------------- MODULE Es6Promise -----------------------------
(***************************************************************************)
(* The promise polyfill that signalr.js carries for browsers without       *)
(* promises (es6-promise 4.2.2, wwwroot/scripts/signalr.js 26-1200): the   *)
(* queue of `asap', `then', `resolve', `publish', `all', `race' and        *)
(* `finally'.                                                              *)
(*                                                                         *)
(* JavaScript runs one callback at a time.  Everything one call does to    *)
(* promises and to the queue is an operator from a heap to a heap; the     *)
(* loops that call back into a program's own code (`flush', `publish',     *)
(* `_enumerate', the loop of `race') keep their index in a variable and    *)
(* take one turn per step, while nothing else can run.  What the program's *)
(* callbacks do is chosen in every way.                                    *)
(***************************************************************************)
EXTENDS Naturals, Sequences, FiniteSets

CONSTANTS Promises,   \* promise objects, made in any order
          Plain,      \* values that are not thenables
          Thenables,  \* foreign objects with a `then' function
          BadThens,   \* objects whose `then' property throws when read
          Reasons,    \* what a program throws or rejects with
          Undefined, SelfFulfillment, CannotReturnOwn, GetThenError,
          MaxDeferred, \* bound on the promises made with `new'
          MaxSteps,    \* bound on the program's other calls
          Firsts       \* bound on the first entries given to `all' and `race'

PENDING   == 0
FULFILLED == 1
REJECTED  == 2

Values == Plain \cup Thenables \cup BadThens \cup {Undefined}

ASSUME ValuesApart ==
    /\ MaxSteps \in Nat /\ MaxDeferred \in Nat
    /\ Cardinality(Promises) >= MaxDeferred + 4 * MaxSteps    \* all that can be made
    /\ Promises \cap (Values \cup Reasons) = {}
    /\ Thenables \cap (Plain \cup BadThens \cup {Undefined}) = {}
    /\ BadThens \cap (Plain \cup {Undefined}) = {}

VARIABLES heap,       \* the promises and the queue, see Heap
          at,         \* index of flush's loop in the queue; 0 outside a flush
          turn,       \* index of publish's loop in the subscribers
          loop,       \* the loop of `all' or `race' that is running
          steps,      \* the program's calls that MaxSteps bounds
          reactions,  \* history: the calls of `then' and `finally', oldest first
          alls,       \* history: the calls of `all'
          calls       \* history: the program's callbacks that were called

vars == <<heap, at, turn, loop, steps, reactions, alls, calls>>

NoCallback == [k |-> "none"]
User       == [k |-> "user"]
NoChild    == Undefined
Idle       == [k |-> "idle"]

Init ==
    /\ heap = [made        |-> {},
               deferred    |-> {},
               state       |-> [p \in Promises |-> PENDING],
               result      |-> [p \in Promises |-> Undefined],
               subscribers |-> [p \in Promises |-> <<>>],
               queue       |-> <<>>,
               scheduled   |-> FALSE,
               foreign     |-> <<>>,
               enums       |-> <<>>]
    /\ at = 0 /\ turn = 1 /\ loop = Idle /\ steps = 0
    /\ reactions = <<>> /\ alls = <<>> /\ calls = <<>>

-----------------------------------------------------------------------------
(* The queue *)

\* Every way of scheduling calls flush once, later.
ScheduleFlush(h) == [h EXCEPT !.scheduled = TRUE]

asap(h, job) ==
    LET g == [h EXCEPT !.queue = Append(@, job)]
    IN  IF Len(g.queue) = 1 THEN ScheduleFlush(g) ELSE g

Publish(p) == [k |-> "publish", promise |-> p]

-----------------------------------------------------------------------------
(* Settling *)

fulfill(h, p, v) ==
    LET g == [h EXCEPT !.state[p] = FULFILLED, !.result[p] = v]
    IN  IF h.state[p] # PENDING THEN h
        ELSE IF h.subscribers[p] # <<>> THEN asap(g, Publish(p)) ELSE g

\* Mutant: a promise that is fulfilled can still be rejected.
rejectMutant(h, p, r) ==
    IF h.state[p] = REJECTED THEN h
    ELSE asap([h EXCEPT !.state[p] = REJECTED, !.result[p] = r], Publish(p))

reject(h, p, r) ==
    IF h.state[p] # PENDING THEN h
    ELSE asap([h EXCEPT !.state[p] = REJECTED, !.result[p] = r], Publish(p))

\* Mutant: the newest subscriber is served first.
subscribeMutant(h, parent, child, ok, err) ==
    LET s == [child |-> child, ok |-> ok, err |-> err]
    IN  [h EXCEPT !.subscribers[parent] = <<s>> \o @]

subscribe(h, parent, child, ok, err) ==
    LET s == [child |-> child, ok |-> ok, err |-> err]
        g == [h EXCEPT !.subscribers[parent] = Append(@, s)]
    IN  IF h.subscribers[parent] = <<>> /\ h.state[parent] # PENDING
        THEN asap(g, Publish(parent)) ELSE g

handleForeignThenable(h, p, t) == asap(h, [k |-> "foreign", promise |-> p, thenable |-> t])

handleOwnThenable(h, p, q) ==
    CASE h.state[q] = FULFILLED -> fulfill(h, p, h.result[q])
      [] h.state[q] = REJECTED  -> reject(h, p, h.result[q])
      [] OTHER -> subscribe(h, q, NoChild, [k |-> "resolve", promise |-> p],
                                           [k |-> "reject", promise |-> p])

handleMaybeThenable(h, p, v) ==
    IF v \in Promises THEN handleOwnThenable(h, p, v)
    ELSE IF v \in BadThens THEN reject(h, p, GetThenError)
    ELSE handleForeignThenable(h, p, v)

resolve(h, p, v) ==
    IF v = p THEN reject(h, p, SelfFulfillment)
    ELSE IF v \in Promises \cup Thenables \cup BadThens
         THEN handleMaybeThenable(h, p, v)
         ELSE fulfill(h, p, v)

-----------------------------------------------------------------------------
(* New promises *)

Unmade(h) == Promises \ h.made
NewPromise(h) == CHOOSE p \in Unmade(h) : TRUE
makePromise(h) == [h EXCEPT !.made = @ \cup {NewPromise(h)}]

\* `then' makes the child; the parent's subscribers or the queue keep the callbacks.
then(h, parent, ok, err) ==
    LET child == NewPromise(h)
        g     == makePromise(h)
    IN  IF h.state[parent] = PENDING THEN subscribe(g, parent, child, ok, err)
        ELSE asap(g, [k |-> "invoke", settled |-> h.state[parent], child |-> child,
                      callback |-> IF h.state[parent] = FULFILLED THEN ok ELSE err,
                      detail |-> h.result[parent]])

\* Promise.resolve: a promise is returned as it is.
resolved(h, v)     == IF v \in Promises THEN v ELSE NewPromise(h)
resolveStatic(h, v) == IF v \in Promises THEN h ELSE resolve(makePromise(h), NewPromise(h), v)

rejectStatic(h, r) == reject(makePromise(h), NewPromise(h), r)

-----------------------------------------------------------------------------
(* Promise.all: an enumerator per promise it returns *)

\* Mutant: values are collected in the order the entries settle.
settledAtMutant(h, e, state, i, v) ==
    LET p    == h.enums[e].promise
        left == h.enums[e].remaining - 1
        n    == Len(h.enums[e].result) - left
        g == IF h.state[p] # PENDING THEN h
             ELSE IF state = REJECTED
             THEN reject([h EXCEPT !.enums[e].remaining = left], p, v)
             ELSE [h EXCEPT !.enums[e].remaining = left, !.enums[e].result[n] = v]
    IN  IF g.enums[e].remaining = 0 THEN fulfill(g, p, g.enums[e].result) ELSE g

settledAt(h, e, state, i, v) ==
    LET p    == h.enums[e].promise
        left == h.enums[e].remaining - 1
        g == IF h.state[p] # PENDING THEN h
             ELSE IF state = REJECTED
             THEN reject([h EXCEPT !.enums[e].remaining = left], p, v)
             ELSE [h EXCEPT !.enums[e].remaining = left, !.enums[e].result[i] = v]
    IN  IF g.enums[e].remaining = 0 THEN fulfill(g, p, g.enums[e].result) ELSE g

willSettleAt(h, p, e, i) ==
    subscribe(h, p, NoChild, [k |-> "settledAt", enum |-> e, state |-> FULFILLED, i |-> i],
                             [k |-> "settledAt", enum |-> e, state |-> REJECTED, i |-> i])

eachEntry(h, e, entry, i) ==
    IF entry \in Promises /\ h.state[entry] # PENDING
    THEN settledAt(h, e, h.state[entry], i, h.result[entry])
    ELSE IF entry \in Promises \cup Thenables
    THEN willSettleAt(handleMaybeThenable(makePromise(h), NewPromise(h), entry),
                      NewPromise(h), e, i)
    ELSE [h EXCEPT !.enums[e].remaining = @ - 1, !.enums[e].result[i] = entry]

\* The constructor, up to the loop over the entries.
Enumerator(h, entries) ==
    LET p == NewPromise(h)
        e == [promise |-> p, remaining |-> Len(entries),
              result |-> [i \in DOMAIN entries |-> Undefined]]
        g == [makePromise(h) EXCEPT !.enums = Append(@, e)]
    IN  IF entries = <<>> THEN fulfill(g, p, <<>>) ELSE g

-----------------------------------------------------------------------------
(* Callbacks.  A callback of the program may call `then', `catch' and      *)
(* `finally' (see CallAnywhere); how it ends is o: it may fulfill one      *)
(* promise it has the functions of (o.d, unless NoChild) and returns or    *)
(* throws o.value.                                                         *)

Effect(h, o) == IF o.d = NoChild THEN h ELSE resolve(h, o.d, o.v)

\* finally: the callback's result is awaited, then the parent's outcome is repeated.
finally(h, o, repeat) ==
    LET g == resolveStatic(h, o.value)
    IN  [heap |-> then(g, resolved(h, o.value), repeat, NoCallback),
         failed |-> FALSE, value |-> NewPromise(g)]

tryCatch(h, cb, detail, o) ==
    CASE cb.k = "user"    -> [heap |-> Effect(h, o), failed |-> o.throws, value |-> o.value]
      [] cb.k = "return"  -> [heap |-> h, failed |-> FALSE, value |-> cb.v]
      [] cb.k = "throw"   -> [heap |-> h, failed |-> TRUE, value |-> cb.v]
      [] cb.k = "resolve" -> [heap |-> resolve(h, cb.promise, detail),
                              failed |-> FALSE, value |-> Undefined]
      [] cb.k = "reject"  -> [heap |-> reject(h, cb.promise, detail),
                              failed |-> FALSE, value |-> Undefined]
      [] cb.k = "settledAt" -> [heap |-> settledAt(h, cb.enum, cb.state, cb.i, detail),
                                failed |-> FALSE, value |-> Undefined]
      [] OTHER ->    \* "finally"
            IF o.throws THEN [heap |-> Effect(h, o), failed |-> TRUE, value |-> o.value]
            ELSE finally(Effect(h, o), o, [k |-> cb.then, v |-> detail])

invokeCallback(h, settled, child, cb, detail, o) ==
    LET r == tryCatch(h, cb, detail, o)
    IN  IF cb = NoCallback
        THEN IF settled = FULFILLED THEN fulfill(h, child, detail) ELSE reject(h, child, detail)
        ELSE IF ~r.failed /\ r.value = child THEN reject(r.heap, child, CannotReturnOwn)
        ELSE IF r.heap.state[child] # PENDING THEN r.heap
        ELSE IF r.failed THEN reject(r.heap, child, r.value)
        ELSE resolve(r.heap, child, r.value)

\* What a callback of the program may return.
Answers(h) == Plain \cup Thenables \cup BadThens \cup h.made

\* The ways such a callback may end, with an effect on a deferred or none.
Outcomes(h) ==
    [throws : {FALSE}, value : Answers(h), d : {NoChild}, v : Plain]
    \cup [throws : {FALSE}, value : Plain, d : h.deferred, v : Plain]
    \cup [throws : {TRUE}, value : Reasons, d : {NoChild}, v : Plain]

NoOutcome == [throws |-> FALSE, value |-> Undefined, d |-> NoChild, v |-> Undefined]
OutcomesOf(h, cb) == IF cb.k \in {"user", "finally"} THEN Outcomes(h) ELSE {NoOutcome}

Record(cb, child, detail) ==
    calls' = IF cb.k \in {"user", "finally"}
             THEN Append(calls, [child |-> child, detail |-> detail]) ELSE calls

-----------------------------------------------------------------------------
(* flush and the loops under it *)

Stack == at = 0 /\ loop = Idle      \* no code of the library is running

FlushStart ==
    /\ Stack /\ heap.scheduled
    /\ heap' = [heap EXCEPT !.scheduled = FALSE]
    /\ at' = 1
    /\ UNCHANGED <<turn, loop, steps, reactions, alls, calls>>

Job(kind) == at \in DOMAIN heap.queue /\ loop = Idle /\ heap.queue[at].k = kind

RunInvoke ==
    /\ Job("invoke")
    /\ LET j == heap.queue[at] IN
       /\ \E o \in OutcomesOf(heap, j.callback) :
             heap' = invokeCallback(heap, j.settled, j.child, j.callback, j.detail, o)
       /\ Record(j.callback, j.child, j.detail)
    /\ at' = at + 1
    /\ UNCHANGED <<turn, loop, steps, reactions, alls>>

\* The two functions a foreign `then' is given, one of them called: only the
\* first call counts.
ForeignCalls(t) == [k : {"resolve"}, v : Plain \cup {t}] \cup [k : {"reject"}, v : Reasons]
foreignCall(h, f, c) ==
    LET x == h.foreign[f]
        g == [h EXCEPT !.foreign[f].sealed = TRUE]
    IN  IF x.sealed THEN h
        ELSE IF c.k = "reject" THEN reject(g, x.promise, c.v)
        ELSE IF c.v = x.thenable THEN fulfill(g, x.promise, c.v)
        ELSE resolve(g, x.promise, c.v)

RunForeign ==
    /\ Job("foreign")
    /\ LET j == heap.queue[at]
           f == Len(heap.foreign) + 1
           g == [heap EXCEPT !.foreign = Append(@, [promise |-> j.promise,
                                   thenable |-> j.thenable, sealed |-> FALSE])]
       IN \/ heap' = g
          \/ \E c \in ForeignCalls(j.thenable) : heap' = foreignCall(g, f, c)
          \/ \E r \in Reasons : heap' = foreignCall(g, f, [k |-> "reject", v |-> r])
    /\ at' = at + 1
    /\ UNCHANGED <<turn, loop, steps, reactions, alls, calls>>

\* Mutant: the queue's length is not reset.
FlushEndMutant ==
    /\ at > Len(heap.queue) /\ loop = Idle
    /\ at' = 0
    /\ UNCHANGED <<heap, turn, loop, steps, reactions, alls, calls>>

FlushEnd ==
    /\ at > Len(heap.queue) /\ loop = Idle
    /\ heap' = [heap EXCEPT !.queue = <<>>]
    /\ at' = 0
    /\ UNCHANGED <<turn, loop, steps, reactions, alls, calls>>

\* publish: one subscriber per step; the list is emptied after the last.
RunPublish ==
    /\ Job("publish")
    /\ LET p    == heap.queue[at].promise
           subs == heap.subscribers[p]
           s    == subs[turn]
           cb   == IF heap.state[p] = FULFILLED THEN s.ok ELSE s.err
           last == turn >= Len(subs)
           Emptied(h) == IF last THEN [h EXCEPT !.subscribers[p] = <<>>] ELSE h
       IN  /\ IF subs = <<>>
              THEN UNCHANGED <<heap, calls>>
              ELSE /\ \E o \in OutcomesOf(heap, cb) :
                         heap' = Emptied(
                            IF s.child = NoChild
                            THEN tryCatch(heap, cb, heap.result[p], o).heap
                            ELSE invokeCallback(heap, heap.state[p], s.child, cb, heap.result[p], o))
                   /\ Record(cb, s.child, heap.result[p])
           /\ turn' = IF last THEN 1 ELSE turn + 1
           /\ at' = IF last THEN at + 1 ELSE at
    /\ UNCHANGED <<loop, steps, reactions, alls>>

-----------------------------------------------------------------------------
(* What a program calls *)

Call == Stack /\ steps < MaxSteps /\ steps' = steps + 1 /\ UNCHANGED <<at, turn, calls>>

\* new Promise(executor): the executor keeps the two functions, or throws.
\* Bound: the program makes these promises first.
Promise ==
    /\ Stack /\ steps = 0 /\ Cardinality(heap.deferred) < MaxDeferred
    /\ LET p == NewPromise(heap)
           g == [makePromise(heap) EXCEPT !.deferred = @ \cup {p}]
       IN  heap' = g \/ \E r \in Reasons : heap' = reject(g, p, r)
    /\ UNCHANGED <<at, turn, loop, steps, reactions, alls, calls>>

\* A deferred is resolved or rejected, at most once per promise with any effect.
Settle ==
    /\ Stack
    /\ \E p \in heap.deferred :
          \/ \E v \in Plain : heap' = resolve(heap, p, v)
          \/ \E r \in Reasons : heap' = reject(heap, p, r)
    /\ UNCHANGED <<at, turn, loop, steps, reactions, alls, calls>>

\* A deferred is resolved with a thenable; later calls of Settle may overtake it.
Adopt ==
    /\ Call
    /\ \E p \in heap.deferred, v \in Thenables \cup BadThens \cup heap.made :
          heap' = resolve(heap, p, v)
    /\ UNCHANGED <<loop, reactions, alls>>

\* A callback of the program is running, and has not come to its outcome yet.
InCallback ==
    /\ at \in DOMAIN heap.queue /\ loop = Idle
    /\ LET j == heap.queue[at]
           p == j.promise
           s == heap.subscribers[p][turn]
       IN  \/ j.k = "invoke" /\ j.callback.k \in {"user", "finally"}
           \/ /\ j.k = "publish" /\ turn \in DOMAIN heap.subscribers[p]
              /\ (IF heap.state[p] = FULFILLED THEN s.ok ELSE s.err).k \in {"user", "finally"}

\* What the program calls outside callbacks or in one.
CallAnywhere ==
    /\ Stack \/ InCallback
    /\ steps < MaxSteps /\ steps' = steps + 1 /\ UNCHANGED <<at, turn, calls>>

\* then(f) and catch(f).
Then ==
    /\ CallAnywhere
    /\ \E p \in heap.made : \E cb \in {<<User, NoCallback>>, <<NoCallback, User>>} :
          /\ heap' = then(heap, p, cb[1], cb[2])
          /\ reactions' = Append(reactions, [parent |-> p, child |-> NewPromise(heap),
                                             ok |-> cb[1], err |-> cb[2]])
    /\ UNCHANGED <<loop, alls>>

Finally ==
    /\ CallAnywhere
    /\ \E p \in heap.made :
          LET ok  == [k |-> "finally", then |-> "return"]
              err == [k |-> "finally", then |-> "throw"]
          IN  /\ heap' = then(heap, p, ok, err)
              /\ reactions' = Append(reactions, [parent |-> p, child |-> NewPromise(heap),
                                                 ok |-> ok, err |-> err])
    /\ UNCHANGED <<loop, alls>>

Static ==
    /\ Call
    /\ \/ \E v \in Plain \cup Thenables : heap' = resolveStatic(heap, v)
       \/ \E r \in Reasons : heap' = rejectStatic(heap, r)
    /\ UNCHANGED <<loop, reactions, alls>>

\* A foreign thenable calls one of the functions it was given in a turn of its own.
ForeignLate ==
    /\ Stack
    /\ \E f \in DOMAIN heap.foreign : \E c \in ForeignCalls(heap.foreign[f].thenable) :
          heap' = foreignCall(heap, f, c)
    /\ UNCHANGED <<at, turn, loop, steps, reactions, alls, calls>>

\* Bound: two entries, the first one of Firsts.
Entries(h) == {<<p, x>> : p \in h.deferred \cap Firsts, x \in h.made \cup Plain \cup Thenables}

all ==
    /\ Call
    /\ \E entries \in Entries(heap) :
          /\ heap' = Enumerator(heap, entries)
          /\ loop' = [k |-> "all", e |-> Len(heap.enums) + 1, entries |-> entries, i |-> 1]
          /\ alls' = Append(alls, [promise |-> NewPromise(heap), entries |-> entries])
    /\ UNCHANGED reactions

EnumerateStep ==
    /\ loop.k = "all" /\ loop.i <= Len(loop.entries)
    /\ heap' = eachEntry(heap, loop.e, loop.entries[loop.i], loop.i)
    /\ loop' = [loop EXCEPT !.i = @ + 1]
    /\ UNCHANGED <<at, turn, steps, reactions, alls, calls>>

EnumerateEnd ==
    /\ loop.k = "all" /\ loop.i > Len(loop.entries)
    /\ heap' = IF heap.enums[loop.e].remaining = 0
               THEN fulfill(heap, heap.enums[loop.e].promise, heap.enums[loop.e].result) ELSE heap
    /\ loop' = Idle
    /\ UNCHANGED <<at, turn, steps, reactions, alls, calls>>

race ==
    /\ Call
    /\ \E entries \in Entries(heap) :
          /\ heap' = makePromise(heap)
          /\ loop' = [k |-> "race", e |-> NewPromise(heap), entries |-> entries, i |-> 1]
    /\ UNCHANGED <<reactions, alls>>

RaceStep ==
    /\ loop.k = "race"
    /\ IF loop.i > Len(loop.entries)
       THEN loop' = Idle /\ UNCHANGED heap
       ELSE /\ loop' = [loop EXCEPT !.i = @ + 1]
            /\ LET v == loop.entries[loop.i]
               IN  heap' = then(resolveStatic(heap, v), resolved(heap, v),
                                [k |-> "resolve", promise |-> loop.e],
                                [k |-> "reject", promise |-> loop.e])
    /\ UNCHANGED <<at, turn, steps, reactions, alls, calls>>

Library == FlushStart \/ RunPublish \/ RunInvoke \/ RunForeign \/ FlushEnd
           \/ EnumerateStep \/ EnumerateEnd \/ RaceStep
Program == Promise \/ Settle \/ Adopt \/ Then \/ Finally \/ Static \/ ForeignLate \/ all \/ race

Next == Library \/ Program

Spec == Init /\ [][Next]_vars

-----------------------------------------------------------------------------
(* Properties *)

\* A promise settles once: its state and its value never change again, whoever
\* still holds its functions (the tests of _state in fulfill and reject).
SettledOnce ==
    [][\A p \in Promises : heap.state[p] # PENDING =>
          heap'.state[p] = heap.state[p] /\ heap'.result[p] = heap.result[p]]_vars

\* The callbacks of one promise are called in the order they were registered,
\* none twice, each with what the promise settled with: those registered
\* before it settled (publish) before those registered after (the queue).
CallbacksInOrder ==
    \A i, j \in DOMAIN calls : \A m, n \in DOMAIN reactions :
       /\ calls[i].child = reactions[m].child
       /\ calls[j].child = reactions[n].child
       /\ reactions[m].parent = reactions[n].parent
       => /\ calls[i].detail = heap.result[reactions[m].parent]
          /\ i < j => m < n

\* No code of the library is running and none is going to run by itself.
Quiet == Stack /\ ~heap.scheduled

IsThenable(v) == v \in Thenables
Outcome(v)    == IF v \in Promises THEN heap.result[v] ELSE v

\* When the queue has come to rest, the promise of `all' is fulfilled with the values
\* of the entries in their places if all of them are, and otherwise rejected
\* with the reason of one of them that is, or waits for one that waits; the promise
\* of finally is fulfilled only as its parent is, whatever the callback returns.
CombinedRight ==
    Quiet =>
    /\ \A a \in DOMAIN alls :
          LET e  == alls[a].promise
              en == alls[a].entries
              own == {i \in DOMAIN en : en[i] \in Promises}
              bad == {i \in own : heap.state[en[i]] = REJECTED}
          IN  /\ bad # {} => heap.state[e] = REJECTED
              /\ heap.state[e] = REJECTED =>
                    \E i \in DOMAIN en : \/ IsThenable(Outcome(en[i]))
                                        \/ (i \in bad /\ heap.result[e] = heap.result[en[i]])
              /\ heap.state[e] = FULFILLED =>
                    \A i \in DOMAIN en :
                       IsThenable(Outcome(en[i])) \/ heap.result[e][i] = Outcome(en[i])
              /\ heap.state[e] = PENDING =>
                    \E i \in DOMAIN en : \/ IsThenable(Outcome(en[i]))
                                        \/ (i \in own /\ heap.state[en[i]] = PENDING)
    /\ \A n \in DOMAIN reactions :
          LET c == reactions[n].child
              p == reactions[n].parent
          IN  reactions[n].ok.k = "finally" /\ heap.state[c] = FULFILLED =>
                 /\ heap.state[p] = FULFILLED
                 /\ IsThenable(heap.result[p]) \/ heap.result[c] = heap.result[p]

\* When the queue has come to rest, every callback for what its promise settled
\* with has been called: publish reaches the last subscriber, jobs queued while a
\* flush runs are run by that flush, and the first job after it schedules a new one.
CallbacksCalled ==
    Quiet =>
    \A n \in DOMAIN reactions :
       LET r  == reactions[n]
           cb == IF heap.state[r.parent] = FULFILLED THEN r.ok ELSE r.err
       IN  heap.state[r.parent] # PENDING /\ cb # NoCallback
              => \E c \in DOMAIN calls : calls[c].child = r.child
=============================================================================
