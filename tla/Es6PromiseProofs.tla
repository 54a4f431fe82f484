-------------------------- MODULE Es6PromiseProofs --------------------------
(* For any promises, values and programs: a promise settles once, the      *)
(* callbacks of a promise are called in the order they were registered,    *)
(* and all of them are; `all' and `finally' combine outcomes right.        *)
(*                                                                         *)
(* Every operator of Es6Promise takes a heap to one in which all that was  *)
(* settled is as it was (Kept), and which has nothing of the program's     *)
(* that was not there (Calm).  What is left to prove is where the          *)
(* program's callbacks go in the steps that move them: `then', the turns   *)
(* of publish and the jobs of flush (World).                               *)
(*                                                                         *)
(* For `all' and `finally' the promises are followed by who may settle     *)
(* them (their hands).  An operator settles none but those it was called   *)
(* for, and gives nobody else a hand on another (Spares, Moves); so what   *)
(* waits for an outcome still waits for the same one (Combined).           *)
EXTENDS Es6PromiseInvariants, FiniteSetTheorems, TLAPS

-----------------------------------------------------------------------------
(* Heaps *)

LEMMA KeptStays ==
  ASSUME NEW h, Shape(h)
  PROVE  Kept(h, h)
BY DEF Kept

LEMMA KeptTrans ==
  ASSUME NEW h, NEW g, NEW k, Kept(h, g), Kept(g, k)
  PROVE  Kept(h, k)
BY DEF Kept

\* The fields that hold neither states nor results do not matter.
LEMMA OtherFields ==
  ASSUME NEW h, Shape(h), NEW x
  PROVE  /\ Kept(h, [h EXCEPT !.made = x])
         /\ Kept(h, [h EXCEPT !.deferred = x])
         /\ Kept(h, [h EXCEPT !.subscribers = x])
         /\ Kept(h, [h EXCEPT !.queue = x])
         /\ Kept(h, [h EXCEPT !.scheduled = x])
         /\ Kept(h, [h EXCEPT !.foreign = x])
         /\ Kept(h, [h EXCEPT !.enums = x])
BY DEF Kept, Shape

\* A pending promise may be settled.
LEMMA SettleKeeps ==
  ASSUME NEW h, Shape(h), NEW p, NEW s, NEW v, h.state[p] = PENDING
  PROVE  Kept(h, [h EXCEPT !.state[p] = s, !.result[p] = v])
<1> DEFINE st == [h.state EXCEPT ![p] = s]
           re == [h.result EXCEPT ![p] = v]
           g == [h EXCEPT !.state = st]
           k == [g EXCEPT !.result = re]
<1>1. g.state = st /\ g.result = h.result /\ DOMAIN g = DOMAIN h  BY DEF Shape
<1>2. k.state = st /\ k.result = re /\ DOMAIN k = DOMAIN h  BY <1>1 DEF Shape
<1>3. k = [h EXCEPT !.state[p] = s, !.result[p] = v]  BY <1>1
<1> QED  BY <1>2, <1>3 DEF Kept, Shape

-----------------------------------------------------------------------------
(* The library's operators *)

LEMMA asapKeeps ==
  ASSUME NEW h, Shape(h), NEW job
  PROVE  Kept(h, asap(h, job))
<1> DEFINE g == [h EXCEPT !.queue = Append(@, job)]
<1>1. Kept(h, g)  BY OtherFields
<1> HIDE DEF g
<1>2. Shape(g)  BY <1>1 DEF Kept
<1>3. Kept(g, [g EXCEPT !.scheduled = TRUE])  BY <1>2, OtherFields
<1>4. Kept(h, ScheduleFlush(g))  BY <1>1, <1>3, KeptTrans DEF ScheduleFlush
<1> QED  BY <1>1, <1>4 DEF asap, g

LEMMA fulfillKeeps ==
  ASSUME NEW h, Shape(h), NEW p, NEW v
  PROVE  Kept(h, fulfill(h, p, v))
<1> DEFINE g == [h EXCEPT !.state[p] = FULFILLED, !.result[p] = v]
<1>1. CASE h.state[p] # PENDING  BY <1>1, KeptStays DEF fulfill
<1>2. CASE h.state[p] = PENDING
  <2>1. Kept(h, g)  BY <1>2, SettleKeeps, Zenon
  <2> HIDE DEF g
  <2>2. Kept(h, asap(g, Publish(p)))  BY <2>1, asapKeeps, KeptTrans DEF Kept
  <2> QED  BY <1>2, <2>1, <2>2 DEF fulfill, g
<1> QED  BY <1>1, <1>2

LEMMA rejectKeeps ==
  ASSUME NEW h, Shape(h), NEW p, NEW r
  PROVE  Kept(h, reject(h, p, r))
<1> DEFINE g == [h EXCEPT !.state[p] = REJECTED, !.result[p] = r]
<1>1. CASE h.state[p] # PENDING  BY <1>1, KeptStays DEF reject
<1>2. CASE h.state[p] = PENDING
  <2>1. Kept(h, g)  BY <1>2, SettleKeeps, Zenon
  <2> HIDE DEF g
  <2>2. Kept(h, asap(g, Publish(p)))  BY <2>1, asapKeeps, KeptTrans DEF Kept
  <2> QED  BY <1>2, <2>2 DEF reject, g
<1> QED  BY <1>1, <1>2

LEMMA subscribeKeeps ==
  ASSUME NEW h, Shape(h), NEW parent, NEW child, NEW ok, NEW err
  PROVE  Kept(h, subscribe(h, parent, child, ok, err))
<1> DEFINE s == [child |-> child, ok |-> ok, err |-> err]
           g == [h EXCEPT !.subscribers[parent] = Append(@, s)]
<1>1. Kept(h, g)  BY OtherFields
<1> HIDE DEF g
<1>2. Kept(h, asap(g, Publish(parent)))  BY <1>1, asapKeeps, KeptTrans DEF Kept
<1> QED  BY <1>1, <1>2 DEF subscribe, g

LEMMA resolveKeeps ==
  ASSUME NEW h, Shape(h), NEW p, NEW v
  PROVE  /\ Kept(h, handleMaybeThenable(h, p, v))
         /\ Kept(h, resolve(h, p, v))
<1>1. \A q : Kept(h, handleOwnThenable(h, p, q))
  BY fulfillKeeps, rejectKeeps, subscribeKeeps DEF handleOwnThenable
<1>2. Kept(h, handleForeignThenable(h, p, v))  BY asapKeeps DEF handleForeignThenable
<1>3. Kept(h, handleMaybeThenable(h, p, v))
  BY <1>1, <1>2, rejectKeeps DEF handleMaybeThenable
<1> QED  BY <1>3, fulfillKeeps, rejectKeeps DEF resolve

LEMMA thenKeeps ==
  ASSUME NEW h, Shape(h), NEW parent, NEW ok, NEW err
  PROVE  Kept(h, then(h, parent, ok, err))
<1>1. Kept(h, makePromise(h))  BY OtherFields DEF makePromise
<1>2. \A job : Kept(h, asap(makePromise(h), job))
  BY <1>1, asapKeeps, KeptTrans DEF Kept
<1>3. \A child : Kept(h, subscribe(makePromise(h), parent, child, ok, err))
  BY <1>1, subscribeKeeps, KeptTrans DEF Kept
<1> QED  BY <1>2, <1>3 DEF then

LEMMA StaticKeeps ==
  ASSUME NEW h, Shape(h), NEW v
  PROVE  Kept(h, resolveStatic(h, v)) /\ Kept(h, rejectStatic(h, v))
<1>1. Kept(h, makePromise(h))  BY OtherFields DEF makePromise
<1>2. \A p : /\ Kept(h, resolve(makePromise(h), p, v))
             /\ Kept(h, reject(makePromise(h), p, v))
  BY <1>1, resolveKeeps, rejectKeeps, KeptTrans DEF Kept
<1> QED  BY <1>2, KeptStays DEF resolveStatic, rejectStatic

\* An enumerator counts and collects in fields of its own, and settles through reject and fulfill.
LEMMA settledAtKeeps ==
  ASSUME NEW h, Shape(h), NEW e, NEW state, NEW i, NEW v
  PROVE  Kept(h, settledAt(h, e, state, i, v))
<1> DEFINE p == h.enums[e].promise
           left == h.enums[e].remaining - 1
           a == [h EXCEPT !.enums[e].remaining = left]
           b == [h EXCEPT !.enums[e].remaining = left, !.enums[e].result[i] = v]
           g == IF h.state[p] # PENDING THEN h
                ELSE IF state = REJECTED THEN reject(a, p, v) ELSE b
<1>1. Kept(h, a)  BY OtherFields
<1>2. Kept(h, b)  BY DEF Kept, Shape
<1> HIDE DEF a, b
<1>3. Kept(h, reject(a, p, v))  BY <1>1, rejectKeeps, KeptTrans DEF Kept
<1>4. Kept(h, g)  BY <1>2, <1>3, KeptStays
<1> HIDE DEF g
<1>5. \A x : Kept(h, fulfill(g, p, x))  BY <1>4, fulfillKeeps, KeptTrans DEF Kept
<1>6. settledAt(h, e, state, i, v) =
         IF g.enums[e].remaining = 0 THEN fulfill(g, p, g.enums[e].result) ELSE g
  BY DEF settledAt, g, a, b
<1> QED  BY <1>4, <1>5, <1>6

LEMMA eachEntryKeeps ==
  ASSUME NEW h, Shape(h), NEW e, NEW entry, NEW i
  PROVE  Kept(h, eachEntry(h, e, entry, i))
<1> DEFINE c == NewPromise(h)
           g == makePromise(h)
           k == handleMaybeThenable(g, c, entry)
<1>1. Kept(h, g)  BY OtherFields DEF makePromise
<1>2. Kept(h, k)  BY <1>1, resolveKeeps, KeptTrans DEF Kept
<1> HIDE DEF c, g, k
<1>3. Kept(h, willSettleAt(k, c, e, i))
  BY <1>2, subscribeKeeps, KeptTrans DEF Kept, willSettleAt
<1>4. Kept(h, [h EXCEPT !.enums[e].remaining = @ - 1, !.enums[e].result[i] = entry])
  BY DEF Kept, Shape
<1> QED  BY <1>3, <1>4, settledAtKeeps DEF eachEntry, c, g, k

LEMMA EnumeratorKeeps ==
  ASSUME NEW h, Shape(h), NEW entries
  PROVE  Kept(h, Enumerator(h, entries))
<1> DEFINE p == NewPromise(h)
           e == [promise |-> p, remaining |-> Len(entries),
                 result |-> [i \in DOMAIN entries |-> Undefined]]
           m == makePromise(h)
           g == [m EXCEPT !.enums = Append(@, e)]
<1>1. Kept(h, m)  BY OtherFields DEF makePromise
<1> HIDE DEF m
<1>2. Shape(m)  BY <1>1 DEF Kept
<1>3. Kept(m, g)  BY <1>2, OtherFields
<1>4. Kept(h, g)  BY <1>1, <1>3, KeptTrans
<1> HIDE DEF g
<1>5. Kept(h, fulfill(g, p, <<>>))  BY <1>4, fulfillKeeps, KeptTrans DEF Kept
<1> QED  BY <1>4, <1>5 DEF Enumerator, m, g

-----------------------------------------------------------------------------
(* Callbacks *)

LEMMA EffectKeeps ==
  ASSUME NEW h, Shape(h), NEW o
  PROVE  Kept(h, Effect(h, o))
BY KeptStays, resolveKeeps DEF Effect

LEMMA tryCatchKeeps ==
  ASSUME NEW h, Shape(h), NEW cb, NEW detail, NEW o
  PROVE  Kept(h, tryCatch(h, cb, detail, o).heap)
<1> DEFINE x == Effect(h, o)
           g == resolveStatic(x, o.value)
           repeat == [k |-> cb.then, v |-> detail]
<1>1. Kept(h, x)  BY EffectKeeps
<1> HIDE DEF x
<1>2. Kept(h, g)  BY <1>1, StaticKeeps, KeptTrans DEF Kept
<1> HIDE DEF g, repeat
<1>3. \A p : Kept(h, then(g, p, repeat, NoCallback))
  BY <1>2, thenKeeps, KeptTrans DEF Kept
<1>4. Kept(h, finally(x, o, repeat).heap)  BY <1>3 DEF finally, g
<1>5. /\ Kept(h, resolve(h, cb.promise, detail)) /\ Kept(h, reject(h, cb.promise, detail))
      /\ Kept(h, settledAt(h, cb.enum, cb.state, cb.i, detail))
  BY resolveKeeps, rejectKeeps, settledAtKeeps
<1> QED  BY <1>1, <1>4, <1>5, KeptStays DEF tryCatch, x, repeat

LEMMA invokeCallbackKeeps ==
  ASSUME NEW h, Shape(h), NEW settled, NEW child, NEW cb, NEW detail, NEW o
  PROVE  Kept(h, invokeCallback(h, settled, child, cb, detail, o))
<1> DEFINE r == tryCatch(h, cb, detail, o)
<1>1. CASE cb = NoCallback
  BY <1>1, fulfillKeeps, rejectKeeps DEF invokeCallback
<1>2. CASE cb # NoCallback
  <2>1. Kept(h, r.heap)  BY <1>2, tryCatchKeeps
  <2> HIDE DEF r
  <2>2. \A v : /\ Kept(h, reject(r.heap, child, v))
               /\ Kept(h, resolve(r.heap, child, v))
    BY <2>1, rejectKeeps, resolveKeeps, KeptTrans DEF Kept
  <2> QED  BY <1>2, <2>1, <2>2 DEF invokeCallback, r
<1> QED  BY <1>1, <1>2

LEMMA foreignCallKeeps ==
  ASSUME NEW h, Shape(h), NEW f, NEW c
  PROVE  Kept(h, foreignCall(h, f, c))
<1> DEFINE g == [h EXCEPT !.foreign[f].sealed = TRUE]
<1>1. Kept(h, g)  BY OtherFields
<1> HIDE DEF g
<1>2. \A p, v : Kept(h, reject(g, p, v)) /\ Kept(h, fulfill(g, p, v)) /\ Kept(h, resolve(g, p, v))
  BY <1>1, rejectKeeps, fulfillKeeps, resolveKeeps, KeptTrans DEF Kept
<1> QED  BY <1>2, KeptStays DEF foreignCall, g

-----------------------------------------------------------------------------
(* The steps *)

\* Every step of the library and of the program keeps what is settled.
LEMMA StepKeeps ==
  ASSUME Shape(heap), [Next]_vars
  PROVE  Kept(heap, heap')
<1>1. CASE FlushStart  BY <1>1, OtherFields, Zenon DEF FlushStart
<1>2. CASE RunPublish
  <2> DEFINE p == heap.queue[at].promise
             subs == heap.subscribers[p]
             s == subs[turn]
             cb == IF heap.state[p] = FULFILLED THEN s.ok ELSE s.err
             last == turn >= Len(subs)
  <2>1. CASE subs = <<>>  BY <1>2, <2>1, KeptStays DEF RunPublish
  <2>2. CASE subs # <<>>
    <3>1. PICK g :
            /\ \E o : \/ g = tryCatch(heap, cb, heap.result[p], o).heap
                     \/ g = invokeCallback(heap, heap.state[p], s.child, cb, heap.result[p], o)
            /\ heap' = IF last THEN [g EXCEPT !.subscribers[p] = <<>>] ELSE g
      BY <1>2, <2>2, Zenon DEF RunPublish
    <3> HIDE DEF p, subs, s, cb, last
    <3>2. Kept(heap, g)  BY <3>1, tryCatchKeeps, invokeCallbackKeeps
    <3>3. Shape(g)  BY <3>2 DEF Kept
    <3>4. Kept(g, [g EXCEPT !.subscribers[p] = <<>>])  BY <3>3, OtherFields
    <3> QED  BY <3>1, <3>2, <3>4, KeptTrans
  <2> QED  BY <2>1, <2>2
<1>3. CASE RunInvoke  BY <1>3, invokeCallbackKeeps DEF RunInvoke
<1>4. CASE RunForeign
  <2> DEFINE j == heap.queue[at]
             f == Len(heap.foreign) + 1
             g == [heap EXCEPT !.foreign = Append(@, [promise |-> j.promise,
                                     thenable |-> j.thenable, sealed |-> FALSE])]
  <2>1. Kept(heap, g)  BY OtherFields
  <2>2. heap' = g \/ \E c : heap' = foreignCall(g, f, c)  BY <1>4 DEF RunForeign
  <2> HIDE DEF g, f, j
  <2>3. \A c : Kept(heap, foreignCall(g, f, c))
    BY <2>1, foreignCallKeeps, KeptTrans DEF Kept
  <2> QED  BY <2>1, <2>2, <2>3
<1>5. CASE FlushEnd  BY <1>5, OtherFields DEF FlushEnd
<1>6. CASE EnumerateStep  BY <1>6, eachEntryKeeps DEF EnumerateStep
<1>7. CASE EnumerateEnd  BY <1>7, fulfillKeeps, KeptStays DEF EnumerateEnd
<1>8. CASE RaceStep
  <2>1. CASE loop.i > Len(loop.entries)  BY <1>8, <2>1, KeptStays DEF RaceStep
  <2>2. CASE ~(loop.i > Len(loop.entries))
    <3>1. PICK v, p, ok, err : heap' = then(resolveStatic(heap, v), p, ok, err)
      BY <1>8, <2>2 DEF RaceStep
    <3>2. Kept(heap, resolveStatic(heap, v))  BY StaticKeeps
    <3> QED  BY <3>1, <3>2, thenKeeps, KeptTrans DEF Kept
  <2> QED  BY <2>1, <2>2
<1>9. CASE Promise
  <2> DEFINE p == NewPromise(heap)
             m == makePromise(heap)
             g == [m EXCEPT !.deferred = @ \cup {p}]
  <2>1. heap' = g \/ \E r \in Reasons : heap' = reject(g, p, r)  BY <1>9 DEF Promise
  <2>2. Kept(heap, m)  BY OtherFields DEF makePromise
  <2>3. Shape(m)  BY <2>2 DEF Kept
  <2> HIDE DEF m
  <2>4. Kept(m, g)  BY <2>3, OtherFields
  <2>5. Kept(heap, g)  BY <2>2, <2>4, KeptTrans
  <2> HIDE DEF g
  <2>6. \A r : Kept(heap, reject(g, p, r))  BY <2>5, rejectKeeps, KeptTrans DEF Kept
  <2> QED  BY <2>1, <2>5, <2>6
<1>10. CASE Settle  BY <1>10, resolveKeeps, rejectKeeps DEF Settle
<1>11. CASE Adopt  BY <1>11, resolveKeeps DEF Adopt
<1>12. CASE Then \/ Finally  BY <1>12, thenKeeps DEF Then, Finally
<1>13. CASE Static  BY <1>13, StaticKeeps DEF Static
<1>14. CASE ForeignLate  BY <1>14, foreignCallKeeps DEF ForeignLate
<1>15. CASE all  BY <1>15, EnumeratorKeeps DEF all
<1>16. CASE race
  <2>1. heap' = makePromise(heap)  BY <1>16 DEF race
  <2>2. Kept(heap, makePromise(heap))  BY OtherFields DEF makePromise
  <2> QED  BY <2>1, <2>2
<1>17. CASE UNCHANGED vars  BY <1>17, KeptStays DEF vars
<1> QED
  BY <1>1, <1>2, <1>3, <1>4, <1>5, <1>6, <1>7, <1>8, <1>9, <1>10, <1>11, <1>12, <1>13,
     <1>14, <1>15, <1>16, <1>17 DEF Next, Library, Program

\* A state and a result belong to every promise, made or not.
THEOREM ShapeHolds == Spec => []Shape(heap)
<1>1. Init => Shape(heap)  BY DEF Init, Shape
<1>2. Shape(heap) /\ [Next]_vars => Shape(heap)'  BY StepKeeps DEF Kept
<1> QED  BY <1>1, <1>2, PTL DEF Spec

\* A promise settles once: its state and its value never change again, whoever
\* still holds its functions (the tests of _state in fulfill and reject).
THEOREM SettledOnceHolds == Spec => SettledOnce
<1> DEFINE Once == \A p \in Promises : heap.state[p] # PENDING =>
                      heap'.state[p] = heap.state[p] /\ heap'.result[p] = heap.result[p]
<1>1. Shape(heap) /\ [Next]_vars => [Once]_vars  BY StepKeeps DEF Kept
<1>2. Spec => [][Once]_vars  BY <1>1, ShapeHolds, PTL DEF Spec
<1> QED  BY <1>2 DEF SettledOnce

-----------------------------------------------------------------------------
(* What one call of the library does to the heap: nothing of the program's *)
(* is added, and whoever settles a promise with subscribers publishes it.  *)

LEMMA SeqFacts ==
  ASSUME NEW f, IsSeq(f)
  PROVE  /\ Len(f) \in Nat /\ DOMAIN f = 1 .. Len(f)
         /\ f = <<>> <=> DOMAIN f = {}
         /\ DOMAIN f = {} <=> Len(f) = 0
BY DEF IsSeq

LEMMA SeqAppend ==
  ASSUME NEW f, IsSeq(f), NEW e
  PROVE  /\ IsSeq(Append(f, e))
         /\ Len(f) \in Nat
         /\ DOMAIN f = 1 .. Len(f)
         /\ DOMAIN Append(f, e) = 1 .. Len(f) + 1
         /\ \A i \in 1 .. Len(f) : Append(f, e)[i] = f[i]
         /\ Append(f, e)[Len(f) + 1] = e
         /\ Len(Append(f, e)) = Len(f) + 1
<1>1. PICK S : f \in Seq(S)  BY DEF IsSeq
<1>2. f \in Seq(S \cup {e})  BY <1>1
<1>3. Append(f, e) \in Seq(S \cup {e})  BY <1>2
<1> QED  BY <1>2, <1>3 DEF IsSeq

LEMMA SeqExcept ==
  ASSUME NEW f, IsSeq(f), NEW i, NEW e
  PROVE  /\ IsSeq([f EXCEPT ![i] = e])
         /\ DOMAIN [f EXCEPT ![i] = e] = DOMAIN f
<1>1. PICK S : f \in Seq(S)  BY DEF IsSeq
<1>2. Len(f) \in Nat /\ f \in [1 .. Len(f) -> S]  BY <1>1
<1>3. [f EXCEPT ![i] = e] \in [1 .. Len(f) -> S \cup {e}]  BY <1>2
<1>4. [f EXCEPT ![i] = e] \in Seq(S \cup {e})  BY <1>2, <1>3
<1> QED  BY <1>2, <1>3, <1>4 DEF IsSeq

LEMMA AppendExtends ==
  ASSUME NEW f, IsSeq(f), NEW e
  PROVE  /\ Extends(f, Append(f, e))
         /\ DOMAIN Append(f, e) \ DOMAIN f = {Len(f) + 1}
         /\ Len(f) + 1 \in DOMAIN Append(f, e) /\ Len(f) + 1 \notin DOMAIN f
         /\ Append(f, e)[Len(f) + 1] = e
BY SeqAppend DEF Extends

LEMMA ExtendsLen ==
  ASSUME NEW f, NEW g, IsSeq(f), IsSeq(g), Extends(f, g)
  PROVE  Len(f) \in Nat /\ Len(g) \in Nat /\ Len(f) <= Len(g)
<1>1. Len(f) \in Nat /\ DOMAIN f = 1 .. Len(f) /\ Len(g) \in Nat /\ DOMAIN g = 1 .. Len(g)
  BY SeqFacts
<1>2. 1 .. Len(f) \subseteq 1 .. Len(g)  BY <1>1 DEF Extends
<1> QED  BY <1>1, <1>2

LEMMA ExtendsTrans ==
  ASSUME NEW f, NEW g, NEW k, Extends(f, g), Extends(g, k)
  PROVE  Extends(f, k)
BY DEF Extends

LEMMA ExtendsSame ==
  ASSUME NEW f
  PROVE  Extends(f, f)
BY DEF Extends

LEMMA CalmSame ==
  ASSUME NEW h, Typed(h)
  PROVE  Quietly(h, h, 0)
<1>1. Kept(h, h)  BY KeptStays DEF Typed
<1>2. NewSubscribers(h, h) /\ NewJobs(h, h) /\ Publishes(h, h)
  BY ExtendsSame DEF NewSubscribers, NewJobs, Publishes
<1>3. Cardinality(h.made) \in Nat  BY FS_CardinalityType DEF Typed, Made
<1> QED  BY <1>1, <1>2, <1>3 DEF Quietly, Calm, Steady, Makes

LEMMA CalmTrans ==
  ASSUME NEW h, NEW g, NEW k, Calm(h, g), Calm(g, k)
  PROVE  Calm(h, k)
<1>1. Kept(h, k)  BY KeptTrans DEF Calm
<1>2. NewSubscribers(h, k)
  <2> SUFFICES ASSUME NEW p \in Promises
               PROVE  /\ Extends(h.subscribers[p], k.subscribers[p])
                      /\ \A x \in DOMAIN k.subscribers[p] \ DOMAIN h.subscribers[p] :
                            ~Mine(k.subscribers[p][x].ok) /\ ~Mine(k.subscribers[p][x].err)
    BY DEF NewSubscribers
  <2>1. Extends(h.subscribers[p], g.subscribers[p]) /\ Extends(g.subscribers[p], k.subscribers[p])
    BY DEF Calm, NewSubscribers
  <2>2. \A x \in DOMAIN g.subscribers[p] \ DOMAIN h.subscribers[p] :
            ~Mine(g.subscribers[p][x].ok) /\ ~Mine(g.subscribers[p][x].err)
    BY DEF Calm, NewSubscribers
  <2>3. \A x \in DOMAIN k.subscribers[p] \ DOMAIN g.subscribers[p] :
            ~Mine(k.subscribers[p][x].ok) /\ ~Mine(k.subscribers[p][x].err)
    BY DEF Calm, NewSubscribers
  <2> QED  BY <2>1, <2>2, <2>3, ExtendsTrans DEF Extends
<1>3. NewJobs(h, g) /\ NewJobs(g, k)  BY DEF Calm
<1>4. NewJobs(h, k)
  <2>1. Extends(h.queue, k.queue)  BY <1>3, ExtendsTrans DEF NewJobs
  <2>2. \A q \in DOMAIN k.queue \ DOMAIN h.queue :
           k.queue[q].k = "invoke" => ~Mine(k.queue[q].callback)
    BY <1>3 DEF NewJobs, Extends
  <2> QED  BY <1>3, <2>1, <2>2 DEF NewJobs, Extends
<1>5. Publishes(h, k)
  <2> SUFFICES ASSUME NEW p \in Full(k), p \notin Full(h)
               PROVE  \E q \in DOMAIN k.queue \ DOMAIN h.queue : k.queue[q] = Publish(p)
    BY DEF Publishes
  <2>1. CASE p \in Full(g)
    <3>1. PICK q \in DOMAIN g.queue \ DOMAIN h.queue : g.queue[q] = Publish(p)
      BY <2>1 DEF Calm, Publishes
    <3> QED  BY <1>3, <3>1 DEF NewJobs, Extends
  <2>2. CASE p \notin Full(g)
    <3>1. PICK q \in DOMAIN k.queue \ DOMAIN g.queue : k.queue[q] = Publish(p)
      BY <2>2 DEF Calm, Publishes
    <3> QED  BY <1>3, <3>1 DEF NewJobs, Extends
  <2> QED  BY <2>1, <2>2
<1> QED  BY <1>1, <1>2, <1>4, <1>5 DEF Calm

LEMMA QuietTrans ==
  ASSUME NEW h, Typed(h), NEW g, NEW k, NEW m \in Nat, NEW n \in Nat,
         Quietly(h, g, m), Quietly(g, k, n)
  PROVE  Quietly(h, k, m + n)
<1>1. Calm(h, k)  BY CalmTrans DEF Quietly
<1>2. Steady(h, k)  BY DEF Quietly, Calm, Kept, Steady
<1>3. /\ Cardinality(h.made) \in Nat /\ Cardinality(g.made) \in Nat
      /\ Cardinality(k.made) \in Nat
  BY FS_CardinalityType DEF Quietly, Calm, Typed, Made
<1>4. Makes(h, k, m + n)  BY <1>3 DEF Quietly, Makes
<1> QED  BY <1>1, <1>2, <1>4 DEF Quietly

LEMMA QuietMore ==
  ASSUME NEW h, Typed(h), NEW g, NEW m \in Nat, NEW n \in Nat, m <= n, Quietly(h, g, m)
  PROVE  Quietly(h, g, n)
<1>1. Cardinality(h.made) \in Nat /\ Cardinality(g.made) \in Nat
  BY FS_CardinalityType DEF Quietly, Calm, Typed, Made
<1> QED  BY <1>1 DEF Quietly, Makes

-----------------------------------------------------------------------------
(* The steps that change one field or two                                  *)

\* Subscribers and jobs stay well-formed while enumerators are added and
\* promises are settled.
LEMMA StillOK ==
  ASSUME NEW h, NEW g, DOMAIN h.enums \subseteq DOMAIN g.enums
  PROVE  /\ \A cb : CallbackOK(h, cb) => CallbackOK(g, cb)
         /\ \A s : SubscriberOK(h, s) => SubscriberOK(g, s)
         /\ Kept(h, g) => \A j : JobOK(h, j) => JobOK(g, j)
<1>1. \A cb : CallbackOK(h, cb) => CallbackOK(g, cb)  BY DEF CallbackOK
<1>2. \A s : SubscriberOK(h, s) => SubscriberOK(g, s)  BY <1>1 DEF SubscriberOK
<1>3. Kept(h, g) => \A j : JobOK(h, j) => JobOK(g, j)  BY <1>1 DEF JobOK, Kept
<1> QED  BY <1>1, <1>2, <1>3

LEMMA asapFields ==
  ASSUME NEW h, HeapFields \subseteq DOMAIN h, IsSeq(h.queue), h.scheduled \in BOOLEAN, NEW job
  PROVE  /\ OthersSame(h, asap(h, job)) /\ Queued(h, asap(h, job), job)
         /\ asap(h, job).state = h.state /\ asap(h, job).result = h.result
         /\ asap(h, job).subscribers = h.subscribers
<1> DEFINE a == Append(h.queue, job)
           g == [h EXCEPT !.queue = a]
           k == [g EXCEPT !.scheduled = TRUE]
<1>1. Len(a) = Len(h.queue) + 1 /\ Len(h.queue) \in Nat /\ DOMAIN h.queue = 1 .. Len(h.queue)
  BY SeqAppend
<1> HIDE DEF a
<1>2. DOMAIN h.queue = {} => Len(a) = 1
  <2>1. DOMAIN h.queue = {} <=> Len(h.queue) = 0  BY SeqFacts
  <2> QED  BY <1>1, <2>1, SMTT(30)
<1>3. /\ HeapFields \subseteq DOMAIN g /\ g.queue = a /\ g.scheduled = h.scheduled
      /\ g.made = h.made /\ g.deferred = h.deferred /\ g.foreign = h.foreign
      /\ g.enums = h.enums /\ g.state = h.state /\ g.result = h.result
      /\ g.subscribers = h.subscribers
  BY DEF HeapFields
<1> HIDE DEF g
<1>4. /\ HeapFields \subseteq DOMAIN k /\ k.queue = g.queue /\ k.scheduled = TRUE
      /\ k.made = g.made /\ k.deferred = g.deferred /\ k.foreign = g.foreign
      /\ k.enums = g.enums /\ k.state = g.state /\ k.result = g.result
      /\ k.subscribers = g.subscribers
  BY <1>3 DEF HeapFields
<1> HIDE DEF k
<1>5. asap(h, job) = IF Len(a) = 1 THEN k ELSE g
  BY <1>3 DEF asap, ScheduleFlush, a, g, k
<1> QED  BY <1>2, <1>3, <1>4, <1>5 DEF OthersSame, Queued, a

LEMMA QueueFacts ==
  ASSUME NEW h, Typed(h), NEW g, NEW job, Kept(h, g), Queued(h, g, job),
         DOMAIN h.enums \subseteq DOMAIN g.enums, JobOK(g, job)
  PROVE  /\ Jobs(g) /\ Extends(h.queue, g.queue)
         /\ DOMAIN g.queue \ DOMAIN h.queue = {Len(h.queue) + 1}
         /\ Len(h.queue) + 1 \in DOMAIN g.queue /\ Len(h.queue) + 1 \notin DOMAIN h.queue
         /\ g.queue[Len(h.queue) + 1] = job
<1>1. IsSeq(h.queue) /\ \A q \in DOMAIN h.queue : JobOK(h, h.queue[q])  BY DEF Typed, Jobs
<1>2. g.queue = Append(h.queue, job)  BY DEF Queued
<1>3. IsSeq(g.queue)  BY <1>1, <1>2, SeqAppend
<1>4. /\ Extends(h.queue, g.queue) /\ DOMAIN g.queue \ DOMAIN h.queue = {Len(h.queue) + 1}
      /\ Len(h.queue) + 1 \in DOMAIN g.queue /\ Len(h.queue) + 1 \notin DOMAIN h.queue
      /\ g.queue[Len(h.queue) + 1] = job
  BY <1>1, <1>2, AppendExtends
<1>5. \A q \in DOMAIN g.queue : JobOK(g, g.queue[q])
  BY <1>1, <1>4, StillOK DEF Extends
<1> QED  BY <1>3, <1>4, <1>5 DEF Jobs

\* A job that is not a callback of the program's.
LEMMA QueueGrows ==
  ASSUME NEW h, Typed(h), NEW g, NEW job, Kept(h, g), Queued(h, g, job),
         DOMAIN h.enums \subseteq DOMAIN g.enums, JobOK(g, job),
         job.k = "invoke" => ~Mine(job.callback)
  PROVE  /\ Jobs(g) /\ NewJobs(h, g)
         /\ Len(h.queue) + 1 \in DOMAIN g.queue \ DOMAIN h.queue
         /\ g.queue[Len(h.queue) + 1] = job
<1>1. /\ Jobs(g) /\ Extends(h.queue, g.queue)
      /\ DOMAIN g.queue \ DOMAIN h.queue = {Len(h.queue) + 1}
      /\ Len(h.queue) + 1 \in DOMAIN g.queue /\ Len(h.queue) + 1 \notin DOMAIN h.queue
      /\ g.queue[Len(h.queue) + 1] = job
  BY QueueFacts
<1> QED  BY <1>1 DEF NewJobs, Queued

LEMMA QueueStays ==
  ASSUME NEW h, Typed(h), NEW g, Kept(h, g), QueueSame(h, g),
         DOMAIN h.enums \subseteq DOMAIN g.enums
  PROVE  Jobs(g) /\ NewJobs(h, g)
<1>1. NewJobs(h, g)  BY ExtendsSame DEF NewJobs, QueueSame
<1> QED  BY <1>1, StillOK DEF Jobs, QueueSame, Typed

\* A pending promise is settled: it is published unless it has no subscribers.
LEMMA SettleCalm ==
  ASSUME NEW h, Typed(h), NEW p \in Promises, h.state[p] = PENDING,
         NEW s \in {FULFILLED, REJECTED}, s # PENDING, NEW v, NEW g, OthersSame(h, g),
         g.state = [h.state EXCEPT ![p] = s], g.result = [h.result EXCEPT ![p] = v],
         g.subscribers = h.subscribers,
         Queued(h, g, Publish(p)) \/ (QueueSame(h, g) /\ DOMAIN h.subscribers[p] = {})
  PROVE  Quietly(h, g, 0)
<1>1. Kept(h, g)  BY DEF Typed, Kept, Shape, OthersSame, HeapFields
<1>2. DOMAIN h.enums \subseteq DOMAIN g.enums  BY DEF OthersSame
<1>3. g.state[p] = s  BY DEF Typed, Shape
<1>4. JobOK(g, Publish(p)) /\ Publish(p).k # "invoke"  BY <1>3 DEF JobOK, Publish
<1>5. Jobs(g) /\ NewJobs(h, g)
  <2>1. CASE Queued(h, g, Publish(p))  BY <2>1, <1>1, <1>2, <1>4, QueueGrows
  <2>2. CASE QueueSame(h, g)  BY <2>2, <1>1, <1>2, QueueStays
  <2> QED  BY <2>1, <2>2
<1>6. Publishes(h, g)
  <2>1. Full(g) \subseteq Full(h) \cup {p}  BY DEF Full, Typed, Shape
  <2>2. CASE Queued(h, g, Publish(p))
    BY <2>1, <2>2, <1>1, <1>2, <1>4, QueueGrows DEF Publishes
  <2>3. CASE DOMAIN h.subscribers[p] = {}  BY <2>1, <2>3 DEF Publishes, Full
  <2> QED  BY <2>2, <2>3
<1>7. Subscribers(g)
  <2>1. \A x : SubscriberOK(h, x) => SubscriberOK(g, x)  BY <1>2, StillOK
  <2> QED  BY <2>1 DEF Subscribers, Typed
<1>8. NewSubscribers(h, g) /\ Steady(h, g)  BY ExtendsSame DEF NewSubscribers, Steady
<1>9. Typed(g)
  BY <1>1, <1>5, <1>7 DEF Typed, Made, OthersSame, Kept, Queued, QueueSame
<1>10. Cardinality(h.made) \in Nat  BY FS_CardinalityType DEF Typed, Made
<1> QED
  BY <1>1, <1>5, <1>6, <1>8, <1>9, <1>10 DEF Quietly, Calm, Makes, OthersSame

LEMMA fulfillCalm ==
  ASSUME NEW h, Typed(h), NEW p \in Promises, NEW v
  PROVE  Quietly(h, fulfill(h, p, v), 0)
<1> DEFINE st == [h.state EXCEPT ![p] = FULFILLED]
           re == [h.result EXCEPT ![p] = v]
           f == [h EXCEPT !.state = st]
           g == [f EXCEPT !.result = re]
<1>1. CASE h.state[p] # PENDING  BY <1>1, CalmSame DEF fulfill
<1>2. CASE h.state[p] = PENDING
  <2>1. /\ HeapFields \subseteq DOMAIN f /\ f.state = st /\ f.result = h.result
        /\ f.subscribers = h.subscribers /\ f.queue = h.queue /\ f.scheduled = h.scheduled
        /\ OthersSame(h, f)
    BY DEF Typed, HeapFields, OthersSame
  <2> HIDE DEF f, st, re
  <2>2. /\ HeapFields \subseteq DOMAIN g /\ g.state = st /\ g.result = re
        /\ g.subscribers = h.subscribers /\ g.queue = h.queue /\ g.scheduled = h.scheduled
        /\ OthersSame(h, g)
    BY <2>1 DEF HeapFields, OthersSame
  <2>3. g = [h EXCEPT !.state[p] = FULFILLED, !.result[p] = v]  BY <2>1 DEF f, st, re
  <2> HIDE DEF g
  <2>4. fulfill(h, p, v) = IF h.subscribers[p] # <<>> THEN asap(g, Publish(p)) ELSE g
    BY <1>2, <2>3 DEF fulfill
  <2>5. DOMAIN h.subscribers[p] = {} <=> h.subscribers[p] = <<>>
    BY SeqFacts DEF Typed, Subscribers
  <2>6. FULFILLED # PENDING  BY DEF FULFILLED, PENDING
  <2>7. CASE h.subscribers[p] = <<>>
    <3>1. QueueSame(h, g) /\ DOMAIN h.subscribers[p] = {}  BY <2>2, <2>5, <2>7 DEF QueueSame
    <3>2. /\ OthersSame(h, g) /\ g.subscribers = h.subscribers
          /\ g.state = [h.state EXCEPT ![p] = FULFILLED] /\ g.result = [h.result EXCEPT ![p] = v]
      BY <2>2 DEF st, re
    <3>3. Quietly(h, g, 0)  BY <1>2, <2>6, <3>1, <3>2, SettleCalm
    <3> QED  BY <2>4, <2>7, <3>3
  <2>8. CASE h.subscribers[p] # <<>>
    <3> DEFINE k == asap(g, Publish(p))
    <3>1. /\ OthersSame(g, k) /\ Queued(g, k, Publish(p))
          /\ k.state = st /\ k.result = re /\ k.subscribers = h.subscribers
      BY <2>2, asapFields DEF Typed, Jobs
    <3> HIDE DEF k
    <3>2. OthersSame(h, k) /\ Queued(h, k, Publish(p))
      BY <2>2, <3>1 DEF OthersSame, Queued
    <3>3. Quietly(h, k, 0)  BY <1>2, <2>6, <3>1, <3>2, SettleCalm DEF st, re
    <3> QED  BY <2>4, <2>8, <3>3 DEF k
  <2> QED  BY <2>7, <2>8
<1> QED  BY <1>1, <1>2

LEMMA rejectCalm ==
  ASSUME NEW h, Typed(h), NEW p \in Promises, NEW r
  PROVE  Quietly(h, reject(h, p, r), 0)
<1> DEFINE st == [h.state EXCEPT ![p] = REJECTED]
           re == [h.result EXCEPT ![p] = r]
           f == [h EXCEPT !.state = st]
           g == [f EXCEPT !.result = re]
           k == asap(g, Publish(p))
<1>1. CASE h.state[p] # PENDING  BY <1>1, CalmSame DEF reject
<1>2. CASE h.state[p] = PENDING
  <2>1. /\ HeapFields \subseteq DOMAIN f /\ f.state = st /\ f.result = h.result
        /\ f.subscribers = h.subscribers /\ f.queue = h.queue /\ f.scheduled = h.scheduled
        /\ OthersSame(h, f)
    BY DEF Typed, HeapFields, OthersSame
  <2> HIDE DEF f, st, re
  <2>2. /\ HeapFields \subseteq DOMAIN g /\ g.state = st /\ g.result = re
        /\ g.subscribers = h.subscribers /\ g.queue = h.queue /\ g.scheduled = h.scheduled
        /\ OthersSame(h, g)
    BY <2>1 DEF HeapFields, OthersSame
  <2>3. g = [h EXCEPT !.state[p] = REJECTED, !.result[p] = r]  BY <2>1 DEF f, st, re
  <2> HIDE DEF g
  <2>4. reject(h, p, r) = k  BY <1>2, <2>3 DEF reject
  <2>5. REJECTED # PENDING  BY DEF REJECTED, PENDING
  <2>6. /\ OthersSame(g, k) /\ Queued(g, k, Publish(p))
        /\ k.state = st /\ k.result = re /\ k.subscribers = h.subscribers
    BY <2>2, asapFields DEF Typed, Jobs
  <2> HIDE DEF k
  <2>7. OthersSame(h, k) /\ Queued(h, k, Publish(p))
    BY <2>2, <2>6 DEF OthersSame, Queued
  <2> QED  BY <1>2, <2>4, <2>5, <2>6, <2>7, SettleCalm DEF st, re
<1> QED  BY <1>1, <1>2

\* Any job that is not a callback of the program's may be queued.
LEMMA asapCalm ==
  ASSUME NEW h, Typed(h), NEW job, JobOK(h, job), job.k = "invoke" => ~Mine(job.callback)
  PROVE  Quietly(h, asap(h, job), 0)
<1> DEFINE g == asap(h, job)
<1>1. /\ OthersSame(h, g) /\ Queued(h, g, job) /\ g.state = h.state /\ g.result = h.result
      /\ g.subscribers = h.subscribers
  BY asapFields DEF Typed, Jobs
<1> HIDE DEF g
<1>2. Kept(h, g)  BY <1>1 DEF Typed, Kept, Shape, OthersSame, HeapFields
<1>3. DOMAIN h.enums \subseteq DOMAIN g.enums  BY <1>1 DEF OthersSame
<1>4. Jobs(g) /\ NewJobs(h, g)
  <2>1. JobOK(g, job)  BY <1>2, <1>3, StillOK
  <2> QED  BY <2>1, <1>1, <1>2, <1>3, QueueGrows
<1>5. Subscribers(g)
  <2>1. \A x : SubscriberOK(h, x) => SubscriberOK(g, x)  BY <1>3, StillOK
  <2> QED  BY <2>1, <1>1 DEF Subscribers, Typed
<1>6. NewSubscribers(h, g) /\ Steady(h, g) /\ Publishes(h, g)
  BY <1>1, ExtendsSame DEF NewSubscribers, Steady, Publishes, Full
<1>7. Typed(g)  BY <1>1, <1>2, <1>4, <1>5 DEF Typed, Made, OthersSame, Kept, Queued
<1>8. Cardinality(h.made) \in Nat  BY FS_CardinalityType DEF Typed, Made
<1> QED  BY <1>1, <1>2, <1>4, <1>6, <1>7, <1>8 DEF Quietly, Calm, Makes, OthersSame, g

LEMMA SubscribedFacts ==
  ASSUME NEW h, Typed(h), NEW p \in Promises, NEW s, SubscriberOK(h, s), NEW g,
         Subscribed(h, g, p, s)
  PROVE  /\ Typed(g) /\ Kept(h, g) /\ NewJobs(h, g) /\ Publishes(h, g)
         /\ \A q \in Promises : Extends(h.subscribers[q], g.subscribers[q])
         /\ \A q \in Promises : q # p => g.subscribers[q] = h.subscribers[q]
         /\ DOMAIN g.subscribers[p] \ DOMAIN h.subscribers[p] = {Len(h.subscribers[p]) + 1}
         /\ g.subscribers[p][Len(h.subscribers[p]) + 1] = s
<1>0. /\ OthersSame(h, g) /\ g.state = h.state /\ g.result = h.result
      /\ g.subscribers = [h.subscribers EXCEPT ![p] = Append(h.subscribers[p], s)]
      /\ \/ QueueSame(h, g) /\ (h.state[p] = PENDING \/ DOMAIN h.subscribers[p] # {})
         \/ Queued(h, g, Publish(p)) /\ h.state[p] # PENDING
  BY DEF Subscribed
<1>1. Kept(h, g)  BY <1>0 DEF Typed, Kept, Shape, OthersSame, HeapFields
<1>2. DOMAIN h.enums \subseteq DOMAIN g.enums  BY <1>0 DEF OthersSame
<1>3. JobOK(g, Publish(p)) \/ h.state[p] = PENDING  BY <1>0 DEF JobOK, Publish
<1>4. Publish(p).k # "invoke"  BY DEF Publish
<1>5. Jobs(g) /\ NewJobs(h, g)
  <2>1. CASE Queued(h, g, Publish(p)) /\ h.state[p] # PENDING
    BY <2>1, <1>1, <1>2, <1>3, <1>4, QueueGrows
  <2>2. CASE QueueSame(h, g)  BY <2>2, <1>1, <1>2, QueueStays
  <2> QED  BY <1>0, <2>1, <2>2
<1>6. IsSeq(h.subscribers[p])  BY DEF Typed, Subscribers
<1>7. g.subscribers[p] = Append(h.subscribers[p], s)  BY <1>0 DEF Typed, Subscribers
<1>8. \A q \in Promises : q # p => g.subscribers[q] = h.subscribers[q]
  BY <1>0 DEF Typed, Subscribers
<1>9. /\ IsSeq(g.subscribers[p]) /\ Extends(h.subscribers[p], g.subscribers[p])
      /\ DOMAIN g.subscribers[p] \ DOMAIN h.subscribers[p] = {Len(h.subscribers[p]) + 1}
      /\ g.subscribers[p][Len(h.subscribers[p]) + 1] = s
  BY <1>6, <1>7, SeqAppend, AppendExtends
<1>10. \A q \in Promises : Extends(h.subscribers[q], g.subscribers[q])
  BY <1>8, <1>9, ExtendsSame
<1>11. Publishes(h, g)
  <2>1. Full(g) \subseteq Full(h) \cup {p}  BY <1>0, <1>8 DEF Full
  <2>2. CASE Queued(h, g, Publish(p)) /\ h.state[p] # PENDING
    <3>1. /\ Len(h.queue) + 1 \in DOMAIN g.queue \ DOMAIN h.queue
          /\ g.queue[Len(h.queue) + 1] = Publish(p)
      BY <2>2, <1>1, <1>2, <1>3, <1>4, QueueGrows
    <3> QED  BY <2>1, <3>1 DEF Publishes
  <2>3. CASE h.state[p] = PENDING \/ DOMAIN h.subscribers[p] # {}
    BY <1>0, <2>1, <2>3 DEF Publishes, Full
  <2> QED  BY <1>0, <2>2, <2>3
<1>12. Subscribers(g)
  <2>1. \A x : SubscriberOK(h, x) => SubscriberOK(g, x)  BY <1>2, StillOK
  <2>2. \A k \in DOMAIN g.subscribers[p] : SubscriberOK(g, g.subscribers[p][k])
    <3> SUFFICES ASSUME NEW k \in DOMAIN g.subscribers[p] PROVE SubscriberOK(h, g.subscribers[p][k])
      BY <2>1
    <3>1. CASE k \in DOMAIN h.subscribers[p]
      BY <3>1, <1>9 DEF Extends, Typed, Subscribers
    <3> QED  BY <3>1, <1>9
  <2>3. \A q \in Promises : q # p =>
           IsSeq(g.subscribers[q]) /\ \A k \in DOMAIN g.subscribers[q] : SubscriberOK(g, g.subscribers[q][k])
    BY <2>1, <1>8 DEF Typed, Subscribers
  <2>4. g.subscribers = [q \in Promises |-> g.subscribers[q]]  BY <1>0 DEF Typed, Subscribers
  <2> QED  BY <2>2, <2>3, <2>4, <1>9 DEF Subscribers
<1>13. Typed(g)
  BY <1>0, <1>1, <1>5, <1>12 DEF Typed, Made, OthersSame, Kept, Queued, QueueSame
<1> QED  BY <1>1, <1>5, <1>8, <1>9, <1>10, <1>11, <1>13

LEMMA subscribeFields ==
  ASSUME NEW h, Typed(h), NEW p \in Promises, NEW child, NEW ok, NEW err
  PROVE  LET s == [child |-> child, ok |-> ok, err |-> err]
             g == subscribe(h, p, child, ok, err)
         IN  Subscribed(h, g, p, s)
<1> DEFINE s == [child |-> child, ok |-> ok, err |-> err]
           f == [h.subscribers EXCEPT ![p] = Append(h.subscribers[p], s)]
           k == [h EXCEPT !.subscribers = f]
           a == asap(k, Publish(p))
<1> HIDE DEF s
<1>1. /\ OthersSame(h, k) /\ QueueSame(h, k) /\ k.state = h.state /\ k.result = h.result
      /\ k.subscribers = f /\ HeapFields \subseteq DOMAIN k
  <2> HIDE DEF f
  <2> QED  BY DEF Typed, HeapFields, OthersSame, QueueSame
<1>2. k = [h EXCEPT !.subscribers[p] = Append(@, s)]  OBVIOUS
<1> HIDE DEF k, f
<1>3. /\ OthersSame(k, a) /\ Queued(k, a, Publish(p)) /\ a.state = k.state /\ a.result = k.result
      /\ a.subscribers = k.subscribers
  BY <1>1, asapFields DEF QueueSame, Typed, Jobs
<1>4. subscribe(h, p, child, ok, err) =
         IF h.subscribers[p] = <<>> /\ h.state[p] # PENDING THEN a ELSE k
  BY <1>2 DEF subscribe, s
<1>5. h.subscribers[p] = <<>> <=> DOMAIN h.subscribers[p] = {}
  BY SeqFacts DEF Typed, Subscribers
<1> HIDE DEF a
<1>6. CASE h.subscribers[p] = <<>> /\ h.state[p] # PENDING
  <2>1. OthersSame(h, a) /\ Queued(h, a, Publish(p))
    BY <1>1, <1>3 DEF OthersSame, Queued, QueueSame
  <2> QED  BY <2>1, <1>1, <1>3, <1>4, <1>6 DEF f, s, Subscribed
<1>7. CASE ~(h.subscribers[p] = <<>> /\ h.state[p] # PENDING)
  BY <1>1, <1>4, <1>5, <1>7 DEF f, s, Subscribed
<1> QED  BY <1>6, <1>7

\* The library subscribes for itself.
LEMMA subscribeCalm ==
  ASSUME NEW h, Typed(h), NEW p \in Promises, NEW child, NEW ok, NEW err,
         SubscriberOK(h, [child |-> child, ok |-> ok, err |-> err]), ~Mine(ok), ~Mine(err)
  PROVE  LET g == subscribe(h, p, child, ok, err)
         IN  Calm(h, g) /\ Makes(h, g, 0) /\ (h.state[p] = PENDING => Steady(h, g))
<1> DEFINE s == [child |-> child, ok |-> ok, err |-> err]
           g == subscribe(h, p, child, ok, err)
<1>1. s.ok = ok /\ s.err = err  OBVIOUS
<1>2. Subscribed(h, g, p, s)  BY subscribeFields
<1> HIDE DEF s, g
<1>3. SubscriberOK(h, s)  BY DEF s
<1>4. /\ Typed(g) /\ Kept(h, g) /\ NewJobs(h, g) /\ Publishes(h, g)
      /\ \A q \in Promises : Extends(h.subscribers[q], g.subscribers[q])
      /\ \A q \in Promises : q # p => g.subscribers[q] = h.subscribers[q]
      /\ DOMAIN g.subscribers[p] \ DOMAIN h.subscribers[p] = {Len(h.subscribers[p]) + 1}
      /\ g.subscribers[p][Len(h.subscribers[p]) + 1] = s
  BY <1>2, <1>3, SubscribedFacts
<1>5. NewSubscribers(h, g)
  <2> SUFFICES ASSUME NEW q \in Promises, NEW k \in DOMAIN g.subscribers[q] \ DOMAIN h.subscribers[q]
               PROVE  g.subscribers[q][k] = s
    BY <1>1, <1>4 DEF NewSubscribers
  <2> QED  BY <1>4
<1>6. h.state[p] = PENDING => Steady(h, g)  BY <1>4 DEF Steady
<1>7. Cardinality(h.made) \in Nat  BY FS_CardinalityType DEF Typed, Made
<1>8. Calm(h, g) /\ Makes(h, g, 0)  BY <1>2, <1>4, <1>5, <1>7 DEF Calm, Makes, OthersSame, Subscribed
<1> QED  BY <1>6, <1>8 DEF g

-----------------------------------------------------------------------------
(* Resolving *)

LEMMA SettlingCallbacks ==
  ASSUME NEW h, NEW p \in Promises
  PROVE  /\ CallbackOK(h, [k |-> "resolve", promise |-> p])
         /\ CallbackOK(h, [k |-> "reject", promise |-> p])
         /\ ~Mine([k |-> "resolve", promise |-> p]) /\ ~Mine([k |-> "reject", promise |-> p])
         /\ SubscriberOK(h, [child |-> NoChild, ok |-> [k |-> "resolve", promise |-> p],
                             err |-> [k |-> "reject", promise |-> p]])
<1>1. /\ CallbackOK(h, [k |-> "resolve", promise |-> p])
      /\ CallbackOK(h, [k |-> "reject", promise |-> p])
      /\ ~Mine([k |-> "resolve", promise |-> p]) /\ ~Mine([k |-> "reject", promise |-> p])
      /\ Silent([k |-> "resolve", promise |-> p]) /\ Silent([k |-> "reject", promise |-> p])
  BY DEF CallbackOK, Mine, Silent
<1> QED  BY <1>1 DEF SubscriberOK

LEMMA resolveCalm ==
  ASSUME NEW h, Typed(h), NEW p \in Promises, NEW v
  PROVE  /\ Quietly(h, handleMaybeThenable(h, p, v), 0)
         /\ Quietly(h, resolve(h, p, v), 0)
<1>1. ASSUME NEW q \in Promises PROVE Quietly(h, handleOwnThenable(h, p, q), 0)
  <2>1. CASE h.state[q] = PENDING
    <3>1. Quietly(h, subscribe(h, q, NoChild, [k |-> "resolve", promise |-> p],
                                              [k |-> "reject", promise |-> p]), 0)
      BY <2>1, subscribeCalm, SettlingCallbacks DEF Quietly
    <3>2. h.state[q] # FULFILLED /\ h.state[q] # REJECTED
      BY <2>1 DEF PENDING, FULFILLED, REJECTED
    <3> QED  BY <3>1, <3>2 DEF handleOwnThenable
  <2>2. CASE h.state[q] = FULFILLED
    <3>1. Quietly(h, fulfill(h, p, h.result[q]), 0)  BY fulfillCalm
    <3>2. h.state[q] # REJECTED  BY <2>2 DEF FULFILLED, REJECTED
    <3> QED  BY <2>2, <3>1, <3>2, Zenon DEF handleOwnThenable
  <2>3. CASE h.state[q] = REJECTED
    <3>1. Quietly(h, reject(h, p, h.result[q]), 0)  BY rejectCalm
    <3>2. h.state[q] # FULFILLED  BY <2>3 DEF FULFILLED, REJECTED
    <3> QED  BY <2>3, <3>1, <3>2, Zenon DEF handleOwnThenable
  <2> QED  BY <2>1, <2>2, <2>3 DEF Typed
<1>2. Quietly(h, handleForeignThenable(h, p, v), 0)
  BY asapCalm DEF handleForeignThenable, JobOK
<1>3. Quietly(h, handleMaybeThenable(h, p, v), 0)
  BY <1>1, <1>2, rejectCalm DEF handleMaybeThenable
<1> QED  BY <1>3, fulfillCalm, rejectCalm DEF resolve

-----------------------------------------------------------------------------
(* New promises                                                            *)

LEMMA RoomLeft ==
  ASSUME NEW h, Typed(h), NEW g, Typed(g), NEW m \in Nat, NEW n \in Nat,
         Room(h, m + n), Makes(h, g, m)
  PROVE  Room(g, n)
<1>1. Cardinality(h.made) \in Nat /\ Cardinality(g.made) \in Nat
  BY FS_CardinalityType DEF Typed, Made
<1>2. IsFiniteSet(Promises) => Cardinality(Promises) \in Nat  BY FS_CardinalityType
<1> QED  BY <1>1, <1>2 DEF Room, Makes

LEMMA RoomLess ==
  ASSUME NEW h, Typed(h), NEW m \in Nat, NEW n \in Nat, n <= m, Room(h, m)
  PROVE  Room(h, n)
<1>1. Cardinality(h.made) \in Nat  BY FS_CardinalityType DEF Typed, Made
<1>2. IsFiniteSet(Promises) => Cardinality(Promises) \in Nat  BY FS_CardinalityType
<1> QED  BY <1>1, <1>2 DEF Room

\* While there is room, a new promise is one that nobody has.
LEMMA NewPromiseFresh ==
  ASSUME NEW h, Typed(h), Room(h, 1)
  PROVE  NewPromise(h) \in Promises /\ NewPromise(h) \notin h.made
<1>1. IsFiniteSet(h.made) /\ h.made \subseteq Promises  BY DEF Typed, Made
<1>2. Promises # h.made
  <2> SUFFICES ASSUME Promises = h.made PROVE FALSE  OBVIOUS
  <2>1. Cardinality(Promises) + 1 <= Cardinality(Promises)  BY <1>1 DEF Room
  <2>2. Cardinality(Promises) \in Nat  BY <1>1, FS_CardinalityType
  <2> QED  BY <2>1, <2>2
<1>3. \E p : p \in Unmade(h)  BY <1>1, <1>2 DEF Unmade
<1> QED  BY <1>3 DEF NewPromise, Unmade

LEMMA makeFields ==
  ASSUME NEW h, Typed(h)
  PROVE  LET g == makePromise(h)
         IN  /\ HeapFields \subseteq DOMAIN g
             /\ g.made = h.made \cup {NewPromise(h)} /\ g.deferred = h.deferred
             /\ g.foreign = h.foreign /\ g.enums = h.enums /\ g.state = h.state
             /\ g.result = h.result /\ g.subscribers = h.subscribers /\ QueueSame(h, g)
BY DEF makePromise, Typed, HeapFields, QueueSame

\* Fields that say nothing of callbacks change: Typed and the rest follow.
LEMMA SameCalm ==
  ASSUME NEW h, Typed(h), NEW g, HeapFields \subseteq DOMAIN g,
         g.state = h.state, g.result = h.result, g.subscribers = h.subscribers,
         QueueSame(h, g), Made(g), h.made \subseteq g.made, Stands(g.foreign), Stands(g.enums),
         DOMAIN h.enums \subseteq DOMAIN g.enums
  PROVE  Calm(h, g) /\ Steady(h, g)
<1>1. Kept(h, g)  BY DEF Typed, Kept, Shape, HeapFields
<1>2. Jobs(g) /\ NewJobs(h, g)  BY <1>1, QueueStays
<1>3. Subscribers(g)
  <2>1. \A x : SubscriberOK(h, x) => SubscriberOK(g, x)  BY StillOK
  <2> QED  BY <2>1 DEF Subscribers, Typed
<1>4. NewSubscribers(h, g) /\ Steady(h, g) /\ Publishes(h, g)
  BY ExtendsSame DEF NewSubscribers, Steady, Publishes, Full
<1>5. Typed(g)  BY <1>1, <1>2, <1>3 DEF Typed, Kept, QueueSame
<1> QED  BY <1>1, <1>2, <1>4, <1>5 DEF Calm

LEMMA makeCalm ==
  ASSUME NEW h, Typed(h), Room(h, 1)
  PROVE  Quietly(h, makePromise(h), 1)
<1> DEFINE g == makePromise(h)
<1>1. NewPromise(h) \in Promises  BY NewPromiseFresh
<1>2. /\ HeapFields \subseteq DOMAIN g
      /\ g.made = h.made \cup {NewPromise(h)} /\ g.deferred = h.deferred
      /\ g.foreign = h.foreign /\ g.enums = h.enums /\ g.state = h.state
      /\ g.result = h.result /\ g.subscribers = h.subscribers /\ QueueSame(h, g)
  BY makeFields
<1> HIDE DEF g
<1>3. IsFiniteSet(h.made) /\ Cardinality(h.made) \in Nat  BY FS_CardinalityType DEF Typed, Made
<1>4. /\ IsFiniteSet(g.made)
      /\ Cardinality(g.made) = IF NewPromise(h) \in h.made THEN Cardinality(h.made)
                               ELSE Cardinality(h.made) + 1
  BY <1>2, <1>3, FS_AddElement
<1>5. Made(g)  BY <1>1, <1>2, <1>4 DEF Made, Typed
<1>6. h.made \subseteq g.made  BY <1>2
<1>7. Calm(h, g) /\ Steady(h, g)  BY <1>2, <1>5, <1>6, SameCalm DEF Typed
<1>8. Makes(h, g, 1)  BY <1>2, <1>3, <1>4 DEF Makes
<1> QED  BY <1>7, <1>8 DEF Quietly, g

\* then with callbacks of the library's own.
LEMMA thenCalm ==
  ASSUME NEW h, Typed(h), Room(h, 1), NEW p \in Promises, NEW ok, NEW err,
         CallbackOK(h, ok), CallbackOK(h, err), ~Mine(ok), ~Mine(err)
  PROVE  Quietly(h, then(h, p, ok, err), 1)
<1> DEFINE c == NewPromise(h)
           g == makePromise(h)
           job == [k |-> "invoke", settled |-> h.state[p], child |-> c,
                   callback |-> IF h.state[p] = FULFILLED THEN ok ELSE err,
                   detail |-> h.result[p]]
<1>1. Quietly(h, g, 1) /\ Typed(g)  BY makeCalm DEF Quietly, Calm
<1>2. c \in Promises  BY NewPromiseFresh
<1>3. g.state = h.state /\ g.enums = h.enums  BY makeFields
<1>4. CallbackOK(g, ok) /\ CallbackOK(g, err)  BY <1>3, StillOK
<1>5. SubscriberOK(g, [child |-> c, ok |-> ok, err |-> err])
  BY <1>2, <1>4 DEF SubscriberOK
<1>6. JobOK(g, job) /\ ~Mine(job.callback)  BY <1>2, <1>4 DEF JobOK
<1>7. then(h, p, ok, err) = IF h.state[p] = PENDING THEN subscribe(g, p, c, ok, err) ELSE asap(g, job)
  BY DEF then
<1> HIDE DEF c, g, job
<1>8. h.state[p] = PENDING => Quietly(g, subscribe(g, p, c, ok, err), 0)
  BY <1>1, <1>3, <1>5, subscribeCalm DEF Quietly
<1>9. Quietly(g, asap(g, job), 0)  BY <1>1, <1>6, asapCalm
<1>10. Quietly(g, then(h, p, ok, err), 0)  BY <1>7, <1>8, <1>9
<1>11. Quietly(h, then(h, p, ok, err), 1 + 0)  BY <1>1, <1>10, QuietTrans
<1> QED  BY <1>11

LEMMA StaticCalm ==
  ASSUME NEW h, Typed(h), Room(h, 1), NEW v
  PROVE  /\ Quietly(h, resolveStatic(h, v), IF v \in Promises THEN 0 ELSE 1)
         /\ Quietly(h, rejectStatic(h, v), 1)
         /\ resolved(h, v) \in Promises
<1> DEFINE g == makePromise(h)
<1>1. NewPromise(h) \in Promises  BY NewPromiseFresh
<1>2. Quietly(h, g, 1) /\ Typed(g)  BY makeCalm DEF Quietly, Calm
<1> HIDE DEF g
<1>3. Quietly(g, resolve(g, NewPromise(h), v), 0) /\ Quietly(g, reject(g, NewPromise(h), v), 0)
  BY <1>1, <1>2, resolveCalm, rejectCalm
<1>4. Quietly(h, resolve(g, NewPromise(h), v), 1 + 0) /\ Quietly(h, reject(g, NewPromise(h), v), 1 + 0)
  BY <1>2, <1>3, QuietTrans
<1>5. Quietly(h, resolve(g, NewPromise(h), v), 1) /\ Quietly(h, reject(g, NewPromise(h), v), 1)
  BY <1>4
<1>6. Quietly(h, h, 0)  BY CalmSame
<1> QED  BY <1>1, <1>5, <1>6 DEF resolveStatic, rejectStatic, resolved, g

-----------------------------------------------------------------------------
(* Enumerators                                                             *)

LEMMA EnumsCalm ==
  ASSUME NEW h, Typed(h), NEW x, Stands(x), DOMAIN h.enums \subseteq DOMAIN x
  PROVE  /\ Quietly(h, [h EXCEPT !.enums = x], 0)
         /\ [h EXCEPT !.enums = x].enums = x
         /\ [h EXCEPT !.enums = x].made = h.made
<1> DEFINE g == [h EXCEPT !.enums = x]
<1>1. /\ HeapFields \subseteq DOMAIN g /\ g.state = h.state /\ g.result = h.result
      /\ g.subscribers = h.subscribers /\ QueueSame(h, g) /\ g.made = h.made
      /\ g.deferred = h.deferred /\ g.foreign = h.foreign /\ g.enums = x
  BY DEF Typed, HeapFields, QueueSame
<1> HIDE DEF g
<1>2. Made(g) /\ Stands(g.foreign)  BY <1>1 DEF Typed, Made
<1>3. Calm(h, g) /\ Steady(h, g)  BY <1>1, <1>2, SameCalm
<1>4. Cardinality(h.made) \in Nat  BY FS_CardinalityType DEF Typed, Made
<1>5. Makes(h, g, 0)  BY <1>1, <1>4 DEF Makes
<1> QED  BY <1>1, <1>3, <1>5 DEF Quietly, g

LEMMA EntryCalm ==
  ASSUME NEW h, Typed(h), NEW e \in DOMAIN h.enums, NEW y,
         "promise" \in DOMAIN y, y.promise \in Promises
  PROVE  Quietly(h, [h EXCEPT !.enums[e] = y], 0)
<1> DEFINE x == [h.enums EXCEPT ![e] = y]
<1>1. IsSeq(x) /\ DOMAIN x = DOMAIN h.enums  BY SeqExcept DEF Typed, Stands
<1>2. Stands(x)  BY <1>1 DEF Typed, Stands
<1> HIDE DEF x
<1>3. Quietly(h, [h EXCEPT !.enums = x], 0)  BY <1>1, <1>2, EnumsCalm
<1> QED  BY <1>3 DEF x

LEMMA settledAtCalm ==
  ASSUME NEW h, Typed(h), NEW e \in DOMAIN h.enums, NEW state, NEW i, NEW v
  PROVE  Quietly(h, settledAt(h, e, state, i, v), 0)
<1> DEFINE p == h.enums[e].promise
           left == h.enums[e].remaining - 1
           y == [h.enums[e] EXCEPT !.remaining = left]
           a == [h EXCEPT !.enums[e].remaining = left]
           z == [a.enums[e] EXCEPT !.result[i] = v]
           b == [h EXCEPT !.enums[e].remaining = left, !.enums[e].result[i] = v]
           g == IF h.state[p] # PENDING THEN h
                ELSE IF state = REJECTED THEN reject(a, p, v) ELSE b
<1>1. "promise" \in DOMAIN h.enums[e] /\ p \in Promises  BY DEF Typed, Stands
<1>2. "promise" \in DOMAIN y /\ y.promise = p  BY <1>1
<1>3. a = [h EXCEPT !.enums[e] = y] /\ b = [a EXCEPT !.enums[e] = z]  OBVIOUS
<1> HIDE DEF p, y, a, b
<1>4. Quietly(h, a, 0) /\ Quietly(h, b, 0)
  <2>1. Quietly(h, a, 0) /\ Typed(a) /\ e \in DOMAIN a.enums
    BY <1>1, <1>2, <1>3, EntryCalm DEF Quietly, Calm
  <2>2. "promise" \in DOMAIN a.enums[e] /\ a.enums[e].promise \in Promises
    BY <2>1 DEF Typed, Stands
  <2>3. "promise" \in DOMAIN z /\ z.promise \in Promises  BY <2>2
  <2> HIDE DEF z
  <2>4. Quietly(a, b, 0)  BY <1>3, <2>1, <2>3, EntryCalm
  <2>5. Quietly(h, b, 0 + 0)  BY <2>1, <2>4, QuietTrans
  <2> QED  BY <2>1, <2>5
<1> HIDE DEF z
<1>5. Quietly(a, reject(a, p, v), 0)  BY <1>1, <1>4, rejectCalm DEF Quietly, Calm
<1>6. Quietly(h, reject(a, p, v), 0 + 0)  BY <1>4, <1>5, QuietTrans
<1>7. Quietly(h, g, 0)  BY <1>4, <1>6, CalmSame
<1> HIDE DEF g
<1>8. \A x : Quietly(g, fulfill(g, p, x), 0)  BY <1>1, <1>7, fulfillCalm DEF Quietly, Calm
<1>9. \A x : Quietly(h, fulfill(g, p, x), 0 + 0)  BY <1>7, <1>8, QuietTrans
<1>10. settledAt(h, e, state, i, v) =
          IF g.enums[e].remaining = 0 THEN fulfill(g, p, g.enums[e].result) ELSE g
  BY DEF settledAt, g, p, a, b
<1> QED  BY <1>7, <1>9, <1>10

LEMMA eachEntryCalm ==
  ASSUME NEW h, Typed(h), Room(h, 1), NEW e \in DOMAIN h.enums, NEW entry, NEW i
  PROVE  Calm(h, eachEntry(h, e, entry, i)) /\ Makes(h, eachEntry(h, e, entry, i), 1)
<1> DEFINE c == NewPromise(h)
           g == makePromise(h)
           k == handleMaybeThenable(g, c, entry)
           ok == [k |-> "settledAt", enum |-> e, state |-> FULFILLED, i |-> i]
           err == [k |-> "settledAt", enum |-> e, state |-> REJECTED, i |-> i]
           w == willSettleAt(k, c, e, i)
           b == [h EXCEPT !.enums[e].remaining = @ - 1, !.enums[e].result[i] = entry]
           y == [h.enums[e] EXCEPT !.remaining = @ - 1]
           a == [h EXCEPT !.enums[e].remaining = @ - 1]
           z == [a.enums[e] EXCEPT !.result[i] = entry]
<1>1. c \in Promises  BY NewPromiseFresh
<1>2. Quietly(h, g, 1) /\ Typed(g)  BY makeCalm DEF Quietly, Calm
<1> HIDE DEF c, g
<1>3. Quietly(g, k, 0) /\ Typed(k)  BY <1>1, <1>2, resolveCalm DEF Quietly, Calm
<1> HIDE DEF k
<1>4. Quietly(h, k, 1 + 0)  BY <1>2, <1>3, QuietTrans
<1>5. e \in DOMAIN k.enums  BY <1>4 DEF Quietly, Calm
<1>6. /\ CallbackOK(k, ok) /\ CallbackOK(k, err) /\ Silent(ok) /\ Silent(err)
      /\ ~Mine(ok) /\ ~Mine(err)
  BY <1>5 DEF CallbackOK, Silent, Mine
<1>7. w = subscribe(k, c, NoChild, ok, err)  BY DEF willSettleAt
<1> HIDE DEF ok, err, w
<1>8. SubscriberOK(k, [child |-> NoChild, ok |-> ok, err |-> err])  BY <1>6 DEF SubscriberOK
<1>9. Calm(k, w) /\ Makes(k, w, 0)  BY <1>1, <1>3, <1>6, <1>7, <1>8, subscribeCalm
<1>10. Calm(h, w)  BY <1>4, <1>9, CalmTrans DEF Quietly
<1>11. Makes(h, w, 1)
  <2>1. /\ Cardinality(h.made) \in Nat /\ Cardinality(k.made) \in Nat /\ Cardinality(w.made) \in Nat
    BY <1>3, <1>10, FS_CardinalityType DEF Calm, Typed, Made
  <2> QED  BY <2>1, <1>4, <1>9 DEF Quietly, Makes
<1>12. Quietly(h, b, 0)
  <2>1. "promise" \in DOMAIN h.enums[e] /\ h.enums[e].promise \in Promises  BY DEF Typed, Stands
  <2>2. "promise" \in DOMAIN y /\ y.promise \in Promises  BY <2>1
  <2>3. a = [h EXCEPT !.enums[e] = y] /\ b = [a EXCEPT !.enums[e] = z]  OBVIOUS
  <2> HIDE DEF a, b, y
  <2>4. Quietly(h, a, 0) /\ Typed(a) /\ e \in DOMAIN a.enums
    BY <2>2, <2>3, EntryCalm DEF Quietly, Calm
  <2>5. "promise" \in DOMAIN a.enums[e] /\ a.enums[e].promise \in Promises
    BY <2>4 DEF Typed, Stands
  <2>6. "promise" \in DOMAIN z /\ z.promise \in Promises  BY <2>5
  <2> HIDE DEF z
  <2>7. Quietly(a, b, 0)  BY <2>3, <2>4, <2>6, EntryCalm
  <2>8. Quietly(h, b, 0 + 0)  BY <2>4, <2>7, QuietTrans
  <2> QED  BY <2>8
<1>13. \A st, v : Quietly(h, settledAt(h, e, st, i, v), 0)  BY settledAtCalm
<1>14. \A x : Quietly(h, x, 0) => Calm(h, x) /\ Makes(h, x, 1)
  BY QuietMore DEF Quietly
<1> HIDE DEF b
<1>15. eachEntry(h, e, entry, i) \in {settledAt(h, e, h.state[entry], i, h.result[entry]), w, b}
  BY DEF eachEntry, w, k, g, c, b
<1> QED  BY <1>10, <1>11, <1>12, <1>13, <1>14, <1>15

LEMMA EnumeratorCalm ==
  ASSUME NEW h, Typed(h), Room(h, 1), NEW entries
  PROVE  /\ Quietly(h, Enumerator(h, entries), 1)
         /\ Len(h.enums) + 1 \in DOMAIN Enumerator(h, entries).enums
<1> DEFINE p == NewPromise(h)
           e == [promise |-> p, remaining |-> Len(entries),
                 result |-> [i \in DOMAIN entries |-> Undefined]]
           m == makePromise(h)
           x == Append(m.enums, e)
           g == [m EXCEPT !.enums = x]
<1>1. p \in Promises  BY NewPromiseFresh
<1>2. Quietly(h, m, 1) /\ Typed(m) /\ m.enums = h.enums  BY makeCalm, makeFields DEF Quietly, Calm
<1>3. e.promise = p /\ "promise" \in DOMAIN e  OBVIOUS
<1> HIDE DEF p, e, m
<1>4. IsSeq(m.enums)  BY <1>2 DEF Typed, Stands
<1>5. /\ IsSeq(x) /\ Extends(m.enums, x) /\ DOMAIN x \ DOMAIN m.enums = {Len(m.enums) + 1}
      /\ x[Len(m.enums) + 1] = e
  BY <1>4, AppendExtends, SeqAppend
<1> HIDE DEF x
<1>6. Stands(x) /\ DOMAIN m.enums \subseteq DOMAIN x
  <2> SUFFICES ASSUME NEW k \in DOMAIN x PROVE "promise" \in DOMAIN x[k] /\ x[k].promise \in Promises
    BY <1>5 DEF Stands, Extends
  <2>1. CASE k \in DOMAIN m.enums  BY <2>1, <1>2, <1>5 DEF Extends, Typed, Stands
  <2>2. CASE k \notin DOMAIN m.enums  BY <2>2, <1>1, <1>3, <1>5
  <2> QED  BY <2>1, <2>2
<1>7. Quietly(m, g, 0) /\ Typed(g) /\ g.enums = x
  BY <1>2, <1>6, EnumsCalm DEF Quietly, Calm
<1> HIDE DEF g
<1>8. Quietly(g, fulfill(g, p, <<>>), 0)  BY <1>1, <1>7, fulfillCalm
<1>9. Quietly(h, g, 1 + 0)  BY <1>2, <1>7, QuietTrans
<1>10. Quietly(h, fulfill(g, p, <<>>), (1 + 0) + 0)  BY <1>8, <1>9, QuietTrans
<1>11. Enumerator(h, entries) = IF entries = <<>> THEN fulfill(g, p, <<>>) ELSE g
  BY DEF Enumerator, g, x, m, e, p
<1>12. Len(h.enums) + 1 \in DOMAIN g.enums  BY <1>2, <1>5, <1>7
<1>13. DOMAIN g.enums \subseteq DOMAIN fulfill(g, p, <<>>).enums  BY <1>8 DEF Quietly, Calm
<1> QED  BY <1>9, <1>10, <1>11, <1>12, <1>13

-----------------------------------------------------------------------------
(* Callbacks                                                               *)

LEMMA EffectCalm ==
  ASSUME NEW h, Typed(h), NEW o, Settles(o)
  PROVE  Quietly(h, Effect(h, o), 0)
BY CalmSame, resolveCalm DEF Effect, Settles

LEMMA finallyCalm ==
  ASSUME NEW h, Typed(h), Room(h, 2), NEW o, NEW repeat, CallbackOK(h, repeat), ~Mine(repeat)
  PROVE  Quietly(h, finally(h, o, repeat).heap, 2)
<1> DEFINE g == resolveStatic(h, o.value)
           q == resolved(h, o.value)
<1>1. Room(h, 1)  BY RoomLess
<1>2. Quietly(h, g, IF o.value \in Promises THEN 0 ELSE 1) /\ q \in Promises
  BY <1>1, StaticCalm
<1>3. Quietly(h, g, 1)  BY <1>2, QuietMore
<1> HIDE DEF g, q
<1>4. Typed(g)  BY <1>3 DEF Quietly, Calm
<1>5. Room(g, 1)
  <2>1. Room(h, 1 + 1)  OBVIOUS
  <2> QED  BY <2>1, <1>3, <1>4, RoomLeft DEF Quietly
<1>6. CallbackOK(g, repeat)  BY <1>3, StillOK DEF Quietly, Calm
<1>7. CallbackOK(g, NoCallback) /\ ~Mine(NoCallback)  BY DEF CallbackOK, NoCallback, Mine
<1>8. Quietly(g, then(g, q, repeat, NoCallback), 1)  BY <1>2, <1>4, <1>5, <1>6, <1>7, thenCalm
<1>9. Quietly(h, then(g, q, repeat, NoCallback), 1 + 1)  BY <1>3, <1>8, QuietTrans
<1> QED  BY <1>9 DEF finally, g, q

LEMMA tryCatchCalm ==
  ASSUME NEW h, Typed(h), NEW cb, CallbackOK(h, cb), cb # NoCallback, NEW detail,
         NEW o, Mine(cb) => Settles(o), cb.k = "finally" => Room(h, 2)
  PROVE  /\ cb.k # "finally" => Quietly(h, tryCatch(h, cb, detail, o).heap, 0)
         /\ Quietly(h, tryCatch(h, cb, detail, o).heap, 2)
<1> DEFINE g == tryCatch(h, cb, detail, o).heap
<1> SUFFICES IF cb.k = "finally" THEN Quietly(h, g, 2) ELSE Quietly(h, g, 0)
  BY QuietMore
<1>1. CASE cb.k = "user"
  <2>1. Quietly(h, Effect(h, o), 0)  BY <1>1, EffectCalm DEF Mine
  <2>2. g = Effect(h, o)  BY <1>1, Zenon DEF tryCatch
  <2> QED  BY <1>1, <2>1, <2>2
<1>2. CASE cb.k \in {"return", "throw"}
  <2>1. g = h  BY <1>2, Zenon DEF tryCatch
  <2> QED  BY <1>2, <2>1, CalmSame
<1>3. CASE cb.k = "resolve"
  <2>1. g = resolve(h, cb.promise, detail)  BY <1>3, Zenon DEF tryCatch
  <2> QED  BY <1>3, <2>1, resolveCalm DEF CallbackOK
<1>4. CASE cb.k = "reject"
  <2>1. g = reject(h, cb.promise, detail)  BY <1>4, Zenon DEF tryCatch
  <2> QED  BY <1>4, <2>1, rejectCalm DEF CallbackOK
<1>5. CASE cb.k = "settledAt"
  <2>1. g = settledAt(h, cb.enum, cb.state, cb.i, detail)  BY <1>5, Zenon DEF tryCatch
  <2> QED  BY <1>5, <2>1, settledAtCalm DEF CallbackOK
<1>6. CASE cb.k = "finally"
  <2> DEFINE x == Effect(h, o)
             repeat == [k |-> cb.then, v |-> detail]
  <2>1. Quietly(h, x, 0) /\ Typed(x)  BY <1>6, EffectCalm DEF Mine, Quietly, Calm
  <2>2. g = IF o.throws THEN x ELSE finally(x, o, repeat).heap
    BY <1>6, Zenon DEF tryCatch
  <2>3. CallbackOK(x, repeat) /\ ~Mine(repeat)
    <3>1. repeat.k \in {"return", "throw"}  BY <1>6 DEF CallbackOK
    <3> HIDE DEF repeat
    <3> QED  BY <3>1 DEF CallbackOK, Mine
  <2> HIDE DEF x, repeat, g
  <2>4. Room(x, 2)
    <3>1. Room(h, 0 + 2)  BY <1>6
    <3> QED  BY <3>1, <2>1, RoomLeft DEF Quietly
  <2>5. Quietly(x, finally(x, o, repeat).heap, 2)  BY <2>1, <2>3, <2>4, finallyCalm
  <2>6. Quietly(h, finally(x, o, repeat).heap, 0 + 2)  BY <2>1, <2>5, QuietTrans
  <2>7. Quietly(h, x, 2)  BY <2>1, QuietMore
  <2> QED  BY <1>6, <2>2, <2>6, <2>7
<1> QED  BY <1>1, <1>2, <1>3, <1>4, <1>5, <1>6 DEF CallbackOK

LEMMA invokeCallbackCalm ==
  ASSUME NEW h, Typed(h), NEW settled, NEW child \in Promises, NEW cb, CallbackOK(h, cb),
         NEW detail, NEW o, Mine(cb) => Settles(o), cb.k = "finally" => Room(h, 2)
  PROVE  LET g == invokeCallback(h, settled, child, cb, detail, o)
         IN  (cb.k # "finally" => Quietly(h, g, 0)) /\ Quietly(h, g, 2)
<1> DEFINE g == invokeCallback(h, settled, child, cb, detail, o)
           r == tryCatch(h, cb, detail, o)
           n == IF cb.k = "finally" THEN 2 ELSE 0
<1> SUFFICES Quietly(h, g, n)  BY QuietMore
<1>1. CASE cb = NoCallback
  <2>1. g \in {fulfill(h, child, detail), reject(h, child, detail)}
    BY <1>1 DEF invokeCallback
  <2>2. n = 0  BY <1>1 DEF NoCallback
  <2> QED  BY <2>1, <2>2, fulfillCalm, rejectCalm
<1>2. CASE cb # NoCallback
  <2>1. Quietly(h, r.heap, n)  BY <1>2, tryCatchCalm
  <2>2. g \in {reject(r.heap, child, CannotReturnOwn), r.heap,
               reject(r.heap, child, r.value), resolve(r.heap, child, r.value)}
    BY <1>2 DEF invokeCallback
  <2>3. n \in Nat /\ n + 0 = n  OBVIOUS
  <2> HIDE DEF r, g, n
  <2>4. \A v : Quietly(r.heap, reject(r.heap, child, v), 0) /\ Quietly(r.heap, resolve(r.heap, child, v), 0)
    BY <2>1, rejectCalm, resolveCalm DEF Quietly, Calm
  <2>5. \A v : /\ Quietly(h, reject(r.heap, child, v), n + 0)
               /\ Quietly(h, resolve(r.heap, child, v), n + 0)
    BY <2>1, <2>3, <2>4, QuietTrans
  <2> QED  BY <2>1, <2>2, <2>3, <2>5
<1> QED  BY <1>1, <1>2

LEMMA ForeignCalm ==
  ASSUME NEW h, Typed(h), NEW x, Stands(x)
  PROVE  Quietly(h, [h EXCEPT !.foreign = x], 0) /\ [h EXCEPT !.foreign = x].foreign = x
<1> DEFINE g == [h EXCEPT !.foreign = x]
<1>1. /\ HeapFields \subseteq DOMAIN g /\ g.state = h.state /\ g.result = h.result
      /\ g.subscribers = h.subscribers /\ QueueSame(h, g) /\ g.made = h.made
      /\ g.deferred = h.deferred /\ g.foreign = x /\ g.enums = h.enums
  BY DEF Typed, HeapFields, QueueSame
<1> HIDE DEF g
<1>2. Made(g) /\ Stands(g.enums)  BY <1>1 DEF Typed, Made
<1>3. Calm(h, g) /\ Steady(h, g)  BY <1>1, <1>2, SameCalm
<1>4. Cardinality(h.made) \in Nat  BY FS_CardinalityType DEF Typed, Made
<1>5. Makes(h, g, 0)  BY <1>1, <1>4 DEF Makes
<1> QED  BY <1>1, <1>3, <1>5 DEF Quietly, g

LEMMA foreignCallCalm ==
  ASSUME NEW h, Typed(h), NEW f \in DOMAIN h.foreign, NEW c
  PROVE  Quietly(h, foreignCall(h, f, c), 0)
<1> DEFINE x == [h.foreign EXCEPT ![f].sealed = TRUE]
           g == [h EXCEPT !.foreign = x]
           p == h.foreign[f].promise
<1>1. p \in Promises  BY DEF Typed, Stands
<1>2. Stands(x)
  <2>1. IsSeq(x) /\ DOMAIN x = DOMAIN h.foreign  BY SeqExcept DEF Typed, Stands
  <2> QED  BY <2>1 DEF Typed, Stands
<1> HIDE DEF x
<1>3. Quietly(h, g, 0)  BY <1>2, ForeignCalm
<1>4. foreignCall(h, f, c) \in {h, reject(g, p, c.v), fulfill(g, p, c.v), resolve(g, p, c.v)}
  BY DEF foreignCall, x
<1> HIDE DEF g, p
<1>5. \A v : /\ Quietly(g, reject(g, p, v), 0) /\ Quietly(g, fulfill(g, p, v), 0)
             /\ Quietly(g, resolve(g, p, v), 0)
  BY <1>1, <1>3, rejectCalm, fulfillCalm, resolveCalm DEF Quietly, Calm
<1>6. \A v : /\ Quietly(h, reject(g, p, v), 0 + 0) /\ Quietly(h, fulfill(g, p, v), 0 + 0)
             /\ Quietly(h, resolve(g, p, v), 0 + 0)
  BY <1>3, <1>5, QuietTrans
<1> QED  BY <1>4, <1>6, CalmSame

-----------------------------------------------------------------------------
(* What the library does in one call moves no reaction                     *)

LEMMA SameSub ==
  ASSUME NEW h, NEW g, Calm(h, g), NEW R, Reacted(h, R),
         NEW p \in Promises, NEW n \in DOMAIN R, NEW k
  PROVE  OfSub(g, p, k, R[n]) <=> OfSub(h, p, k, R[n])
<1>1. /\ Extends(h.subscribers[p], g.subscribers[p])
      /\ \A l \in DOMAIN g.subscribers[p] \ DOMAIN h.subscribers[p] :
            ~Mine(g.subscribers[p][l].ok) /\ ~Mine(g.subscribers[p][l].err)
  BY DEF Calm, NewSubscribers
<1>2. Mine(R[n].ok) \/ Mine(R[n].err)  BY DEF Reacted
<1>3. OfSub(g, p, k, R[n]) => g.subscribers[p][k].ok = R[n].ok /\ g.subscribers[p][k].err = R[n].err
  BY DEF OfSub
<1>4. OfSub(g, p, k, R[n]) => k \in DOMAIN h.subscribers[p]
  BY <1>1, <1>2, <1>3 DEF OfSub
<1> QED  BY <1>1, <1>4 DEF OfSub, Extends

LEMMA SameAwaits ==
  ASSUME NEW h, NEW g, Calm(h, g), NEW a, NEW q
  PROVE  /\ Awaits(g, a, q) <=> Awaits(h, a, q)
         /\ Awaits(h, a, q) => g.queue[q] = h.queue[q]
BY DEF Calm, NewJobs, Extends, Awaits

LEMMA SameJob ==
  ASSUME NEW h, NEW g, Calm(h, g), NEW R, Reacted(h, R), NEW a, Known(h, a, R),
         NEW n \in DOMAIN R, NEW q
  PROVE  OfJob(g, a, q, R[n]) <=> OfJob(h, a, q, R[n])
<1>1. /\ Awaits(g, a, q) <=> Awaits(h, a, q)
      /\ Awaits(h, a, q) => g.queue[q] = h.queue[q]
  BY SameAwaits
<1>2. h.state[R[n].parent] # PENDING =>
         g.state[R[n].parent] = h.state[R[n].parent] /\ g.result[R[n].parent] = h.result[R[n].parent]
  BY DEF Reacted, Calm, Kept
<1>3. Awaits(h, a, q) /\ h.queue[q].child = R[n].child => h.state[R[n].parent] # PENDING
  BY DEF Known, Reacted, OfJob
<1> QED  BY <1>1, <1>2, <1>3 DEF OfJob, CalledFor

LEMMA SameServed ==
  ASSUME NEW h, NEW g, Calm(h, g), NEW a, NEW t, Flow(h, a, t), NEW p, NEW k, k \in Nat \ {0}
  PROVE  Served(g, a, t, p, k) <=> Served(h, a, t, p, k)
<1>1. k < t => a \in DOMAIN h.queue  BY DEF Flow
<1> QED  BY <1>1 DEF Served, Calm, NewJobs, Extends

LEMMA CalmWorld ==
  ASSUME NEW h, NEW g, NEW a, NEW t, NEW R, NEW C, World(h, a, t, R, C), Calm(h, g)
  PROVE  World(g, a, t, R, C)
<1> USE DEF World
<1>1. Typed(g)  BY DEF Calm
<1>2. \A p \in Promises : \A n \in DOMAIN R : \A k :
         OfSub(g, p, k, R[n]) <=> OfSub(h, p, k, R[n])
  BY SameSub
<1>3. \A n \in DOMAIN R : \A q : OfJob(g, a, q, R[n]) <=> OfJob(h, a, q, R[n])
  BY SameJob
<1>4. \A p, k : k \in Nat \ {0} => (Served(g, a, t, p, k) <=> Served(h, a, t, p, k))
  BY SameServed
<1>5. \A n \in DOMAIN R : R[n].parent \in Promises  BY DEF Reacted
<1>6. Len(h.queue) <= Len(g.queue) /\ Len(h.queue) \in Nat /\ Len(g.queue) \in Nat
      /\ DOMAIN h.queue = 1 .. Len(h.queue) /\ DOMAIN g.queue = 1 .. Len(g.queue)
  <2>1. /\ Len(h.queue) \in Nat /\ DOMAIN h.queue = 1 .. Len(h.queue)
        /\ Len(g.queue) \in Nat /\ DOMAIN g.queue = 1 .. Len(g.queue)
    BY <1>1, SeqFacts DEF Typed, Jobs
  <2>2. DOMAIN h.queue \subseteq DOMAIN g.queue  BY DEF Calm, NewJobs, Extends
  <2> QED  BY <2>1, <2>2
<1>7. Flow(g, a, t)
  <2>1. a \in Nat /\ a <= Len(g.queue) + 1 /\ t \in Nat \ {0}  BY <1>6 DEF Flow
  <2>2. t > 1 => a \in DOMAIN g.queue /\ g.queue[a] = h.queue[a] /\ h.queue[a].k = "publish"
                 /\ a \in DOMAIN h.queue
    BY DEF Flow, Calm, NewJobs, Extends
  <2>3. ASSUME t > 1 PROVE t <= Len(g.subscribers[g.queue[a].promise]) + 1
    <3> DEFINE p == h.queue[a].promise
    <3>1. p \in Promises  BY <2>2, <2>3 DEF Typed, Jobs, JobOK
    <3>2. Extends(h.subscribers[p], g.subscribers[p])  BY <3>1 DEF Calm, NewSubscribers
    <3>3. /\ Len(h.subscribers[p]) \in Nat /\ Len(g.subscribers[p]) \in Nat
          /\ Len(h.subscribers[p]) <= Len(g.subscribers[p])
      BY <1>1, <3>1, <3>2, ExtendsLen DEF Typed, Subscribers
    <3>4. t <= Len(h.subscribers[p]) + 1  BY <2>3 DEF Flow
    <3> HIDE DEF p
    <3>5. t <= Len(g.subscribers[p]) + 1  BY <3>3, <3>4, <2>1
    <3> QED  BY <2>2, <2>3, <3>5 DEF p
  <2>4. DOMAIN g.queue # {} => a > 0 \/ g.scheduled  BY DEF Flow, Calm, NewJobs
  <2> QED  BY <2>1, <2>2, <2>3, <2>4 DEF Flow
<1>8. Published(g, a)
  <2> SUFFICES ASSUME NEW p \in Full(g)
               PROVE  \E q \in DOMAIN g.queue : a <= q /\ g.queue[q] = Publish(p)
    BY DEF Published
  <2>1. CASE p \in Full(h)
    <3>1. PICK q \in DOMAIN h.queue : a <= q /\ h.queue[q] = Publish(p)
      BY <2>1 DEF Published
    <3> QED  BY <3>1 DEF Calm, NewJobs, Extends
  <2>2. CASE p \notin Full(h)
    <3>1. PICK q \in DOMAIN g.queue \ DOMAIN h.queue : g.queue[q] = Publish(p)
      BY <2>2 DEF Calm, Publishes
    <3>2. a <= q  BY <1>6 DEF Flow
    <3> QED  BY <3>1, <3>2
  <2> QED  BY <2>1, <2>2
<1>9. Reacted(g, R)  BY DEF Reacted, Calm
<1>10. Known(g, a, R)
  <2>1. ASSUME NEW p \in Promises, NEW k \in DOMAIN g.subscribers[p],
               Mine(g.subscribers[p][k].ok) \/ Mine(g.subscribers[p][k].err)
        PROVE  \E n \in DOMAIN R : OfSub(g, p, k, R[n])
    <3>1. k \in DOMAIN h.subscribers[p] /\ g.subscribers[p][k] = h.subscribers[p][k]
      BY <2>1 DEF Calm, NewSubscribers, Extends
    <3> QED  BY <2>1, <3>1, <1>2 DEF Known
  <2>2. \A q : Awaits(g, a, q) => \E n \in DOMAIN R : OfJob(g, a, q, R[n])
    BY <1>3, SameAwaits DEF Known
  <2> QED  BY <2>1, <2>2 DEF Known
<1>11. SubsOrdered(g, R)
  <2> SUFFICES ASSUME NEW p \in Promises, NEW k, NEW l, NEW m \in DOMAIN R, NEW n \in DOMAIN R,
                      OfSub(g, p, k, R[m]), OfSub(g, p, l, R[n]), k < l
               PROVE  m < n
    BY DEF SubsOrdered
  <2>1. OfSub(h, p, k, R[m]) /\ OfSub(h, p, l, R[n])  BY <1>2
  <2> QED  BY <2>1 DEF SubsOrdered
<1>12. JobsOrdered(g, a, R)
  <2> SUFFICES ASSUME NEW q, NEW r, NEW m \in DOMAIN R, NEW n \in DOMAIN R,
                      OfJob(g, a, q, R[m]), OfJob(g, a, r, R[n]), q < r, R[m].parent = R[n].parent
               PROVE  m < n
    BY DEF JobsOrdered
  <2>1. OfJob(h, a, q, R[m]) /\ OfJob(h, a, r, R[n])  BY <1>3
  <2> QED  BY <2>1 DEF JobsOrdered
<1>13. SubsFirst(g, a, R)
  <2> SUFFICES ASSUME NEW p \in Promises, NEW k, NEW q, NEW m \in DOMAIN R, NEW n \in DOMAIN R,
                      OfSub(g, p, k, R[m]), OfJob(g, a, q, R[n]), R[n].parent = p
               PROVE  m < n /\ \E b \in DOMAIN g.queue : a <= b /\ b < q /\ g.queue[b] = Publish(p)
    BY DEF SubsFirst
  <2>1. OfSub(h, p, k, R[m]) /\ OfJob(h, a, q, R[n])  BY <1>2, <1>3
  <2>2. m < n /\ \E b \in DOMAIN h.queue : a <= b /\ b < q /\ h.queue[b] = Publish(p)
    BY <2>1 DEF SubsFirst
  <2> QED  BY <2>2 DEF Calm, NewJobs, Extends
<1>14. CallsRight(g, R, C)
  <2>1. \A i \in DOMAIN C : C[i].child \in g.made  BY DEF CallsRight, Calm
  <2>2. \A i \in DOMAIN C : \A m \in DOMAIN R : C[i].child = R[m].child =>
          g.state[R[m].parent] # PENDING /\ C[i].detail = g.result[R[m].parent]
    BY <1>5 DEF CallsRight, Calm, Kept
  <2> QED  BY <2>1, <2>2 DEF CallsRight
<1>15. \A n \in DOMAIN R : \A k : OfSub(g, R[n].parent, k, R[n]) => k \in Nat \ {0}
  <2> SUFFICES ASSUME NEW n \in DOMAIN R, NEW k, k \in DOMAIN g.subscribers[R[n].parent]
               PROVE  k \in Nat \ {0}
    BY DEF OfSub
  <2>1. /\ DOMAIN g.subscribers[R[n].parent] = 1 .. Len(g.subscribers[R[n].parent])
        /\ Len(g.subscribers[R[n].parent]) \in Nat
    BY <1>1, <1>5, SeqFacts DEF Typed, Subscribers
  <2> QED  BY <2>1
<1>16. CallsFirst(g, a, t, R, C)
  <2> SUFFICES ASSUME NEW i \in DOMAIN C, NEW m \in DOMAIN R, NEW n \in DOMAIN R,
                      C[i].child = R[m].child, R[m].parent = R[n].parent
               PROVE  /\ \A k : OfSub(g, R[n].parent, k, R[n]) /\ ~Served(g, a, t, R[n].parent, k) => m < n
                      /\ \A q : OfJob(g, a, q, R[n]) => m < n
    BY DEF CallsFirst
  <2>1. /\ \A k : OfSub(h, R[n].parent, k, R[n]) /\ ~Served(h, a, t, R[n].parent, k) => m < n
        /\ \A q : OfJob(h, a, q, R[n]) => m < n
    BY DEF CallsFirst
  <2> QED  BY <2>1, <1>2, <1>3, <1>4, <1>5, <1>15
<1>17. Due(g, a, t, R, C)
  <2> SUFFICES ASSUME NEW n \in DOMAIN R PROVE IsDue(g, a, t, R[n], C)
    BY DEF Due
  <2>1. IsDue(h, a, t, R[n], C)  BY DEF Due
  <2>2. h.state[R[n].parent] # PENDING =>
           g.state[R[n].parent] # PENDING /\ CalledFor(g, R[n]) = CalledFor(h, R[n])
    BY <1>5 DEF CalledFor, Calm, Kept
  <2>3. \A k : OfSub(h, R[n].parent, k, R[n]) /\ ~Served(h, a, t, R[n].parent, k)
               => OfSub(g, R[n].parent, k, R[n]) /\ ~Served(g, a, t, R[n].parent, k)
    BY <1>2, <1>4, <1>5, <1>15
  <2>4. \A q : OfJob(h, a, q, R[n]) => OfJob(g, a, q, R[n])  BY <1>3
  <2> QED  BY <2>1, <2>2, <2>3, <2>4 DEF IsDue
<1> QED
  BY <1>1, <1>7, <1>8, <1>9, <1>10, <1>11, <1>12, <1>13, <1>14, <1>16, <1>17

-----------------------------------------------------------------------------
(* The moves of flush and publish                                          *)

LEMMA SubIndex ==
  ASSUME NEW h, Typed(h), NEW p \in Promises, NEW k \in DOMAIN h.subscribers[p]
  PROVE  k \in Nat \ {0} /\ k <= Len(h.subscribers[p]) /\ Len(h.subscribers[p]) \in Nat
<1>1. DOMAIN h.subscribers[p] = 1 .. Len(h.subscribers[p]) /\ Len(h.subscribers[p]) \in Nat
  BY SeqFacts DEF Typed, Subscribers
<1> QED  BY <1>1

LEMMA JobIndex ==
  ASSUME NEW h, Typed(h), NEW q \in DOMAIN h.queue
  PROVE  q \in Nat \ {0} /\ q <= Len(h.queue) /\ Len(h.queue) \in Nat
<1>1. DOMAIN h.queue = 1 .. Len(h.queue) /\ Len(h.queue) \in Nat
  BY SeqFacts DEF Typed, Jobs
<1> QED  BY <1>1

\* In the first turn nothing is served.
LEMMA FirstTurn ==
  ASSUME NEW h, Typed(h), NEW R, Reacted(h, R), NEW n \in DOMAIN R, NEW a,
         NEW k, OfSub(h, R[n].parent, k, R[n])
  PROVE  ~Served(h, a, 1, R[n].parent, k)
<1>1. R[n].parent \in Promises  BY DEF Reacted
<1>2. k \in Nat \ {0}  BY <1>1, SubIndex DEF OfSub
<1> QED  BY <1>2 DEF Served

\* A job that calls nobody back, and publishes nobody, is passed.
LEMMA PassJob ==
  ASSUME NEW h, NEW a, NEW R, NEW C, World(h, a, 1, R, C), a \in DOMAIN h.queue,
         ~Awaits(h, a, a),
         h.queue[a].k = "publish" => DOMAIN h.subscribers[h.queue[a].promise] = {}
  PROVE  World(h, a + 1, 1, R, C)
<1> USE DEF World
<1>1. a \in Nat \ {0} /\ a <= Len(h.queue) /\ Len(h.queue) \in Nat  BY JobIndex
<1>2. \A q \in DOMAIN h.queue : q \in Nat /\ (a <= q /\ q # a <=> a + 1 <= q)  BY <1>1, JobIndex
<1>3. \A p \in Promises : DOMAIN h.subscribers[p] # {} => h.queue[a] # Publish(p)
  BY DEF Publish
<1>4. \A q : Awaits(h, a + 1, q) <=> Awaits(h, a, q)  BY <1>2 DEF Awaits
<1>5. \A q, r : OfJob(h, a + 1, q, r) <=> OfJob(h, a, q, r)  BY <1>4 DEF OfJob
<1>6. Flow(h, a + 1, 1)  BY <1>1 DEF Flow
<1>7. Published(h, a + 1)
  <2> SUFFICES ASSUME NEW p \in Full(h)
               PROVE  \E q \in DOMAIN h.queue : a + 1 <= q /\ h.queue[q] = Publish(p)
    BY DEF Published
  <2>1. PICK q \in DOMAIN h.queue : a <= q /\ h.queue[q] = Publish(p)  BY DEF Published
  <2> QED  BY <2>1, <1>2, <1>3 DEF Full
<1>8. Known(h, a + 1, R)  BY <1>4, <1>5 DEF Known
<1>9. JobsOrdered(h, a + 1, R)  BY <1>5 DEF JobsOrdered
<1>10. SubsFirst(h, a + 1, R)
  <2> SUFFICES ASSUME NEW p \in Promises, NEW k, NEW q, NEW m \in DOMAIN R, NEW n \in DOMAIN R,
                      OfSub(h, p, k, R[m]), OfJob(h, a, q, R[n]), R[n].parent = p
               PROVE  m < n /\ \E b \in DOMAIN h.queue : a + 1 <= b /\ b < q /\ h.queue[b] = Publish(p)
    BY <1>5 DEF SubsFirst
  <2>1. m < n /\ \E b \in DOMAIN h.queue : a <= b /\ b < q /\ h.queue[b] = Publish(p)
    BY DEF SubsFirst
  <2> QED  BY <2>1, <1>2, <1>3 DEF OfSub
<1>11. CallsFirst(h, a + 1, 1, R, C)  BY <1>5, FirstTurn DEF CallsFirst
<1>12. Due(h, a + 1, 1, R, C)
  <2> SUFFICES ASSUME NEW n \in DOMAIN R PROVE IsDue(h, a + 1, 1, R[n], C)
    BY DEF Due
  <2>1. IsDue(h, a, 1, R[n], C)  BY DEF Due
  <2> QED  BY <2>1, <1>5, FirstTurn DEF IsDue
<1> QED  BY <1>6, <1>7, <1>8, <1>9, <1>10, <1>11, <1>12

\* A call of a reaction's child is recorded after those of the reactions before.
LEMMA CallNext ==
  ASSUME NEW h, NEW R, Reacted(h, R), NEW C, CallsRight(h, R, C), NEW n \in DOMAIN R,
         NEW c, c.child = R[n].child,
         h.state[R[n].parent] # PENDING, c.detail = h.result[R[n].parent],
         \A i \in DOMAIN C : \A m \in DOMAIN R :
            C[i].child = R[m].child /\ R[m].parent = R[n].parent => m < n
  PROVE  /\ CallsRight(h, R, Append(C, c))
         /\ \A i \in DOMAIN Append(C, c) :
               (i \in DOMAIN C /\ Append(C, c)[i] = C[i]) \/ Append(C, c)[i] = c
         /\ \E i \in DOMAIN Append(C, c) : Append(C, c)[i] = c
         /\ \A i \in DOMAIN C : i \in DOMAIN Append(C, c) /\ Append(C, c)[i] = C[i]
<1> DEFINE D == Append(C, c)
           z == Len(C) + 1
<1>1. /\ IsSeq(D) /\ Len(C) \in Nat /\ DOMAIN C = 1 .. Len(C)
      /\ DOMAIN D = 1 .. Len(C) + 1 /\ (\A i \in 1 .. Len(C) : D[i] = C[i]) /\ D[z] = c
  BY SeqAppend DEF CallsRight
<1> HIDE DEF D
<1>2. \A i \in DOMAIN D : (i \in DOMAIN C /\ D[i] = C[i] /\ i < z) \/ (i = z /\ D[i] = c)
  BY <1>1
<1>3. z \in DOMAIN D /\ DOMAIN C \subseteq DOMAIN D  BY <1>1
<1>4. \A m \in DOMAIN R : c.child = R[m].child => m = n  BY DEF Reacted
<1>5. \A i \in DOMAIN D : D[i].child \in h.made  BY <1>2 DEF CallsRight, Reacted
<1>6. \A i \in DOMAIN D : \A m \in DOMAIN R : D[i].child = R[m].child =>
         h.state[R[m].parent] # PENDING /\ D[i].detail = h.result[R[m].parent]
  BY <1>2, <1>4 DEF CallsRight
<1>7. ASSUME NEW i \in DOMAIN D, NEW j \in DOMAIN D, NEW m \in DOMAIN R, NEW k \in DOMAIN R,
             D[i].child = R[m].child, D[j].child = R[k].child, R[m].parent = R[k].parent, i < j
      PROVE  m < k
  <2>1. i \in DOMAIN C /\ D[i] = C[i]  BY <1>1, <1>2, <1>7
  <2>2. CASE j \in DOMAIN C /\ D[j] = C[j]  BY <2>1, <2>2, <1>7 DEF CallsRight
  <2>3. CASE D[j] = c  BY <2>1, <2>3, <1>4, <1>7
  <2> QED  BY <1>2, <2>2, <2>3
<1>8. CallsRight(h, R, D)  BY <1>1, <1>5, <1>6, <1>7 DEF CallsRight
<1> QED  BY <1>1, <1>2, <1>3, <1>8 DEF D

\* A job that is a reaction is run: its callback is called.
LEMMA InvokeJob ==
  ASSUME NEW h, NEW a, NEW R, NEW C, World(h, a, 1, R, C), Awaits(h, a, a)
  PROVE  World(h, a + 1, 1, R,
               Append(C, [child |-> h.queue[a].child, detail |-> h.queue[a].detail]))
<1> USE DEF World
<1> DEFINE c == [child |-> h.queue[a].child, detail |-> h.queue[a].detail]
           D == Append(C, c)
<1>0. PICK o \in DOMAIN R : OfJob(h, a, a, R[o])  BY DEF Known
<1>1. a \in Nat \ {0} /\ a <= Len(h.queue) /\ Len(h.queue) \in Nat  BY JobIndex DEF Awaits
<1>2. \A q \in DOMAIN h.queue : q \in Nat /\ (a <= q /\ q # a <=> a + 1 <= q)  BY <1>1, JobIndex
<1>3. \A p : h.queue[a] # Publish(p)  BY DEF Publish, Awaits
<1>4. \A q : Awaits(h, a + 1, q) <=> Awaits(h, a, q) /\ q # a  BY <1>2 DEF Awaits
<1>5. \A q, r : OfJob(h, a + 1, q, r) <=> OfJob(h, a, q, r) /\ q # a  BY <1>4 DEF OfJob
<1>6. Flow(h, a + 1, 1)  BY <1>1 DEF Flow
<1>7. Published(h, a + 1)
  <2> SUFFICES ASSUME NEW p \in Full(h)
               PROVE  \E q \in DOMAIN h.queue : a + 1 <= q /\ h.queue[q] = Publish(p)
    BY DEF Published
  <2>1. PICK q \in DOMAIN h.queue : a <= q /\ h.queue[q] = Publish(p)  BY DEF Published
  <2> QED  BY <2>1, <1>2, <1>3
<1>8. Known(h, a + 1, R)  BY <1>4, <1>5 DEF Known
<1>9. JobsOrdered(h, a + 1, R)  BY <1>5 DEF JobsOrdered
<1>10. SubsFirst(h, a + 1, R)
  <2> SUFFICES ASSUME NEW p \in Promises, NEW k, NEW q, NEW m \in DOMAIN R, NEW n \in DOMAIN R,
                      OfSub(h, p, k, R[m]), OfJob(h, a, q, R[n]), R[n].parent = p
               PROVE  m < n /\ \E b \in DOMAIN h.queue : a + 1 <= b /\ b < q /\ h.queue[b] = Publish(p)
    BY <1>5 DEF SubsFirst
  <2>1. m < n /\ \E b \in DOMAIN h.queue : a <= b /\ b < q /\ h.queue[b] = Publish(p)
    BY DEF SubsFirst
  <2> QED  BY <2>1, <1>2, <1>3
<1>11. /\ c.child = R[o].child /\ c.detail = h.result[R[o].parent]
       /\ h.state[R[o].parent] # PENDING /\ R[o].parent \in Promises
  BY <1>0 DEF OfJob, Reacted
<1>12. \A i \in DOMAIN C : \A m \in DOMAIN R :
          C[i].child = R[m].child /\ R[m].parent = R[o].parent => m < o
  BY <1>0 DEF CallsFirst
<1> HIDE DEF c
<1>13. /\ CallsRight(h, R, D)
       /\ \A i \in DOMAIN D : (i \in DOMAIN C /\ D[i] = C[i]) \/ D[i] = c
       /\ \E i \in DOMAIN D : D[i] = c
       /\ \A i \in DOMAIN C : i \in DOMAIN D /\ D[i] = C[i]
  BY <1>11, <1>12, CallNext
<1> HIDE DEF D
<1>14. CallsFirst(h, a + 1, 1, R, D)
  <2> SUFFICES ASSUME NEW i \in DOMAIN D, NEW m \in DOMAIN R, NEW n \in DOMAIN R,
                      D[i].child = R[m].child, R[m].parent = R[n].parent
               PROVE  /\ \A k : OfSub(h, R[n].parent, k, R[n]) => m < n
                      /\ \A q : OfJob(h, a, q, R[n]) /\ q # a => m < n
    BY <1>5 DEF CallsFirst
  <2>1. CASE i \in DOMAIN C /\ D[i] = C[i]
    BY <2>1, FirstTurn DEF CallsFirst
  <2>2. CASE D[i] = c
    <3>1. m = o  BY <2>2, <1>11 DEF Reacted
    <3>2. \A k : ~OfSub(h, R[n].parent, k, R[n])
      <4> SUFFICES ASSUME NEW k, OfSub(h, R[n].parent, k, R[n]) PROVE FALSE  OBVIOUS
      <4>1. \E b \in DOMAIN h.queue : a <= b /\ b < a /\ h.queue[b] = Publish(R[o].parent)
        BY <1>0, <1>11, <3>1 DEF SubsFirst
      <4> QED  BY <4>1, <1>1, <1>2
    <3>3. ASSUME NEW q, OfJob(h, a, q, R[n]), q # a PROVE o < n
      <4>1. a < q  BY <3>3, <1>1, <1>2 DEF OfJob, Awaits
      <4> QED  BY <4>1, <3>1, <3>3, <1>0 DEF JobsOrdered
    <3> QED  BY <3>1, <3>2, <3>3
  <2> QED  BY <1>13, <2>1, <2>2
<1>15. Due(h, a + 1, 1, R, D)
  <2> SUFFICES ASSUME NEW n \in DOMAIN R PROVE IsDue(h, a + 1, 1, R[n], D)
    BY DEF Due
  <2>1. IsDue(h, a, 1, R[n], C)  BY DEF Due
  <2>2. OfJob(h, a, a, R[n]) => c.child = R[n].child  BY DEF OfJob, c
  <2> QED  BY <2>1, <2>2, <1>5, <1>13, FirstTurn DEF IsDue
<1> QED
  BY <1>6, <1>7, <1>8, <1>9, <1>10, <1>13, <1>14, <1>15 DEF D, c

\* publish takes a turn: the callback for what its promise settled with is called.
LEMMA ServeTurn ==
  ASSUME NEW h, NEW a, NEW t, NEW R, NEW C, World(h, a, t, R, C),
         NEW p \in Promises, a \in DOMAIN h.queue, h.queue[a] = Publish(p),
         t \in DOMAIN h.subscribers[p], NEW cb,
         cb = IF h.state[p] = FULFILLED THEN h.subscribers[p][t].ok ELSE h.subscribers[p][t].err,
         NEW D,
         D = IF Mine(cb) THEN Append(C, [child |-> h.subscribers[p][t].child, detail |-> h.result[p]])
             ELSE C
  PROVE  World(h, a, t + 1, R, D)
<1> USE DEF World
<1> DEFINE s == h.subscribers[p][t]
           c == [child |-> s.child, detail |-> h.result[p]]
<1>1. h.state[p] # PENDING /\ h.queue[a].k = "publish" /\ h.queue[a].promise = p
  BY DEF Typed, Jobs, JobOK, Publish
<1>2. t \in Nat \ {0} /\ t <= Len(h.subscribers[p]) /\ Len(h.subscribers[p]) \in Nat
  BY SubIndex
<1>3. Flow(h, a, t + 1)  BY <1>1, <1>2 DEF Flow
<1>4. \A q, k : k \in Nat => (Served(h, a, t + 1, q, k) <=> Served(h, a, t, q, k) \/ (k = t /\ q = p))
  <2>1. \A q : Publish(q) = Publish(p) <=> q = p
    <3>1. \A q : Publish(q).promise = q  BY DEF Publish
    <3> QED  BY <3>1
  <2> QED  BY <2>1, <1>2 DEF Served
<1>5. \A n \in DOMAIN R : \A k : OfSub(h, R[n].parent, k, R[n]) => k \in Nat
  <2> SUFFICES ASSUME NEW n \in DOMAIN R, NEW k, OfSub(h, R[n].parent, k, R[n]) PROVE k \in Nat
    OBVIOUS
  <2>1. R[n].parent \in Promises /\ k \in DOMAIN h.subscribers[R[n].parent]
    BY DEF Reacted, OfSub
  <2> QED  BY <2>1, SubIndex
<1>6. CASE ~Mine(cb)
  <2>1. D = C  BY <1>6
  <2>2. CallsFirst(h, a, t + 1, R, C)  BY <1>4, <1>5 DEF CallsFirst
  <2>3. Due(h, a, t + 1, R, C)
    <3> SUFFICES ASSUME NEW n \in DOMAIN R PROVE IsDue(h, a, t + 1, R[n], C)
      BY DEF Due
    <3>1. IsDue(h, a, t, R[n], C)  BY DEF Due
    <3>2. CASE OfSub(h, p, t, R[n]) /\ R[n].parent = p
      <4>1. CalledFor(h, R[n]) = cb  BY <3>2 DEF OfSub, CalledFor
      <4>2. cb = NoCallback  BY <4>1, <1>6 DEF Reacted, CalledFor
      <4> QED  BY <3>2, <4>1, <4>2, <1>1 DEF IsDue
    <3>3. CASE ~(OfSub(h, p, t, R[n]) /\ R[n].parent = p)
      BY <3>1, <3>3, <1>4, <1>5 DEF IsDue
    <3> QED  BY <3>2, <3>3
  <2> QED  BY <2>1, <2>2, <2>3, <1>3
<1>7. CASE Mine(cb)
  <2>1. PICK o \in DOMAIN R : OfSub(h, p, t, R[o])  BY <1>7 DEF Known
  <2>2. /\ c.child = R[o].child /\ c.detail = h.result[R[o].parent]
        /\ R[o].parent = p /\ h.state[R[o].parent] # PENDING
    BY <2>1, <1>1 DEF OfSub
  <2>3. ~Served(h, a, t, p, t)  BY <1>2 DEF Served
  <2>4. \A i \in DOMAIN C : \A m \in DOMAIN R :
            C[i].child = R[m].child /\ R[m].parent = R[o].parent => m < o
    BY <2>1, <2>2, <2>3 DEF CallsFirst
  <2>5. D = Append(C, c)  BY <1>7
  <2> HIDE DEF c
  <2>6. /\ CallsRight(h, R, D)
        /\ \A i \in DOMAIN D : (i \in DOMAIN C /\ D[i] = C[i]) \/ D[i] = c
        /\ \E i \in DOMAIN D : D[i] = c
        /\ \A i \in DOMAIN C : i \in DOMAIN D /\ D[i] = C[i]
    BY <2>2, <2>4, <2>5, CallNext
  <2>7. CallsFirst(h, a, t + 1, R, D)
    <3> SUFFICES ASSUME NEW i \in DOMAIN D, NEW m \in DOMAIN R, NEW n \in DOMAIN R,
                        D[i].child = R[m].child, R[m].parent = R[n].parent
                 PROVE  /\ \A k : OfSub(h, R[n].parent, k, R[n])
                                  /\ ~Served(h, a, t + 1, R[n].parent, k) => m < n
                        /\ \A q : OfJob(h, a, q, R[n]) => m < n
      BY DEF CallsFirst
    <3>1. CASE i \in DOMAIN C /\ D[i] = C[i]
      BY <3>1, <1>4, <1>5 DEF CallsFirst
    <3>2. CASE D[i] = c
      <4>1. m = o /\ R[n].parent = p  BY <3>2, <2>2 DEF Reacted
      <4>2. ASSUME NEW k, OfSub(h, R[n].parent, k, R[n]), ~Served(h, a, t + 1, R[n].parent, k)
            PROVE  o < n
        <5>1. k \in Nat  BY <4>2, <1>5
        <5>2. ~(k < t + 1)  BY <4>1, <4>2 DEF Served
        <5>3. t < k  BY <5>1, <5>2, <1>2
        <5> QED  BY <5>3, <4>1, <4>2, <2>1 DEF SubsOrdered
      <4>3. ASSUME NEW q, OfJob(h, a, q, R[n]) PROVE o < n
        BY <4>1, <4>3, <2>1 DEF SubsFirst
      <4> QED  BY <4>1, <4>2, <4>3
    <3> QED  BY <2>6, <3>1, <3>2, Zenon
  <2>8. Due(h, a, t + 1, R, D)
    <3> SUFFICES ASSUME NEW n \in DOMAIN R PROVE IsDue(h, a, t + 1, R[n], D)
      BY DEF Due
    <3>1. IsDue(h, a, t, R[n], C)  BY DEF Due
    <3>2. CASE OfSub(h, p, t, R[n])
      <4>1. R[n].child = c.child  BY <3>2 DEF OfSub, c
      <4> QED  BY <4>1, <2>6, Zenon DEF IsDue
    <3>3. CASE ~OfSub(h, p, t, R[n])
      BY <3>1, <3>3, <1>4, <1>5, <2>6, Zenon DEF IsDue
    <3> QED  BY <3>2, <3>3
  <2> QED  BY <1>3, <2>6, <2>7, <2>8, Zenon
<1> QED  BY <1>6, <1>7

\* publish ends: the list is emptied.
LEMMA EndPublish ==
  ASSUME NEW h, NEW a, NEW t, NEW R, NEW C, World(h, a, t, R, C),
         NEW p \in Promises, a \in DOMAIN h.queue, h.queue[a] = Publish(p),
         \A k \in DOMAIN h.subscribers[p] : k < t
  PROVE  World([h EXCEPT !.subscribers[p] = <<>>], a + 1, 1, R, C)
<1> USE DEF World
<1> DEFINE f == [h.subscribers EXCEPT ![p] = <<>>]
           g == [h EXCEPT !.subscribers = f]
<1> HIDE DEF f
<1>1. /\ HeapFields \subseteq DOMAIN g /\ g.subscribers = f /\ g.state = h.state
      /\ g.result = h.result /\ g.queue = h.queue /\ g.scheduled = h.scheduled
      /\ g.made = h.made /\ g.deferred = h.deferred /\ g.foreign = h.foreign
      /\ g.enums = h.enums
  BY DEF Typed, HeapFields
<1> HIDE DEF g
<1>2. /\ f = [q \in Promises |-> f[q]] /\ f[p] = <<>> /\ \A q \in Promises : q # p => f[q] = h.subscribers[q]
  BY DEF f, Typed, Subscribers
<1>3. Typed(g)
  <2>1. Jobs(g)  BY <1>1 DEF Typed, Jobs, JobOK, CallbackOK
  <2>2. Shape(g)  BY <1>1 DEF Typed, Shape, HeapFields
  <2>3. \A s : SubscriberOK(h, s) => SubscriberOK(g, s)  BY <1>1, StillOK
  <2>4. IsSeq(<<>>) /\ DOMAIN (<<>>) = {}
    <3>1. <<>> \in Seq({}) /\ DOMAIN (<<>>) = {}  OBVIOUS
    <3> QED  BY <3>1 DEF IsSeq
  <2>5. Subscribers(g)  BY <1>1, <1>2, <2>3, <2>4 DEF Typed, Subscribers
  <2> QED  BY <1>1, <2>1, <2>2, <2>5 DEF Typed, Made
<1>4. DOMAIN g.subscribers[p] = {}  BY <1>1, <1>2
<1>5. \A q \in Promises : \A k, r : OfSub(g, q, k, r) <=> OfSub(h, q, k, r) /\ q # p
  BY <1>1, <1>2, <1>4 DEF OfSub
<1>6. a \in Nat \ {0} /\ a <= Len(h.queue) /\ Len(h.queue) \in Nat  BY JobIndex
<1>7. \A q \in DOMAIN h.queue : q \in Nat /\ (a <= q /\ q # a <=> a + 1 <= q)  BY <1>6, JobIndex
<1>8. \A q : q # p => h.queue[a] # Publish(q)
  <2>1. \A q : Publish(q).promise = q  BY DEF Publish
  <2> QED  BY <2>1
<1>9. h.queue[a].k # "invoke"  BY DEF Publish
<1>10. \A q : Awaits(g, a + 1, q) <=> Awaits(h, a, q)  BY <1>1, <1>7, <1>9 DEF Awaits
<1>11. \A q, r : OfJob(g, a + 1, q, r) <=> OfJob(h, a, q, r)
  BY <1>1, <1>10 DEF OfJob, CalledFor
<1>12. Flow(g, a + 1, 1)  BY <1>1, <1>6 DEF Flow
<1>13. Published(g, a + 1)
  <2> SUFFICES ASSUME NEW q \in Full(g)
               PROVE  \E b \in DOMAIN h.queue : a + 1 <= b /\ h.queue[b] = Publish(q)
    BY <1>1 DEF Published
  <2>1. q \in Full(h) /\ q # p  BY <1>1, <1>2, <1>4 DEF Full
  <2>2. PICK b \in DOMAIN h.queue : a <= b /\ h.queue[b] = Publish(q)  BY <2>1 DEF Published
  <2> QED  BY <2>1, <2>2, <1>7, <1>8
<1>14. Reacted(g, R)  BY <1>1 DEF Reacted
<1>15. Known(g, a + 1, R)
  <2>1. ASSUME NEW q \in Promises, NEW k \in DOMAIN g.subscribers[q],
               Mine(g.subscribers[q][k].ok) \/ Mine(g.subscribers[q][k].err)
        PROVE  \E n \in DOMAIN R : OfSub(g, q, k, R[n])
    <3>1. q # p  BY <1>4
    <3>2. g.subscribers[q] = h.subscribers[q]  BY <3>1, <1>1, <1>2
    <3>3. PICK n \in DOMAIN R : OfSub(h, q, k, R[n])  BY <2>1, <3>2 DEF Known
    <3> QED  BY <3>1, <3>3, <1>5
  <2>2. \A q : Awaits(g, a + 1, q) => \E n \in DOMAIN R : OfJob(g, a + 1, q, R[n])
    BY <1>10, <1>11 DEF Known
  <2> QED  BY <2>1, <2>2 DEF Known
<1>16. SubsOrdered(g, R)  BY <1>5 DEF SubsOrdered
<1>17. JobsOrdered(g, a + 1, R)  BY <1>11 DEF JobsOrdered
<1>18. SubsFirst(g, a + 1, R)
  <2> SUFFICES ASSUME NEW x \in Promises, NEW k, NEW q, NEW m \in DOMAIN R, NEW n \in DOMAIN R,
                      OfSub(h, x, k, R[m]), x # p, OfJob(h, a, q, R[n]), R[n].parent = x
               PROVE  m < n /\ \E b \in DOMAIN h.queue : a + 1 <= b /\ b < q /\ h.queue[b] = Publish(x)
    BY <1>1, <1>5, <1>11 DEF SubsFirst
  <2>1. m < n /\ \E b \in DOMAIN h.queue : a <= b /\ b < q /\ h.queue[b] = Publish(x)
    BY DEF SubsFirst
  <2> QED  BY <2>1, <1>7, <1>8
<1>19. CallsRight(g, R, C)  BY <1>1 DEF CallsRight
<1>20. \A x, k : x # p => ~Served(h, a, t, x, k)  BY <1>8 DEF Served
<1>21. \A n \in DOMAIN R : R[n].parent \in Promises  BY DEF Reacted
<1>22. CallsFirst(g, a + 1, 1, R, C)
  BY <1>5, <1>11, <1>20, <1>21 DEF CallsFirst
<1>23. Due(g, a + 1, 1, R, C)
  <2> SUFFICES ASSUME NEW n \in DOMAIN R PROVE IsDue(g, a + 1, 1, R[n], C)
    BY DEF Due
  <2>1. IsDue(h, a, t, R[n], C)  BY DEF Due
  <2>2. \A k : OfSub(h, R[n].parent, k, R[n]) /\ ~Served(h, a, t, R[n].parent, k) => R[n].parent # p
    BY DEF OfSub, Served
  <2>3. \A k : OfSub(g, R[n].parent, k, R[n]) => ~Served(g, a + 1, 1, R[n].parent, k)
    BY <1>3, <1>14, FirstTurn
  <2>4. CalledFor(g, R[n]) = CalledFor(h, R[n])  BY <1>1 DEF CalledFor
  <2>5. \A k : OfSub(h, R[n].parent, k, R[n]) /\ ~Served(h, a, t, R[n].parent, k)
               => OfSub(g, R[n].parent, k, R[n]) /\ ~Served(g, a + 1, 1, R[n].parent, k)
    BY <2>2, <2>3, <1>5, <1>21
  <2> QED  BY <2>1, <2>4, <2>5, <1>1, <1>11 DEF IsDue
<1>24. World(g, a + 1, 1, R, C)
  BY <1>3, <1>12, <1>13, <1>14, <1>15, <1>16, <1>17, <1>18, <1>19, <1>22, <1>23
<1> QED  BY <1>24 DEF g, f

\* flush begins with the first job.
LEMMA StartWorld ==
  ASSUME NEW h, NEW R, NEW C, World(h, 0, 1, R, C)
  PROVE  World([h EXCEPT !.scheduled = FALSE], 1, 1, R, C)
<1> USE DEF World
<1> DEFINE g == [h EXCEPT !.scheduled = FALSE]
<1>1. /\ HeapFields \subseteq DOMAIN g /\ g.subscribers = h.subscribers /\ g.state = h.state
      /\ g.result = h.result /\ g.queue = h.queue /\ g.scheduled = FALSE
      /\ g.made = h.made /\ g.deferred = h.deferred /\ g.foreign = h.foreign
      /\ g.enums = h.enums
  BY DEF Typed, HeapFields
<1> HIDE DEF g
<1>2. Typed(g)
  <2>1. Jobs(g)  BY <1>1 DEF Typed, Jobs, JobOK, CallbackOK
  <2>2. Shape(g)  BY <1>1 DEF Typed, Shape, HeapFields
  <2>3. \A s : SubscriberOK(h, s) => SubscriberOK(g, s)  BY <1>1, StillOK
  <2>4. Subscribers(g)  BY <1>1, <2>3 DEF Typed, Subscribers
  <2> QED  BY <1>1, <2>1, <2>2, <2>4 DEF Typed, Made
<1>3. \A q \in DOMAIN h.queue : q \in Nat \ {0} /\ (0 <= q <=> 1 <= q)  BY JobIndex
<1>4. \A q, k, r : OfSub(g, q, k, r) <=> OfSub(h, q, k, r)  BY <1>1 DEF OfSub
<1>5. \A q : Awaits(g, 1, q) <=> Awaits(h, 0, q)  BY <1>1, <1>3 DEF Awaits
<1>6. \A q, r : OfJob(g, 1, q, r) <=> OfJob(h, 0, q, r)  BY <1>1, <1>5 DEF OfJob, CalledFor
<1>7. Flow(g, 1, 1)  BY <1>1, SeqFacts DEF Flow, Typed, Jobs
<1>8. Published(g, 1)  BY <1>1, <1>3 DEF Published, Full
<1>9. Reacted(g, R)  BY <1>1 DEF Reacted
<1>10. Known(g, 1, R)  BY <1>1, <1>4, <1>5, <1>6 DEF Known
<1>11. SubsOrdered(g, R)  BY <1>4 DEF SubsOrdered
<1>12. JobsOrdered(g, 1, R)  BY <1>6 DEF JobsOrdered
<1>13. SubsFirst(g, 1, R)
  <2> SUFFICES ASSUME NEW x \in Promises, NEW k, NEW q, NEW m \in DOMAIN R, NEW n \in DOMAIN R,
                      OfSub(h, x, k, R[m]), OfJob(h, 0, q, R[n]), R[n].parent = x
               PROVE  m < n /\ \E b \in DOMAIN h.queue : 1 <= b /\ b < q /\ h.queue[b] = Publish(x)
    BY <1>1, <1>4, <1>6 DEF SubsFirst
  <2>1. m < n /\ \E b \in DOMAIN h.queue : 0 <= b /\ b < q /\ h.queue[b] = Publish(x)
    BY DEF SubsFirst
  <2> QED  BY <2>1, <1>3
<1>14. CallsRight(g, R, C)  BY <1>1 DEF CallsRight
<1>15. CallsFirst(g, 1, 1, R, C)  BY <1>4, <1>6, FirstTurn DEF CallsFirst
<1>16. Due(g, 1, 1, R, C)
  <2> SUFFICES ASSUME NEW n \in DOMAIN R PROVE IsDue(g, 1, 1, R[n], C)
    BY DEF Due
  <2>1. IsDue(h, 0, 1, R[n], C)  BY DEF Due
  <2>2. \A k : OfSub(g, R[n].parent, k, R[n]) => ~Served(g, 1, 1, R[n].parent, k)
    BY <1>2, <1>9, FirstTurn
  <2> QED  BY <2>1, <2>2, <1>1, <1>4, <1>6 DEF IsDue, CalledFor
<1> QED
  BY <1>2, <1>7, <1>8, <1>9, <1>10, <1>11, <1>12, <1>13, <1>14, <1>15, <1>16 DEF g

\* flush ends: no job is left, and nobody who should be published.
LEMMA EndWorld ==
  ASSUME NEW h, NEW a, NEW t, NEW R, NEW C, World(h, a, t, R, C), a > Len(h.queue)
  PROVE  t = 1 /\ World([h EXCEPT !.queue = <<>>], 0, 1, R, C)
<1> USE DEF World
<1> DEFINE g == [h EXCEPT !.queue = <<>>]
<1>1. /\ HeapFields \subseteq DOMAIN g /\ g.subscribers = h.subscribers /\ g.state = h.state
      /\ g.result = h.result /\ g.queue = <<>> /\ g.scheduled = h.scheduled
      /\ g.made = h.made /\ g.deferred = h.deferred /\ g.foreign = h.foreign
      /\ g.enums = h.enums
  BY DEF Typed, HeapFields
<1> HIDE DEF g
<1>2. IsSeq(<<>>) /\ DOMAIN (<<>>) = {} /\ Len(<<>>) = 0
  <2>1. <<>> \in Seq({}) /\ DOMAIN (<<>>) = {} /\ Len(<<>>) = 0  OBVIOUS
  <2> QED  BY <2>1 DEF IsSeq
<1>3. Typed(g)
  <2>1. Jobs(g)  BY <1>1, <1>2 DEF Jobs
  <2>2. Shape(g)  BY <1>1 DEF Typed, Shape, HeapFields
  <2>3. \A s : SubscriberOK(h, s) => SubscriberOK(g, s)  BY <1>1, StillOK
  <2>4. Subscribers(g)  BY <1>1, <2>3 DEF Typed, Subscribers
  <2> QED  BY <1>1, <2>1, <2>2, <2>4 DEF Typed, Made
<1>4. \A q \in DOMAIN h.queue : ~(a <= q)  BY JobIndex DEF Flow
<1>5. t = 1
  <2>1. a \in Nat /\ a \notin DOMAIN h.queue
    <3>1. a \in Nat  BY DEF Flow
    <3> QED  BY <3>1, JobIndex
  <2> QED  BY <2>1 DEF Flow
<1>6. \A q, k, r : OfSub(g, q, k, r) <=> OfSub(h, q, k, r)  BY <1>1 DEF OfSub
<1>7. \A q : ~Awaits(g, 0, q) /\ ~Awaits(h, a, q)  BY <1>1, <1>2, <1>4 DEF Awaits
<1>8. \A q, r : ~OfJob(g, 0, q, r) /\ ~OfJob(h, a, q, r)  BY <1>7 DEF OfJob
<1>9. Flow(g, 0, 1)  BY <1>1, <1>2 DEF Flow
<1>10. Full(h) = {}  BY <1>4 DEF Published
<1>11. Published(g, 0)  BY <1>1, <1>10 DEF Published, Full
<1>12. Reacted(g, R)  BY <1>1 DEF Reacted
<1>13. Known(g, 0, R)  BY <1>1, <1>6, <1>7 DEF Known
<1>14. SubsOrdered(g, R)  BY <1>6 DEF SubsOrdered
<1>15. JobsOrdered(g, 0, R) /\ SubsFirst(g, 0, R)  BY <1>8 DEF JobsOrdered, SubsFirst
<1>16. CallsRight(g, R, C)  BY <1>1 DEF CallsRight
<1>17. CallsFirst(g, 0, 1, R, C)  BY <1>5, <1>6, <1>8, FirstTurn DEF CallsFirst
<1>18. Due(g, 0, 1, R, C)
  <2> SUFFICES ASSUME NEW n \in DOMAIN R PROVE IsDue(g, 0, 1, R[n], C)
    BY DEF Due
  <2>1. IsDue(h, a, t, R[n], C)  BY DEF Due
  <2>2. \A k : OfSub(g, R[n].parent, k, R[n]) => ~Served(g, 0, 1, R[n].parent, k)
    BY <1>3, <1>12, FirstTurn
  <2> QED  BY <2>1, <2>2, <1>1, <1>6, <1>8 DEF IsDue, CalledFor
<1>19. World(g, 0, 1, R, C)
  BY <1>3, <1>9, <1>11, <1>12, <1>13, <1>14, <1>15, <1>16, <1>17, <1>18
<1> QED  BY <1>5, <1>19 DEF g

-----------------------------------------------------------------------------
(* A new reaction                                                          *)

\* A reaction that is behind all others of its parent may be added to them.
LEMMA ReactNext ==
  ASSUME NEW h, NEW a, NEW t, NEW R, NEW C, World(h, a, t, R, C), NEW g, NEW r,
         Typed(g), Flow(g, a, t), Published(g, a), Known(g, a, Append(R, r)),
         g.state = h.state, g.result = h.result, g.made = h.made, Extends(h.queue, g.queue),
         r.parent \in Promises, r.child \in h.made, Callbacks(r.ok, r.err),
         \A n \in DOMAIN R : R[n].child # r.child,
         \A i \in DOMAIN C : C[i].child # r.child,
         \A p \in Promises : \A k : \A n \in DOMAIN R : OfSub(g, p, k, R[n]) <=> OfSub(h, p, k, R[n]),
         \A q : \A n \in DOMAIN R : OfJob(g, a, q, R[n]) <=> OfJob(h, a, q, R[n]),
         \A k, l : OfSub(g, r.parent, k, r) =>
            /\ OfSub(g, r.parent, l, r) => k = l
            /\ \A n \in DOMAIN R : OfSub(g, r.parent, l, R[n]) => l < k
            /\ h.state[r.parent] = PENDING,
         \A q, l : OfJob(g, a, q, r) =>
            /\ OfJob(g, a, l, r) => q = l
            /\ \A n \in DOMAIN R : OfJob(g, a, l, R[n]) => l < q,
         \A q, k : \A n \in DOMAIN R : OfJob(g, a, q, r) /\ OfSub(g, r.parent, k, R[n]) =>
            \E b \in DOMAIN g.queue : a <= b /\ b < q /\ g.queue[b] = Publish(r.parent),
         IsDue(g, a, t, r, C)
  PROVE  World(g, a, t, Append(R, r), C)
<1> USE DEF World
<1>0. ASSUME NEW x \in Promises, NEW k \in DOMAIN h.subscribers[x]
      PROVE  Served(g, a, t, x, k) <=> Served(h, a, t, x, k)
  <2>1. k \in Nat \ {0}  BY SubIndex
  <2>2. k < t => t > 1  BY <2>1 DEF Flow
  <2>3. t > 1 => g.queue[a] = h.queue[a]  BY DEF Flow, Extends
  <2> QED  BY <2>2, <2>3 DEF Served
<1> DEFINE S == Append(R, r)
           z == Len(R) + 1
<1>1. /\ IsSeq(S) /\ Len(R) \in Nat /\ DOMAIN R = 1 .. Len(R)
      /\ DOMAIN S = 1 .. Len(R) + 1 /\ (\A i \in 1 .. Len(R) : S[i] = R[i]) /\ S[z] = r
  BY SeqAppend DEF Reacted
<1> HIDE DEF S
<1>2. \A n \in DOMAIN S : (n \in DOMAIN R /\ S[n] = R[n] /\ n < z) \/ (n = z /\ S[n] = r)
  BY <1>1
<1>3. Reacted(g, S)
  <2>1. ASSUME NEW n \in DOMAIN S
        PROVE  /\ S[n].parent \in Promises /\ S[n].child \in g.made
               /\ Mine(S[n].ok) \/ S[n].ok = NoCallback
               /\ Mine(S[n].err) \/ S[n].err = NoCallback
               /\ Mine(S[n].ok) \/ Mine(S[n].err)
               /\ S[n].ok.k = "finally" <=> S[n].err.k = "finally"
    BY <1>2 DEF Reacted, Callbacks
  <2>2. \A m, n \in DOMAIN S : S[m].child = S[n].child => m = n
    BY <1>2 DEF Reacted
  <2> QED  BY <1>1, <2>1, <2>2 DEF Reacted
<1>4. \A m \in DOMAIN R : m < z /\ ~(z < z)  BY <1>1
<1>5. SubsOrdered(g, S)
  <2> SUFFICES ASSUME NEW p \in Promises, NEW k, NEW l, NEW m \in DOMAIN S, NEW n \in DOMAIN S,
                      OfSub(g, p, k, S[m]), OfSub(g, p, l, S[n]), k < l
               PROVE  m < n
    BY DEF SubsOrdered
  <2>0. k \in Nat /\ l \in Nat  BY SubIndex DEF OfSub
  <2>1. CASE m \in DOMAIN R /\ n \in DOMAIN R /\ S[m] = R[m] /\ S[n] = R[n]
    BY <2>1 DEF SubsOrdered
  <2>2. CASE m \in DOMAIN R /\ n = z  BY <2>2, <1>4
  <2>3. CASE m = z /\ S[m] = r
    <3>1. p = r.parent  BY <2>3 DEF OfSub
    <3>2. CASE n = z /\ S[n] = r
      <4>1. k = l  BY <2>3, <3>1, <3>2
      <4> QED  BY <4>1, <2>0
    <3>3. CASE n \in DOMAIN R /\ S[n] = R[n]
      <4>1. l < k  BY <2>3, <3>1, <3>3
      <4> QED  BY <4>1, <2>0
    <3> QED  BY <1>2, <3>2, <3>3
  <2> QED  BY <1>2, <2>1, <2>2, <2>3
<1>6. JobsOrdered(g, a, S)
  <2> SUFFICES ASSUME NEW k, NEW l, NEW m \in DOMAIN S, NEW n \in DOMAIN S,
                      OfJob(g, a, k, S[m]), OfJob(g, a, l, S[n]), k < l, S[m].parent = S[n].parent
               PROVE  m < n
    BY DEF JobsOrdered
  <2>0. k \in Nat /\ l \in Nat  BY JobIndex DEF OfJob, Awaits
  <2>1. CASE m \in DOMAIN R /\ n \in DOMAIN R /\ S[m] = R[m] /\ S[n] = R[n]
    BY <2>1 DEF JobsOrdered
  <2>2. CASE m \in DOMAIN R /\ n = z  BY <2>2, <1>4
  <2>3. CASE m = z /\ S[m] = r
    <3>1. CASE n = z /\ S[n] = r
      <4>1. k = l  BY <2>3, <3>1
      <4> QED  BY <4>1, <2>0
    <3>2. CASE n \in DOMAIN R /\ S[n] = R[n]
      <4>1. l < k  BY <2>3, <3>2
      <4> QED  BY <4>1, <2>0
    <3> QED  BY <1>2, <3>1, <3>2
  <2> QED  BY <1>2, <2>1, <2>2, <2>3
<1>7. SubsFirst(g, a, S)
  <2> SUFFICES ASSUME NEW p \in Promises, NEW k, NEW q, NEW m \in DOMAIN S, NEW n \in DOMAIN S,
                      OfSub(g, p, k, S[m]), OfJob(g, a, q, S[n]), S[n].parent = p
               PROVE  m < n /\ \E b \in DOMAIN g.queue : a <= b /\ b < q /\ g.queue[b] = Publish(p)
    BY DEF SubsFirst
  <2>1. CASE m \in DOMAIN R /\ n \in DOMAIN R /\ S[m] = R[m] /\ S[n] = R[n]
    <3>1. m < n /\ \E b \in DOMAIN h.queue : a <= b /\ b < q /\ h.queue[b] = Publish(p)
      BY <2>1 DEF SubsFirst
    <3> QED  BY <3>1 DEF Extends
  <2>2. CASE m \in DOMAIN R /\ S[m] = R[m] /\ n = z /\ S[n] = r
    BY <2>2, <1>4
  <2>3. CASE m = z /\ S[m] = r
    <3>1. p = r.parent /\ h.state[p] = PENDING  BY <2>3 DEF OfSub
    <3>2. g.state[p] # PENDING  BY DEF OfJob
    <3> QED  BY <3>1, <3>2
  <2> QED  BY <1>2, <2>1, <2>2, <2>3
<1>8. CallsRight(g, S, C)
  <2>1. \A i \in DOMAIN C : \A m \in DOMAIN S :
           C[i].child = S[m].child => m \in DOMAIN R /\ S[m] = R[m]
    BY <1>2
  <2>2. \A i \in DOMAIN C : \A m \in DOMAIN S : C[i].child = S[m].child =>
           g.state[S[m].parent] # PENDING /\ C[i].detail = g.result[S[m].parent]
    BY <2>1 DEF CallsRight
  <2>3. \A i, j \in DOMAIN C : \A m, n \in DOMAIN S :
          C[i].child = S[m].child /\ C[j].child = S[n].child /\ S[m].parent = S[n].parent /\ i < j
             => m < n
    BY <2>1 DEF CallsRight
  <2> QED  BY <2>2, <2>3 DEF CallsRight
<1>9. CallsFirst(g, a, t, S, C)
  <2> SUFFICES ASSUME NEW i \in DOMAIN C, NEW m \in DOMAIN S, NEW n \in DOMAIN S,
                      C[i].child = S[m].child, S[m].parent = S[n].parent
               PROVE  /\ \A k : OfSub(g, S[n].parent, k, S[n]) /\ ~Served(g, a, t, S[n].parent, k) => m < n
                      /\ \A q : OfJob(g, a, q, S[n]) => m < n
    BY DEF CallsFirst
  <2>1. m \in DOMAIN R /\ S[m] = R[m]  BY <1>2
  <2>2. CASE n = z  BY <2>1, <2>2, <1>4
  <2>3. CASE n \in DOMAIN R /\ S[n] = R[n]
    <3>1. R[n].parent \in Promises  BY <2>3 DEF Reacted
    <3>2. \A k : OfSub(h, R[n].parent, k, R[n]) /\ ~Served(h, a, t, R[n].parent, k) => m < n
      BY <2>1, <2>3, Zenon DEF CallsFirst
    <3>3. \A q : OfJob(h, a, q, R[n]) => m < n  BY <2>1, <2>3 DEF CallsFirst
    <3>4. \A k : OfSub(h, R[n].parent, k, R[n]) /\ ~Served(g, a, t, R[n].parent, k) => m < n
      BY <1>0, <3>1, <3>2 DEF OfSub
    <3> QED  BY <2>3, <3>1, <3>3, <3>4
  <2> QED  BY <1>2, <2>2, <2>3
<1>10. Due(g, a, t, S, C)
  <2> SUFFICES ASSUME NEW n \in DOMAIN R PROVE IsDue(g, a, t, R[n], C)
    BY <1>2 DEF Due
  <2>1. IsDue(h, a, t, R[n], C)  BY DEF Due
  <2>2. R[n].parent \in Promises  BY DEF Reacted
  <2>3. Reacted(g, R)  BY DEF Reacted
  <2>4. \A k : OfSub(h, R[n].parent, k, R[n]) /\ ~Served(h, a, t, R[n].parent, k) =>
           OfSub(g, R[n].parent, k, R[n]) /\ ~Served(g, a, t, R[n].parent, k)
    BY <1>0, <2>2 DEF OfSub
  <2> QED  BY <2>1, <2>4 DEF IsDue, CalledFor
<1> QED  BY <1>3, <1>5, <1>6, <1>7, <1>8, <1>9, <1>10 DEF S

LEMMA ReactWorld ==
  ASSUME NEW h, NEW a, NEW t, NEW R, NEW C, World(h, a, t, R, C), Room(h, 1), NEW p \in Promises,
         NEW ok, NEW err, CallbackOK(h, ok), CallbackOK(h, err), Callbacks(ok, err)
  PROVE  /\ World(then(h, p, ok, err), a, t,
                  Append(R, [parent |-> p, child |-> NewPromise(h), ok |-> ok, err |-> err]), C)
         /\ Makes(h, then(h, p, ok, err), 1)
         /\ TurnOK(h, a, t) => TurnOK(then(h, p, ok, err), a, t)
<1> USE DEF World
<1> DEFINE c == NewPromise(h)
           m == makePromise(h)
           s == [child |-> c, ok |-> ok, err |-> err]
           r == [parent |-> p, child |-> c, ok |-> ok, err |-> err]
           cb == IF m.state[p] = FULFILLED THEN ok ELSE err
           job == [k |-> "invoke", settled |-> m.state[p], child |-> c,
                   callback |-> cb, detail |-> m.result[p]]
           g == then(h, p, ok, err)
           S == Append(R, r)
           z == Len(R) + 1
<1>1. Calm(h, m) /\ Makes(h, m, 1)  BY makeCalm DEF Quietly
<1>2. World(m, a, t, R, C) /\ (TurnOK(h, a, t) => TurnOK(m, a, t))
  BY <1>1, CalmWorld, makeFields DEF TurnOK, QueueSame
<1>3. c \in Promises /\ c \notin h.made  BY NewPromiseFresh
<1>4. m.state = h.state /\ m.result = h.result /\ m.enums = h.enums /\ m.made = h.made \cup {c}
  BY makeFields
<1>5. g = IF m.state[p] = PENDING THEN subscribe(m, p, c, ok, err) ELSE asap(m, job)
  BY <1>4 DEF then
<1>6. CallbackOK(m, ok) /\ CallbackOK(m, err)  BY <1>4, StillOK
<1>7. /\ r.parent = p /\ r.child = c /\ r.ok = ok /\ r.err = err
      /\ s.child = c /\ s.ok = ok /\ s.err = err
      /\ s = [child |-> r.child, ok |-> r.ok, err |-> r.err]
  OBVIOUS
<1>8. /\ job.k = "invoke" /\ job.child = c /\ job.callback = cb /\ job.detail = m.result[p]
  OBVIOUS
<1>9. CalledFor(m, r) = cb  BY DEF CalledFor
<1> HIDE DEF c, m, r, s, job, g, cb
<1>0. /\ Flow(m, a, t) /\ a \in Nat /\ t \in Nat \ {0}
      /\ t > 1 => /\ a \in DOMAIN m.queue /\ m.queue[a].promise \in Promises
                  /\ m.queue[a] = Publish(m.queue[a].promise)
                  /\ m.state[m.queue[a].promise] # PENDING
  BY <1>2 DEF Flow, Typed, Jobs, JobOK
<1>10. /\ IsSeq(S) /\ Len(R) \in Nat /\ DOMAIN R = 1 .. Len(R)
       /\ DOMAIN S = 1 .. Len(R) + 1 /\ (\A i \in 1 .. Len(R) : S[i] = R[i]) /\ S[z] = r
  BY SeqAppend DEF Reacted
<1>11. z \in DOMAIN S /\ \A n \in DOMAIN R : n \in DOMAIN S /\ S[n] = R[n]  BY <1>10
<1> HIDE DEF S
<1>12. \A n \in DOMAIN R : R[n].child # c  BY <1>3 DEF Reacted
<1>13. \A i \in DOMAIN C : C[i].child # c  BY <1>3 DEF CallsRight
<1>14. \A k : ~OfSub(m, p, k, r)
  <2> SUFFICES ASSUME NEW k, OfSub(m, p, k, r) PROVE FALSE  OBVIOUS
  <2>1. /\ k \in DOMAIN m.subscribers[p] /\ m.subscribers[p][k].ok = ok
        /\ m.subscribers[p][k].err = err /\ m.subscribers[p][k].child = c
    BY <1>7 DEF OfSub
  <2>2. PICK n \in DOMAIN R : OfSub(m, p, k, R[n])  BY <1>2, <2>1 DEF Known, Callbacks
  <2>3. m.subscribers[p][k].child = R[n].child  BY <2>2 DEF OfSub
  <2> QED  BY <2>1, <2>3, <1>12
<1>15. \A q : Awaits(m, a, q) => m.queue[q].child # c
  <2> SUFFICES ASSUME NEW q, Awaits(m, a, q) PROVE m.queue[q].child # c  OBVIOUS
  <2>1. PICK n \in DOMAIN R : OfJob(m, a, q, R[n])  BY <1>2 DEF Known
  <2> QED  BY <2>1, <1>12 DEF OfJob
<1>16. CASE m.state[p] = PENDING
  <2>1. SubscriberOK(m, s)  BY <1>3, <1>6, <1>7 DEF SubscriberOK
  <2>2. Subscribed(m, g, p, s)  BY <1>2, <1>5, <1>16, subscribeFields DEF s
  <2>3. /\ Typed(g) /\ Publishes(m, g)
        /\ \A q \in Promises : Extends(m.subscribers[q], g.subscribers[q])
        /\ \A q \in Promises : q # p => g.subscribers[q] = m.subscribers[q]
        /\ DOMAIN g.subscribers[p] \ DOMAIN m.subscribers[p] = {Len(m.subscribers[p]) + 1}
        /\ g.subscribers[p][Len(m.subscribers[p]) + 1] = s
    BY <1>2, <2>1, <2>2, SubscribedFacts
  <2>4. /\ g.state = m.state /\ g.result = m.result /\ g.made = m.made /\ g.queue = m.queue
        /\ g.scheduled = m.scheduled /\ g.deferred = m.deferred
    BY <2>2, <1>16 DEF Subscribed, OthersSame, QueueSame
  <2> DEFINE y == Len(m.subscribers[p]) + 1
  <2>5. y \in DOMAIN g.subscribers[p] /\ y \notin DOMAIN m.subscribers[p]  BY <2>3
  <2>6. \A k \in DOMAIN m.subscribers[p] : k < y  BY <1>2, SubIndex
  <2> HIDE DEF y
  <2>7. \A k : OfSub(g, p, k, r) <=> k = y
    <3>1. ASSUME NEW k, OfSub(g, p, k, r) PROVE k = y
      <4>1. k \in DOMAIN m.subscribers[p] => OfSub(m, p, k, r)
        BY <2>3, <3>1 DEF OfSub, Extends
      <4> QED  BY <4>1, <1>14, <2>3, <3>1 DEF OfSub, y
    <3>2. OfSub(g, p, y, r)  BY <2>3, <2>5, <1>7 DEF OfSub, y
    <3> QED  BY <3>1, <3>2
  <2>8. \A x \in Promises : \A k : \A n \in DOMAIN R : OfSub(g, x, k, R[n]) <=> OfSub(m, x, k, R[n])
    <3> SUFFICES ASSUME NEW k, NEW n \in DOMAIN R
                 PROVE  OfSub(g, p, k, R[n]) <=> OfSub(m, p, k, R[n])
      BY <2>3 DEF OfSub
    <3>1. k = y => ~OfSub(g, p, k, R[n])  BY <2>3, <1>7, <1>12 DEF OfSub, y
    <3>2. k # y => (k \in DOMAIN g.subscribers[p] <=> k \in DOMAIN m.subscribers[p])
      BY <2>3 DEF Extends, y
    <3>3. k \in DOMAIN m.subscribers[p] => g.subscribers[p][k] = m.subscribers[p][k]
      BY <2>3 DEF Extends
    <3> QED  BY <3>1, <3>2, <3>3, <2>5 DEF OfSub
  <2>9. \A q, x : OfJob(g, a, q, x) <=> OfJob(m, a, q, x)
    BY <2>4 DEF OfJob, Awaits, CalledFor
  <2>10. \A q : ~OfJob(g, a, q, r)  BY <1>7, <1>16, <2>4 DEF OfJob
  <2>11. Flow(g, a, t)
    <3>1. t > 1 => g.subscribers[m.queue[a].promise] = m.subscribers[m.queue[a].promise]
      BY <1>0, <1>16, <2>3
    <3> QED  BY <1>0, <2>4, <3>1 DEF Flow
  <2>12. Published(g, a)
    <3>1. Full(g) \subseteq Full(m)  BY <1>16, <2>3, <2>4 DEF Full
    <3> QED  BY <1>2, <3>1, <2>4 DEF Published
  <2>13. Known(g, a, S)
    <3>1. ASSUME NEW x \in Promises, NEW k \in DOMAIN g.subscribers[x],
                 Mine(g.subscribers[x][k].ok) \/ Mine(g.subscribers[x][k].err)
          PROVE  \E n \in DOMAIN S : OfSub(g, x, k, S[n])
      <4>1. CASE x = p /\ k = y
        <5>1. OfSub(g, x, k, S[z])  BY <4>1, <2>7, <1>10
        <5> QED  BY <5>1, <1>11
      <4>2. CASE ~(x = p /\ k = y)
        <5>1. k \in DOMAIN m.subscribers[x] /\ g.subscribers[x][k] = m.subscribers[x][k]
          BY <4>2, <2>3 DEF Extends, y
        <5>2. PICK n \in DOMAIN R : OfSub(m, x, k, R[n])  BY <3>1, <5>1, <1>2 DEF Known
        <5> QED  BY <5>2, <2>8, <1>11
      <4> QED  BY <4>1, <4>2
    <3>2. \A q : Awaits(g, a, q) => \E n \in DOMAIN S : OfJob(g, a, q, S[n])
      <4> SUFFICES ASSUME NEW q, Awaits(g, a, q) PROVE \E n \in DOMAIN S : OfJob(g, a, q, S[n])
        OBVIOUS
      <4>1. Awaits(m, a, q)  BY <2>4 DEF Awaits
      <4>2. PICK n \in DOMAIN R : OfJob(m, a, q, R[n])  BY <4>1, <1>2 DEF Known
      <4> QED  BY <4>2, <2>9, <1>11
    <3> QED  BY <3>1, <3>2 DEF Known
  <2>14. IsDue(g, a, t, r, C)
    <3>1. ~Served(g, a, t, p, y)
      <4>1. y \in Nat \ {0}  BY <2>3, <2>5, SubIndex
      <4>2. y < t => t > 1  BY <1>0, <4>1
      <4>3. t > 1 => m.queue[a] # Publish(p)  BY <1>0, <1>16 DEF Publish
      <4> QED  BY <2>4, <4>2, <4>3 DEF Served
    <3> QED  BY <3>1, <2>7, <1>7 DEF IsDue
  <2>15. \A k, l : OfSub(g, r.parent, k, r) =>
            /\ OfSub(g, r.parent, l, r) => k = l
            /\ \A n \in DOMAIN R : OfSub(g, r.parent, l, R[n]) => l < k
            /\ m.state[r.parent] = PENDING
    <3>1. \A l : \A n \in DOMAIN R : OfSub(g, p, l, R[n]) => l < y  BY <2>6, <2>8 DEF OfSub
    <3> QED  BY <3>1, <2>7, <1>7, <1>16
  <2>16. Extends(m.queue, g.queue)  BY <2>4, ExtendsSame
  <2>17. World(g, a, t, S, C)
    <3> HIDE DEF World
    <3>1. Callbacks(r.ok, r.err) /\ r.parent \in Promises /\ r.child \in m.made
      BY <1>4, <1>7
    <3> QED
      BY <1>2, <1>7, <1>12, <1>13, <2>3, <2>4, <2>8, <2>9, <2>10, <2>11, <2>12, <2>13, <2>14,
         <2>15, <2>16, <3>1, ReactNext, ZenonT(60) DEF S
  <2>18. Makes(h, g, 1)  BY <1>1, <2>4 DEF Makes
  <2>19. TurnOK(m, a, t) => TurnOK(g, a, t)  BY <1>0, <1>16, <2>3, <2>4 DEF TurnOK
  <2> QED  BY <1>2, <2>17, <2>18, <2>19 DEF S, r, c, g
<1>17. CASE m.state[p] # PENDING
  <2>1. g = asap(m, job)  BY <1>5, <1>17
  <2>2. /\ OthersSame(m, g) /\ Queued(m, g, job) /\ g.state = m.state /\ g.result = m.result
        /\ g.subscribers = m.subscribers
    BY <1>2, <2>1, asapFields DEF Typed, Jobs
  <2>3. Kept(m, g)  BY <1>2, <2>2 DEF Typed, Kept, Shape, OthersSame, HeapFields
  <2>4. g.enums = m.enums /\ g.made = m.made /\ g.deferred = m.deferred  BY <2>2 DEF OthersSame
  <2>5. JobOK(m, job)  BY <1>3, <1>6, <1>8 DEF JobOK, cb
  <2>6. JobOK(g, job)  BY <2>3, <2>4, <2>5, StillOK
  <2> DEFINE y == Len(m.queue) + 1
  <2>7. /\ Jobs(g) /\ Extends(m.queue, g.queue)
        /\ DOMAIN g.queue \ DOMAIN m.queue = {y}
        /\ y \in DOMAIN g.queue /\ y \notin DOMAIN m.queue
        /\ g.queue[y] = job
    BY <1>2, <2>2, <2>3, <2>4, <2>6, QueueFacts
  <2>8. \A k \in DOMAIN m.queue : k < y /\ k \in Nat  BY <1>2, JobIndex
  <2> HIDE DEF y
  <2>9. Typed(g)
    <3>1. \A x : SubscriberOK(m, x) => SubscriberOK(g, x)  BY <2>4, StillOK
    <3>2. Subscribers(g)  BY <1>2, <2>2, <3>1 DEF Typed, Subscribers
    <3> QED  BY <1>2, <2>2, <2>3, <2>7, <3>2 DEF Typed, Made, OthersSame, Kept, Queued
  <2>10. y \in Nat \ {0} /\ a <= y  BY <1>0, <2>7, <2>9, JobIndex DEF Flow, y
  <2>11. \A x, k, l : OfSub(g, x, k, l) <=> OfSub(m, x, k, l)  BY <2>2 DEF OfSub
  <2>12. \A q : Awaits(g, a, q) <=> Awaits(m, a, q) \/ (q = y /\ Mine(cb))
    <3>1. \A q : q # y => (Awaits(g, a, q) <=> Awaits(m, a, q))
      BY <2>7 DEF Awaits, Extends
    <3>2. Awaits(g, a, y) <=> Mine(cb)  BY <2>7, <2>10, <1>8 DEF Awaits
    <3>3. ~Awaits(m, a, y)  BY <2>7 DEF Awaits
    <3> QED  BY <3>1, <3>2, <3>3
  <2>13. \A q : q \in DOMAIN m.queue => g.queue[q] = m.queue[q]  BY <2>7 DEF Extends
  <2>14. \A q : \A n \in DOMAIN R : OfJob(g, a, q, R[n]) <=> OfJob(m, a, q, R[n])
    <3> SUFFICES ASSUME NEW q, NEW n \in DOMAIN R
                 PROVE  OfJob(g, a, q, R[n]) <=> OfJob(m, a, q, R[n])
      OBVIOUS
    <3>1. CASE q = y
      <4>1. ~OfJob(g, a, q, R[n])  BY <3>1, <2>7, <1>8, <1>12 DEF OfJob
      <4>2. ~OfJob(m, a, q, R[n])  BY <3>1, <2>7 DEF OfJob, Awaits
      <4> QED  BY <4>1, <4>2
    <3>2. CASE q # y
      <4>1. Awaits(g, a, q) <=> Awaits(m, a, q)  BY <3>2, <2>12
      <4>2. Awaits(m, a, q) => g.queue[q] = m.queue[q]  BY <2>13 DEF Awaits
      <4> QED  BY <4>1, <4>2, <2>2 DEF OfJob, CalledFor
    <3> QED  BY <3>1, <3>2
  <2>15. \A q : OfJob(g, a, q, r) => q = y
    <3> SUFFICES ASSUME NEW q, OfJob(g, a, q, r), q # y PROVE FALSE  OBVIOUS
    <3>1. Awaits(m, a, q) /\ g.queue[q].child = c  BY <2>12, <1>7 DEF OfJob
    <3>2. g.queue[q] = m.queue[q]  BY <3>1, <2>13 DEF Awaits
    <3> QED  BY <3>1, <3>2, <1>15
  <2>16. Mine(cb) => OfJob(g, a, y, r)
    <3>1. CalledFor(g, r) = cb  BY <1>9, <2>2 DEF CalledFor
    <3> QED  BY <3>1, <1>7, <1>8, <1>17, <2>2, <2>7, <2>12 DEF OfJob
  <2>17. Flow(g, a, t)
    <3>1. Len(g.queue) \in Nat /\ DOMAIN g.queue = 1 .. Len(g.queue)  BY <2>7, SeqFacts DEF Jobs
    <3>2. DOMAIN g.queue # {} => a > 0 \/ g.scheduled
      <4>1. CASE DOMAIN m.queue = {}  BY <2>2, <4>1 DEF Queued
      <4>2. CASE DOMAIN m.queue # {}
        <5>1. a > 0 \/ m.scheduled  BY <1>0, <4>2 DEF Flow
        <5> QED  BY <5>1, <2>2 DEF Queued
      <4> QED  BY <4>1, <4>2
    <3>3. a <= Len(g.queue) + 1  BY <1>0, <2>7, <2>10, <3>1
    <3>4. t > 1 => a \in DOMAIN g.queue /\ g.queue[a] = m.queue[a]  BY <1>0, <2>7 DEF Extends
    <3> QED  BY <1>0, <2>2, <3>2, <3>3, <3>4 DEF Flow
  <2>18. Published(g, a)
    <3>1. Full(g) = Full(m)  BY <2>2 DEF Full
    <3> QED  BY <1>2, <2>7, <3>1 DEF Published, Extends
  <2>19. Known(g, a, S)
    <3>1. ASSUME NEW x \in Promises, NEW k \in DOMAIN g.subscribers[x],
                 Mine(g.subscribers[x][k].ok) \/ Mine(g.subscribers[x][k].err)
          PROVE  \E n \in DOMAIN S : OfSub(g, x, k, S[n])
      <4>1. PICK n \in DOMAIN R : OfSub(m, x, k, R[n])  BY <3>1, <1>2, <2>2 DEF Known
      <4> QED  BY <4>1, <2>11, <1>11
    <3>2. \A q : Awaits(g, a, q) => \E n \in DOMAIN S : OfJob(g, a, q, S[n])
      <4> SUFFICES ASSUME NEW q, Awaits(g, a, q) PROVE \E n \in DOMAIN S : OfJob(g, a, q, S[n])
        OBVIOUS
      <4>1. CASE Awaits(m, a, q)
        <5>1. PICK n \in DOMAIN R : OfJob(m, a, q, R[n])  BY <4>1, <1>2 DEF Known
        <5> QED  BY <5>1, <2>14, <1>11
      <4>2. CASE q = y /\ Mine(cb)
        <5>1. OfJob(g, a, q, S[z])  BY <4>2, <2>16, <1>10
        <5> QED  BY <5>1, <1>11
      <4> QED  BY <4>1, <4>2, <2>12
    <3> QED  BY <3>1, <3>2 DEF Known
  <2>20. IsDue(g, a, t, r, C)
    <3>1. CASE Mine(cb)  BY <3>1, <2>16 DEF IsDue
    <3>2. CASE ~Mine(cb)
      <4>1. cb = NoCallback  BY <3>2 DEF Callbacks, cb
      <4>2. CalledFor(g, r) = cb  BY <1>9, <2>2 DEF CalledFor
      <4> QED  BY <4>1, <4>2, <1>7, <1>17, <2>2 DEF IsDue
    <3> QED  BY <3>1, <3>2
  <2>21. \A k : ~OfSub(g, r.parent, k, r)  BY <1>7, <1>14, <2>11
  <2>22. \A q, l : OfJob(g, a, q, r) =>
            /\ OfJob(g, a, l, r) => q = l
            /\ \A n \in DOMAIN R : OfJob(g, a, l, R[n]) => l < q
    <3>1. \A l : \A n \in DOMAIN R : OfJob(g, a, l, R[n]) => l < y
      BY <2>8, <2>14 DEF OfJob, Awaits
    <3> QED  BY <3>1, <2>15
  <2>23. \A q, k : \A n \in DOMAIN R : OfJob(g, a, q, r) /\ OfSub(g, r.parent, k, R[n]) =>
            \E b \in DOMAIN g.queue : a <= b /\ b < q /\ g.queue[b] = Publish(r.parent)
    <3> SUFFICES ASSUME NEW q, NEW k, NEW n \in DOMAIN R,
                        OfJob(g, a, q, r), OfSub(g, r.parent, k, R[n])
                 PROVE  \E b \in DOMAIN g.queue : a <= b /\ b < y /\ g.queue[b] = Publish(p)
      BY <1>7, <2>15
    <3>1. p \in Full(m)  BY <1>7, <1>17, <2>11 DEF Full, OfSub
    <3>2. PICK b \in DOMAIN m.queue : a <= b /\ m.queue[b] = Publish(p)
      BY <1>2, <3>1 DEF Published
    <3> QED  BY <3>2, <2>7, <2>8 DEF Extends
  <2>24. World(g, a, t, S, C)
    <3> HIDE DEF World
    <3>1. Callbacks(r.ok, r.err) /\ r.parent \in Promises /\ r.child \in m.made
      BY <1>4, <1>7
    <3>2. \A x \in Promises : \A k : \A n \in DOMAIN R : OfSub(g, x, k, R[n]) <=> OfSub(m, x, k, R[n])
      BY <2>11
    <3> QED
      BY <1>2, <1>7, <1>12, <1>13, <2>2, <2>4, <2>7, <2>9, <2>14, <2>17, <2>18, <2>19, <2>20,
         <2>21, <2>22, <2>23, <3>1, <3>2, ReactNext, ZenonT(60) DEF S
  <2>25. Makes(h, g, 1)  BY <1>1, <2>4 DEF Makes
  <2>26. TurnOK(m, a, t) => TurnOK(g, a, t)  BY <1>0, <2>2, <2>7 DEF TurnOK, Extends
  <2> QED  BY <1>2, <2>24, <2>25, <2>26 DEF S, r, c, g
<1> QED  BY <1>16, <1>17

-----------------------------------------------------------------------------
(* There are promises enough.  A call of the program makes one promise,    *)
(* and lets at most three more be made later: two by the callback of       *)
(* `finally', or those of the loop of `all' or `race'.                     *)

LEMMA LoopFacts ==
  ASSUME NEW h, NEW a, NEW l, LoopOK(h, a, l)
  PROVE  /\ Needs(l) \in Nat
         /\ l.k = "idle" <=> l = Idle
         /\ l.k \in {"idle", "all", "race"}
         /\ Needs(Idle) = 0
<1>1. Idle.k = "idle" /\ Needs(Idle) = 0  BY DEF Idle, Needs
<1> QED  BY <1>1 DEF LoopOK, Needs

LEMMA LoopStays ==
  ASSUME NEW h, NEW g, NEW a, NEW l, LoopOK(h, a, l), Calm(h, g)
  PROVE  LoopOK(g, a, l)
BY DEF LoopOK, Calm

LEMMA WaitingFinite ==
  ASSUME NEW R, IsSeq(R), NEW C
  PROVE  IsFiniteSet(Waiting(R, C)) /\ Cardinality(Waiting(R, C)) \in Nat
<1>1. IsFiniteSet(DOMAIN R)
  <2>1. Len(R) \in Nat /\ DOMAIN R = 1 .. Len(R)  BY SeqFacts
  <2> QED  BY <2>1, FS_Interval
<1>2. IsFiniteSet(Waiting(R, C))  BY <1>1, FS_Subset DEF Waiting
<1> QED  BY <1>2, FS_CardinalityType

\* One callback of `finally' more was called.
LEMMA WaitingLess ==
  ASSUME NEW R, IsSeq(R), NEW C, IsSeq(C), NEW c
  PROVE  /\ Cardinality(Waiting(R, Append(C, c))) <= Cardinality(Waiting(R, C))
         /\ \A n \in Waiting(R, C) : c.child = R[n].child =>
               Cardinality(Waiting(R, Append(C, c))) + 1 <= Cardinality(Waiting(R, C))
<1>1. DOMAIN C \subseteq DOMAIN Append(C, c) /\ \A i \in DOMAIN C : Append(C, c)[i] = C[i]
  BY SeqAppend
<1>2. Len(C) + 1 \in DOMAIN Append(C, c) /\ Append(C, c)[Len(C) + 1] = c  BY SeqAppend
<1>3. Waiting(R, Append(C, c)) \subseteq Waiting(R, C)  BY <1>1 DEF Waiting
<1>4. IsFiniteSet(Waiting(R, C)) /\ Cardinality(Waiting(R, C)) \in Nat  BY WaitingFinite
<1>5. ASSUME NEW n \in Waiting(R, C), c.child = R[n].child
      PROVE  Cardinality(Waiting(R, Append(C, c))) + 1 <= Cardinality(Waiting(R, C))
  <2>1. n \notin Waiting(R, Append(C, c))  BY <1>2, <1>5 DEF Waiting
  <2>2. Waiting(R, Append(C, c)) \subseteq Waiting(R, C) \ {n}  BY <1>3, <2>1
  <2>3. /\ IsFiniteSet(Waiting(R, C) \ {n})
        /\ Cardinality(Waiting(R, C) \ {n}) = Cardinality(Waiting(R, C)) - 1
    BY <1>4, FS_RemoveElement
  <2>4. Cardinality(Waiting(R, Append(C, c))) <= Cardinality(Waiting(R, C) \ {n})
    BY <2>2, <2>3, FS_Subset
  <2>5. Cardinality(Waiting(R, Append(C, c))) \in Nat  BY WaitingFinite
  <2> QED  BY <1>4, <2>3, <2>4, <2>5
<1> QED  BY <1>3, <1>4, <1>5, FS_Subset

\* One reaction more.
LEMMA WaitingMore ==
  ASSUME NEW R, IsSeq(R), NEW C, NEW r
  PROVE  /\ Cardinality(Waiting(Append(R, r), C)) <= Cardinality(Waiting(R, C)) + 1
         /\ r.ok.k # "finally" =>
               Cardinality(Waiting(Append(R, r), C)) <= Cardinality(Waiting(R, C))
<1> DEFINE S == Append(R, r)
           z == Len(R) + 1
<1>1. /\ Len(R) \in Nat /\ DOMAIN R = 1 .. Len(R) /\ DOMAIN S = 1 .. Len(R) + 1 /\ S[z] = r
      /\ \A i \in 1 .. Len(R) : S[i] = R[i]
  BY SeqAppend
<1>2. \A n \in DOMAIN S : n # z => n \in DOMAIN R /\ S[n] = R[n]  BY <1>1
<1> HIDE DEF S, z
<1>3. IsFiniteSet(Waiting(R, C)) /\ Cardinality(Waiting(R, C)) \in Nat  BY WaitingFinite
<1>4. Waiting(S, C) \subseteq Waiting(R, C) \cup {z}  BY <1>2 DEF Waiting
<1>5. /\ IsFiniteSet(Waiting(R, C) \cup {z})
      /\ Cardinality(Waiting(R, C) \cup {z}) <= Cardinality(Waiting(R, C)) + 1
      /\ Cardinality(Waiting(R, C) \cup {z}) \in Nat
  BY <1>3, FS_AddElement, FS_CardinalityType
<1>6. Cardinality(Waiting(S, C)) <= Cardinality(Waiting(R, C) \cup {z})
  BY <1>4, <1>5, FS_Subset
<1>7. Cardinality(Waiting(S, C)) \in Nat
  BY <1>4, <1>5, FS_Subset, FS_CardinalityType
<1>8. Cardinality(Waiting(S, C)) <= Cardinality(Waiting(R, C)) + 1  BY <1>3, <1>5, <1>6, <1>7
<1>9. ASSUME r.ok.k # "finally"
      PROVE  Cardinality(Waiting(S, C)) <= Cardinality(Waiting(R, C))
  <2>1. Waiting(S, C) \subseteq Waiting(R, C)
    BY <1>1, <1>2, <1>9 DEF Waiting
  <2> QED  BY <2>1, <1>3, FS_Subset
<1> QED  BY <1>8, <1>9 DEF S

\* Room for what may still be made, and for four more in the next call.
LEMMA BudgetRoom ==
  ASSUME NEW h, Typed(h), NEW R, IsSeq(R), NEW C, NEW l, Needs(l) \in Nat, NEW s,
         Budget(h, R, C, l, s), NEW n \in Nat
  PROVE  /\ n <= 2 * Cardinality(Waiting(R, C)) + Needs(l) => Room(h, n)
         /\ s < MaxSteps /\ n <= 4 => Room(h, n)
         /\ s = 0 /\ Cardinality(h.deferred) < MaxDeferred => Room(h, 1)
<1>1. Cardinality(h.made) \in Nat  BY FS_CardinalityType DEF Typed, Made
<1>2. Cardinality(h.deferred) \in Nat  BY FS_Subset, FS_CardinalityType DEF Typed, Made
<1>3. Cardinality(Waiting(R, C)) \in Nat  BY WaitingFinite
<1>4. IsFiniteSet(Promises) => Cardinality(Promises) \in Nat  BY FS_CardinalityType
<1>5. /\ MaxSteps \in Nat /\ MaxDeferred \in Nat
      /\ Cardinality(Promises) >= MaxDeferred + 4 * MaxSteps
  BY ValuesApart
<1>6. IsFiniteSet(Promises) =>
         Cardinality(h.made) + 2 * Cardinality(Waiting(R, C)) + Needs(l) + 4 * (MaxSteps - s)
            + (MaxDeferred - Cardinality(h.deferred)) <= Cardinality(Promises)
  BY <1>1, <1>2, <1>3, <1>4, <1>5 DEF Budget
<1> QED  BY <1>1, <1>2, <1>3, <1>4, <1>5, <1>6 DEF Room, Budget

\* A step that makes n promises may do so if it needs as many less, or is a call.
LEMMA BudgetStep ==
  ASSUME NEW h, Typed(h), NEW R, IsSeq(R), NEW C, NEW l, Needs(l) \in Nat, NEW s,
         Budget(h, R, C, l, s), NEW g, Typed(g), NEW n \in Nat, Makes(h, g, n),
         NEW S, IsSeq(S), NEW D, NEW m, Needs(m) \in Nat, NEW u \in Nat, u <= MaxSteps,
         2 * Cardinality(Waiting(S, D)) + Needs(m) + n + 4 * s
            <= 2 * Cardinality(Waiting(R, C)) + Needs(l) + 4 * u
  PROVE  Budget(g, S, D, m, u)
<1>1. Cardinality(h.made) \in Nat /\ Cardinality(g.made) \in Nat
  BY FS_CardinalityType DEF Typed, Made
<1>2. Cardinality(h.deferred) \in Nat  BY FS_Subset, FS_CardinalityType DEF Typed, Made
<1>3. Cardinality(Waiting(R, C)) \in Nat /\ Cardinality(Waiting(S, D)) \in Nat
  BY WaitingFinite
<1> QED  BY <1>1, <1>2, <1>3 DEF Budget, Makes

-----------------------------------------------------------------------------
(* The steps                                                               *)

LEMMA WorldTyped ==
  ASSUME NEW h, NEW a, NEW t, NEW R, NEW C, World(h, a, t, R, C)
  PROVE  /\ Typed(h) /\ IsSeq(R) /\ IsSeq(C) /\ Flow(h, a, t)
         /\ a = 0 => t = 1
<1>1. Typed(h) /\ Flow(h, a, t) /\ Reacted(h, R) /\ CallsRight(h, R, C)  BY DEF World
<1>2. a = 0 => t = 1
  <2>1. a \in DOMAIN h.queue => a # 0  BY <1>1, JobIndex
  <2> QED  BY <1>1, <2>1 DEF Flow
<1> QED  BY <1>1, <1>2 DEF Reacted, CallsRight

\* At the first turn there is nothing to say of the turn.
LEMMA FirstTurnOK ==
  ASSUME NEW h, NEW a
  PROVE  TurnOK(h, a, 1)
BY DEF TurnOK

LEMMA CalmTurn ==
  ASSUME NEW h, NEW a, NEW t, NEW R, NEW C, World(h, a, t, R, C), TurnOK(h, a, t),
         NEW g, Calm(h, g)
  PROVE  TurnOK(g, a, t)
<1>1. CASE t > 1
  <2>1. a \in DOMAIN h.queue /\ h.queue[a].k = "publish"  BY <1>1, WorldTyped DEF Flow
  <2>2. h.queue[a].promise \in Promises  BY <2>1, WorldTyped DEF Typed, Jobs, JobOK
  <2>3. g.queue[a] = h.queue[a]  BY <2>1 DEF Calm, NewJobs, Extends
  <2> QED  BY <1>1, <2>2, <2>3 DEF TurnOK, Calm, NewSubscribers, Extends
<1>2. CASE ~(t > 1)  BY <1>2 DEF TurnOK
<1> QED  BY <1>1, <1>2

\* A step in which no callback of the program is called and none is given.
LEMMA CalmStand ==
  ASSUME NEW h, NEW a, NEW t, NEW l, NEW s, NEW R, NEW C, Stand(h, a, t, l, s, R, C),
         NEW g, Calm(h, g), NEW n \in Nat, Makes(h, g, n),
         NEW m, LoopOK(g, a, m), NEW u \in Nat, u <= MaxSteps,
         Needs(m) + n + 4 * s <= Needs(l) + 4 * u
  PROVE  Stand(g, a, t, m, u, R, C)
<1>1. World(h, a, t, R, C) /\ TurnOK(h, a, t) /\ LoopOK(h, a, l) /\ Budget(h, R, C, l, s)
  BY DEF Stand
<1>2. World(g, a, t, R, C)  BY <1>1, CalmWorld
<1>3. TurnOK(g, a, t)  BY <1>1, CalmTurn
<1>4. Typed(h) /\ Typed(g) /\ IsSeq(R)  BY <1>1, <1>2, WorldTyped
<1>5. Needs(l) \in Nat /\ Needs(m) \in Nat  BY <1>1, LoopFacts
<1>6. s \in Nat  BY <1>1 DEF Budget
<1>7. Cardinality(Waiting(R, C)) \in Nat  BY <1>4, WaitingFinite
<1>8. 2 * Cardinality(Waiting(R, C)) + Needs(m) + n + 4 * s
         <= 2 * Cardinality(Waiting(R, C)) + Needs(l) + 4 * u
  BY <1>5, <1>6, <1>7
<1>9. Budget(g, R, C, m, u)  BY <1>1, <1>4, <1>5, <1>8, BudgetStep
<1> QED  BY <1>2, <1>3, <1>9 DEF Stand

\* What the program does while nothing runs: a call, or the settling of a deferred.
LEMMA ProgramStand ==
  ASSUME PInv, Stack, NEW g, Calm(heap, g), NEW n \in Nat, Makes(heap, g, n),
         NEW m, LoopOK(g, at, m), NEW u \in Nat, u <= MaxSteps, Needs(m) + n + 4 * steps <= 4 * u
  PROVE  Stand(g, at, turn, m, u, reactions, calls)
<1>1. Needs(loop) = 0  BY DEF Stack, Needs, Idle
<1>2. steps \in Nat  BY DEF PInv, Stand, Budget
<1>3. Needs(m) \in Nat  BY LoopFacts
<1> QED  BY <1>1, <1>2, <1>3, CalmStand DEF PInv

\* What there is room for.
LEMMA StandRoom ==
  ASSUME PInv
  PROVE  /\ Typed(heap) /\ IsSeq(reactions) /\ IsSeq(calls) /\ steps \in Nat
         /\ steps <= MaxSteps /\ MaxSteps \in Nat
         /\ \A n \in Nat : n <= Needs(loop) => Room(heap, n)
         /\ steps < MaxSteps => Room(heap, 1) /\ Room(heap, 2)
         /\ Waiting(reactions, calls) # {} => Room(heap, 2)
         /\ steps = 0 /\ Cardinality(heap.deferred) < MaxDeferred => Room(heap, 1)
<1>1. /\ World(heap, at, turn, reactions, calls) /\ LoopOK(heap, at, loop)
      /\ Budget(heap, reactions, calls, loop, steps)
  BY DEF PInv, Stand
<1>2. Typed(heap) /\ IsSeq(reactions) /\ IsSeq(calls)  BY <1>1, WorldTyped
<1>3. Needs(loop) \in Nat  BY <1>1, LoopFacts
<1>4. \A n \in Nat :
         /\ n <= 2 * Cardinality(Waiting(reactions, calls)) + Needs(loop) => Room(heap, n)
         /\ steps < MaxSteps /\ n <= 4 => Room(heap, n)
         /\ steps = 0 /\ Cardinality(heap.deferred) < MaxDeferred => Room(heap, 1)
  BY <1>1, <1>2, <1>3, BudgetRoom
<1>5. IsFiniteSet(Waiting(reactions, calls)) /\ Cardinality(Waiting(reactions, calls)) \in Nat
  BY <1>2, WaitingFinite
<1>6. Waiting(reactions, calls) # {} => Cardinality(Waiting(reactions, calls)) >= 1
  BY <1>5, FS_EmptySet
<1> QED  BY <1>1, <1>2, <1>3, <1>4, <1>5, <1>6, ValuesApart DEF Budget

\* The library's loops over the entries.
LEMMA LoopStep ==
  ASSUME PInv, EnumerateStep \/ EnumerateEnd \/ RaceStep
  PROVE  PInv'
<1>1. LoopOK(heap, at, loop) /\ Typed(heap)  BY StandRoom DEF PInv, Stand
<1>2. loop # Idle  BY LoopFacts, <1>1 DEF EnumerateStep, EnumerateEnd, RaceStep
<1>3. /\ at = 0
      /\ loop = [k |-> loop.k, e |-> loop.e, entries |-> loop.entries, i |-> loop.i]
      /\ loop.i \in 1 .. 3 /\ Len(loop.entries) = 2 /\ loop.entries[1] \in Promises
      /\ \/ loop.k = "all" /\ loop.e \in DOMAIN heap.enums
         \/ loop.k = "race" /\ loop.e \in Promises
  BY <1>1, <1>2 DEF LoopOK
<1>4. steps \in Nat /\ steps <= MaxSteps /\ \A n \in Nat : n <= Needs(loop) => Room(heap, n)
  BY StandRoom
<1> DEFINE m == [loop EXCEPT !.i = @ + 1]
<1>5. loop.i <= 2 => /\ m = [k |-> m.k, e |-> m.e, entries |-> m.entries, i |-> m.i]
                     /\ m.k = loop.k /\ m.e = loop.e /\ m.entries = loop.entries
                     /\ m.i = loop.i + 1 /\ m.i \in 1 .. 3
  BY <1>3
<1> HIDE DEF m
<1>6. \A g : Calm(heap, g) /\ loop.i <= 2 => LoopOK(g, at, m)
  BY <1>3, <1>5 DEF LoopOK, Calm
<1>7. \A g : LoopOK(g, at, Idle)  BY DEF LoopOK
<1>8. CASE EnumerateStep
  <2>1. loop.k = "all" /\ loop.i <= 2 /\ loop' = m  BY <1>3, <1>8 DEF EnumerateStep, m
  <2>2. Needs(loop) = 3 - loop.i /\ Needs(m) = 2 - loop.i  BY <1>3, <1>5, <2>1 DEF Needs
  <2>3. Room(heap, 1)  BY <1>3, <1>4, <2>1, <2>2
  <2>4. heap' = eachEntry(heap, loop.e, loop.entries[loop.i], loop.i)  BY <1>8 DEF EnumerateStep
  <2>5. loop.e \in DOMAIN heap.enums  BY <1>3, <2>1
  <2>6. Calm(heap, heap') /\ Makes(heap, heap', 1)  BY <1>1, <2>3, <2>4, <2>5, eachEntryCalm
  <2>7. LoopOK(heap', at, m)  BY <1>6, <2>1, <2>6
  <2>8. Needs(m) + 1 + 4 * steps <= Needs(loop) + 4 * steps  BY <1>3, <1>4, <2>2
  <2>9. Stand(heap', at, turn, m, steps, reactions, calls)
    BY <1>4, <2>6, <2>7, <2>8, CalmStand DEF PInv
  <2> QED  BY <1>8, <2>1, <2>9 DEF EnumerateStep, PInv
<1>9. CASE EnumerateEnd
  <2>1. loop.k = "all" /\ loop.e \in DOMAIN heap.enums  BY <1>3, <1>9 DEF EnumerateEnd
  <2>2. heap.enums[loop.e].promise \in Promises  BY <1>1, <2>1 DEF Typed, Stands
  <2>3. \A v : Quietly(heap, fulfill(heap, heap.enums[loop.e].promise, v), 0)
    BY <1>1, <2>2, fulfillCalm
  <2>4. Quietly(heap, heap', 0)  BY <1>1, <1>9, <2>3, CalmSame DEF EnumerateEnd
  <2>5. Calm(heap, heap') /\ Makes(heap, heap', 0)  BY <2>4 DEF Quietly
  <2>6. Needs(loop) \in Nat /\ Needs(Idle) = 0  BY <1>1, LoopFacts
  <2>7. Needs(Idle) + 0 + 4 * steps <= Needs(loop) + 4 * steps  BY <1>4, <2>6
  <2>8. Stand(heap', at, turn, Idle, steps, reactions, calls)
    BY <1>4, <1>7, <2>5, <2>7, CalmStand DEF PInv
  <2> QED  BY <1>9, <2>8 DEF EnumerateEnd, PInv
<1>10. CASE RaceStep
  <2>1. loop.k = "race" /\ loop.e \in Promises  BY <1>3, <1>10 DEF RaceStep
  <2>2. CASE loop.i > Len(loop.entries)
    <3>1. heap' = heap /\ loop' = Idle  BY <1>10, <2>2 DEF RaceStep
    <3>2. Calm(heap, heap') /\ Makes(heap, heap', 0)  BY <1>1, <3>1, CalmSame DEF Quietly
    <3>3. Needs(loop) \in Nat /\ Needs(Idle) = 0  BY <1>1, LoopFacts
    <3>4. Needs(Idle) + 0 + 4 * steps <= Needs(loop) + 4 * steps  BY <1>4, <3>3
    <3>5. Stand(heap', at, turn, Idle, steps, reactions, calls)
      BY <1>4, <1>7, <3>2, <3>4, CalmStand DEF PInv
    <3> QED  BY <1>10, <3>1, <3>5 DEF RaceStep, PInv
  <2>3. CASE ~(loop.i > Len(loop.entries))
    <3> DEFINE v == loop.entries[loop.i]
               ok == [k |-> "resolve", promise |-> loop.e]
               err == [k |-> "reject", promise |-> loop.e]
               g == resolveStatic(heap, v)
               x == IF v \in Promises THEN 0 ELSE 1
    <3>1. heap' = then(g, resolved(heap, v), ok, err) /\ loop' = m
      BY <1>10, <2>3 DEF RaceStep, m
    <3>2. CallbackOK(g, ok) /\ CallbackOK(g, err) /\ ~Mine(ok) /\ ~Mine(err)
      BY <2>1, SettlingCallbacks
    <3>3. loop.i \in {1, 2}  BY <1>3, <2>3
    <3>4. Needs(loop) = 4 - loop.i /\ Needs(m) = IF loop.i = 2 THEN 0 ELSE 3 - loop.i
      BY <1>5, <2>1, <3>3 DEF Needs
    <3>5. x \in {0, 1} /\ (loop.i = 1 => x = 0)  BY <1>3
    <3>6. Room(heap, 1) /\ Room(heap, x + 1)
      <4>1. x + 1 \in Nat /\ x + 1 <= Needs(loop) /\ 1 <= Needs(loop)  BY <3>3, <3>4, <3>5
      <4> QED  BY <1>4, <4>1
    <3> HIDE DEF ok, err, g, x
    <3>7. Quietly(heap, g, x) /\ resolved(heap, v) \in Promises
      BY <1>1, <3>6, StaticCalm DEF g, x
    <3>8. Typed(g) /\ Makes(heap, g, x)  BY <3>7 DEF Quietly, Calm
    <3>9. Room(g, 1)  BY <1>1, <3>5, <3>6, <3>8, RoomLeft
    <3>10. Quietly(g, heap', 1)  BY <3>1, <3>2, <3>7, <3>8, <3>9, thenCalm
    <3>11. Quietly(heap, heap', x + 1)  BY <1>1, <3>5, <3>7, <3>10, QuietTrans
    <3>12. Calm(heap, heap') /\ Makes(heap, heap', x + 1)  BY <3>11 DEF Quietly
    <3>13. LoopOK(heap', at, m)  BY <1>6, <3>3, <3>12
    <3>14. x + 1 \in Nat /\ Needs(m) + (x + 1) + 4 * steps <= Needs(loop) + 4 * steps
      BY <1>4, <3>3, <3>4, <3>5
    <3>15. Stand(heap', at, turn, m, steps, reactions, calls)
      BY <1>4, <3>12, <3>13, <3>14, CalmStand DEF PInv
    <3> QED  BY <1>10, <3>1, <3>15 DEF RaceStep, PInv
  <2> QED  BY <2>2, <2>3
<1> QED  BY <1>8, <1>9, <1>10

\* new Promise: the promise is a deferred one.
LEMMA PromiseStep ==
  ASSUME PInv, Promise
  PROVE  PInv'
<1> DEFINE p == NewPromise(heap)
           k == makePromise(heap)
           g == [k EXCEPT !.deferred = @ \cup {p}]
<1>1. /\ Stack /\ steps = 0 /\ Cardinality(heap.deferred) < MaxDeferred
      /\ heap' = g \/ \E r \in Reasons : heap' = reject(g, p, r)
      /\ UNCHANGED <<at, turn, loop, steps, reactions, alls, calls>>
  BY DEF Promise
<1>2. Typed(heap) /\ Room(heap, 1) /\ MaxDeferred \in Nat  BY <1>1, StandRoom, ValuesApart
<1>3. Quietly(heap, k, 1)  BY <1>2, makeCalm
<1>4. Typed(k) /\ Calm(heap, k) /\ Makes(heap, k, 1)  BY <1>3 DEF Quietly, Calm
<1>5. k.made = heap.made \cup {p} /\ k.deferred = heap.deferred  BY <1>2, makeFields
<1>6. p \in Promises /\ p \notin heap.made  BY <1>2, NewPromiseFresh
<1> HIDE DEF k
<1>7. /\ HeapFields \subseteq DOMAIN g /\ g.made = k.made /\ g.deferred = k.deferred \cup {p}
      /\ g.foreign = k.foreign /\ g.enums = k.enums /\ g.state = k.state
      /\ g.result = k.result /\ g.subscribers = k.subscribers /\ QueueSame(k, g)
  BY <1>4 DEF Typed, HeapFields, QueueSame
<1> HIDE DEF g
<1>8. Calm(k, g)
  <2>1. Made(g)  BY <1>4, <1>5, <1>7 DEF Typed, Made
  <2>2. Stands(g.foreign) /\ Stands(g.enums)  BY <1>4, <1>7 DEF Typed
  <2> QED  BY <1>4, <1>7, <2>1, <2>2, SameCalm
<1>9. Typed(g)  BY <1>8 DEF Calm
<1>10. \A r : Quietly(g, reject(g, p, r), 0) /\ Quietly(g, g, 0)
  BY <1>6, <1>9, rejectCalm, CalmSame
<1>11. Quietly(g, heap', 0)  BY <1>1, <1>10
<1>12. Calm(heap, heap')
  <2>1. Calm(heap, g)  BY <1>4, <1>8, CalmTrans
  <2> QED  BY <2>1, <1>11, CalmTrans DEF Quietly
<1>13. /\ World(heap, at, turn, reactions, calls) /\ TurnOK(heap, at, turn)
       /\ LoopOK(heap, at, loop) /\ Budget(heap, reactions, calls, loop, steps)
  BY DEF PInv, Stand
<1>14. World(heap', at, turn, reactions, calls)  BY <1>12, <1>13, CalmWorld
<1>15. TurnOK(heap', at, turn)  BY <1>12, <1>13, CalmTurn
<1>16. LoopOK(heap', at, loop)  BY <1>12, <1>13, LoopStays
<1>17. Budget(heap', reactions, calls, loop, steps)
  <2>1. heap'.deferred = heap.deferred \cup {p} /\ Cardinality(heap'.made) <= Cardinality(g.made)
    <3>1. Cardinality(g.made) \in Nat /\ Cardinality(heap'.made) \in Nat
      BY <1>9, <1>14, WorldTyped, FS_CardinalityType DEF Typed, Made
    <3> QED  BY <1>5, <1>7, <1>11, <3>1 DEF Quietly, Makes
  <2>2. IsFiniteSet(heap.made) /\ IsFiniteSet(heap.deferred) /\ p \notin heap.deferred
    BY <1>2, <1>6, FS_Subset DEF Typed, Made
  <2>3. /\ Cardinality(heap.deferred) \in Nat
        /\ Cardinality(heap.deferred \cup {p}) = Cardinality(heap.deferred) + 1
    BY <2>2, FS_AddElement, FS_CardinalityType
  <2>4. Cardinality(heap.made) \in Nat /\ Cardinality(heap'.made) \in Nat
    BY <1>2, <1>14, WorldTyped, FS_CardinalityType DEF Typed, Made
  <2>5. Cardinality(heap'.made) <= Cardinality(heap.made) + 1
    <3>1. Cardinality(k.made) <= Cardinality(heap.made) + 1  BY <1>4 DEF Makes
    <3>2. Cardinality(heap'.made) <= Cardinality(k.made)  BY <1>7, <2>1
    <3>3. Cardinality(k.made) \in Nat  BY <1>4, FS_CardinalityType DEF Typed, Made
    <3> QED  BY <2>4, <3>1, <3>2, <3>3
  <2>6. Cardinality(Waiting(reactions, calls)) \in Nat /\ Needs(loop) \in Nat
    BY <1>13, WorldTyped, WaitingFinite, LoopFacts
  <2> QED  BY <1>1, <1>2, <1>13, <2>1, <2>3, <2>4, <2>5, <2>6 DEF Budget
<1> QED  BY <1>1, <1>14, <1>15, <1>16, <1>17 DEF PInv, Stand

\* A deferred is settled, a thenable calls back, a promise is made by a static function.
LEMMA CalmCalls ==
  ASSUME PInv, Settle \/ Adopt \/ Static \/ ForeignLate
  PROVE  PInv'
<1>1. Stack  BY DEF Settle, Adopt, Static, ForeignLate, Call
<1>2. /\ Typed(heap) /\ steps \in Nat /\ steps <= MaxSteps /\ MaxSteps \in Nat
      /\ steps < MaxSteps => Room(heap, 1)
  BY StandRoom
<1>3. heap.deferred \subseteq Promises  BY <1>2 DEF Typed, Made
<1>4. loop = Idle /\ Needs(Idle) = 0 /\ \A g : LoopOK(g, at, Idle)
  BY <1>1 DEF Stack, Needs, Idle, LoopOK
<1>5. \A p \in heap.deferred : \A v : Quietly(heap, resolve(heap, p, v), 0)
                                   /\ Quietly(heap, reject(heap, p, v), 0)
  BY <1>2, <1>3, resolveCalm, rejectCalm
<1>6. CASE Settle
  <2>1. Quietly(heap, heap', 0)  BY <1>5, <1>6 DEF Settle
  <2>2. Needs(Idle) + 0 + 4 * steps <= 4 * steps  BY <1>2, <1>4
  <2>3. Stand(heap', at, turn, Idle, steps, reactions, calls)
    BY <1>1, <1>2, <1>4, <2>1, <2>2, ProgramStand DEF Quietly
  <2> QED  BY <1>4, <1>6, <2>3 DEF Settle, PInv
<1>7. CASE ForeignLate
  <2>1. Quietly(heap, heap', 0)  BY <1>2, <1>7, foreignCallCalm DEF ForeignLate
  <2>2. Needs(Idle) + 0 + 4 * steps <= 4 * steps  BY <1>2, <1>4
  <2>3. Stand(heap', at, turn, Idle, steps, reactions, calls)
    BY <1>1, <1>2, <1>4, <2>1, <2>2, ProgramStand DEF Quietly
  <2> QED  BY <1>4, <1>7, <2>3 DEF ForeignLate, PInv
<1>8. CASE Adopt
  <2>1. Quietly(heap, heap', 0)  BY <1>5, <1>8 DEF Adopt
  <2>2. steps < MaxSteps /\ steps' = steps + 1  BY <1>8 DEF Adopt, Call
  <2>3. steps + 1 \in Nat /\ steps + 1 <= MaxSteps /\ Needs(Idle) + 0 + 4 * steps <= 4 * (steps + 1)
    BY <1>2, <1>4, <2>2
  <2>4. Stand(heap', at, turn, Idle, steps + 1, reactions, calls)
    BY <1>1, <1>4, <2>1, <2>3, ProgramStand DEF Quietly
  <2> QED  BY <1>4, <1>8, <2>2, <2>4 DEF Adopt, Call, PInv
<1>9. CASE Static
  <2>1. steps < MaxSteps /\ steps' = steps + 1  BY <1>9 DEF Static, Call
  <2>2. \A v : /\ Quietly(heap, resolveStatic(heap, v), IF v \in Promises THEN 0 ELSE 1)
               /\ Quietly(heap, rejectStatic(heap, v), 1)
    BY <1>2, <2>1, StaticCalm
  <2>3. \A v : Quietly(heap, resolveStatic(heap, v), 1)
    BY <1>2, <2>2, QuietMore
  <2>4. Quietly(heap, heap', 1)  BY <1>9, <2>2, <2>3 DEF Static
  <2>5. steps + 1 \in Nat /\ steps + 1 <= MaxSteps /\ Needs(Idle) + 1 + 4 * steps <= 4 * (steps + 1)
    BY <1>2, <1>4, <2>1
  <2>6. Stand(heap', at, turn, Idle, steps + 1, reactions, calls)
    BY <1>1, <1>4, <2>4, <2>5, ProgramStand DEF Quietly
  <2> QED  BY <1>4, <1>9, <2>1, <2>6 DEF Static, Call, PInv
<1> QED  BY <1>6, <1>7, <1>8, <1>9

\* `all' and `race' make the promise they return, and their loop begins.
LEMMA CombineStep ==
  ASSUME PInv, all \/ race
  PROVE  PInv'
<1>1. Stack /\ steps < MaxSteps /\ steps' = steps + 1 /\ UNCHANGED <<at, turn, calls>>
  BY DEF all, race, Call
<1>2. Typed(heap) /\ steps \in Nat /\ MaxSteps \in Nat /\ Room(heap, 1)  BY <1>1, StandRoom
<1>3. at = 0 /\ steps + 1 \in Nat /\ steps + 1 <= MaxSteps  BY <1>1, <1>2 DEF Stack
<1>4. heap.deferred \subseteq Promises  BY <1>2 DEF Typed, Made
<1>5. CASE all
  <2>1. PICK entries \in Entries(heap) :
           /\ heap' = Enumerator(heap, entries)
           /\ loop' = [k |-> "all", e |-> Len(heap.enums) + 1, entries |-> entries, i |-> 1]
           /\ UNCHANGED reactions
    BY <1>5 DEF all
  <2>2. Len(entries) = 2 /\ entries[1] \in Promises  BY <1>4 DEF Entries
  <2>3. Quietly(heap, heap', 1) /\ Len(heap.enums) + 1 \in DOMAIN heap'.enums
    BY <1>2, <2>1, EnumeratorCalm
  <2>4. LoopOK(heap', at, loop')  BY <1>3, <2>1, <2>2, <2>3 DEF LoopOK
  <2>5. Needs(loop') = 2  BY <2>1 DEF Needs
  <2>6. Needs(loop') + 1 + 4 * steps <= 4 * (steps + 1)  BY <1>2, <2>5
  <2>7. Stand(heap', at, turn, loop', steps + 1, reactions, calls)
    BY <1>1, <1>3, <2>3, <2>4, <2>6, ProgramStand DEF Quietly
  <2> QED  BY <1>1, <2>1, <2>7 DEF PInv
<1>6. CASE race
  <2>1. PICK entries \in Entries(heap) :
           /\ heap' = makePromise(heap)
           /\ loop' = [k |-> "race", e |-> NewPromise(heap), entries |-> entries, i |-> 1]
           /\ UNCHANGED reactions
    BY <1>6 DEF race
  <2>2. Len(entries) = 2 /\ entries[1] \in Promises  BY <1>4 DEF Entries
  <2>3. Quietly(heap, heap', 1) /\ NewPromise(heap) \in Promises
    BY <1>2, <2>1, makeCalm, NewPromiseFresh
  <2>4. LoopOK(heap', at, loop')  BY <1>3, <2>1, <2>2, <2>3 DEF LoopOK
  <2>5. Needs(loop') = 3  BY <2>1 DEF Needs
  <2>6. Needs(loop') + 1 + 4 * steps <= 4 * (steps + 1)  BY <1>2, <2>5
  <2>7. Stand(heap', at, turn, loop', steps + 1, reactions, calls)
    BY <1>1, <1>3, <2>3, <2>4, <2>6, ProgramStand DEF Quietly
  <2> QED  BY <1>1, <2>1, <2>7 DEF PInv
<1> QED  BY <1>5, <1>6

\* A reaction more.
LEMMA ReactStep ==
  ASSUME PInv, Then \/ Finally
  PROVE  PInv'
<1>1. /\ loop = Idle /\ steps < MaxSteps /\ steps' = steps + 1
      /\ UNCHANGED <<at, turn, calls>> /\ UNCHANGED loop
  BY DEF Then, Finally, CallAnywhere, Stack, InCallback
<1>2. /\ Typed(heap) /\ IsSeq(reactions) /\ steps \in Nat /\ steps <= MaxSteps /\ MaxSteps \in Nat
      /\ Room(heap, 1)
  BY <1>1, StandRoom
<1>3. heap.made \subseteq Promises  BY <1>2 DEF Typed, Made
<1>4. PICK p, ok, err :
         /\ p \in Promises
         /\ heap' = then(heap, p, ok, err)
         /\ reactions' = Append(reactions, [parent |-> p, child |-> NewPromise(heap),
                                            ok |-> ok, err |-> err])
         /\ CallbackOK(heap, ok) /\ CallbackOK(heap, err) /\ Callbacks(ok, err)
  <2>1. CASE Then
    <3>1. PICK p \in heap.made, cb \in {<<User, NoCallback>>, <<NoCallback, User>>} :
             /\ heap' = then(heap, p, cb[1], cb[2])
             /\ reactions' = Append(reactions, [parent |-> p, child |-> NewPromise(heap),
                                                ok |-> cb[1], err |-> cb[2]])
      BY <2>1 DEF Then
    <3>2. User.k = "user" /\ NoCallback.k = "none"  BY DEF User, NoCallback
    <3>3. /\ CallbackOK(heap, User) /\ CallbackOK(heap, NoCallback)
          /\ Callbacks(User, NoCallback) /\ Callbacks(NoCallback, User)
      BY <3>2 DEF CallbackOK, Callbacks, Mine
    <3>4. \/ cb[1] = User /\ cb[2] = NoCallback
          \/ cb[1] = NoCallback /\ cb[2] = User
      BY <3>1
    <3> QED  BY <1>3, <3>1, <3>3, <3>4
  <2>2. CASE Finally
    <3> DEFINE ok == [k |-> "finally", then |-> "return"]
               err == [k |-> "finally", then |-> "throw"]
    <3>1. PICK p \in heap.made :
             /\ heap' = then(heap, p, ok, err)
             /\ reactions' = Append(reactions, [parent |-> p, child |-> NewPromise(heap),
                                                ok |-> ok, err |-> err])
      BY <2>2 DEF Finally
    <3>2. CallbackOK(heap, ok) /\ CallbackOK(heap, err) /\ Callbacks(ok, err)
      BY DEF CallbackOK, Callbacks, Mine
    <3> QED  BY <1>3, <3>1, <3>2
  <2> QED  BY <2>1, <2>2
<1> DEFINE r == [parent |-> p, child |-> NewPromise(heap), ok |-> ok, err |-> err]
<1>5. World(heap, at, turn, reactions, calls) /\ TurnOK(heap, at, turn)  BY DEF PInv, Stand
<1>6. World(heap', at, turn, reactions', calls) /\ Makes(heap, heap', 1)
  BY <1>2, <1>4, <1>5, ReactWorld
<1>7. TurnOK(heap', at, turn)  BY <1>2, <1>4, <1>5, ReactWorld
<1>8. loop = Idle /\ Needs(loop) = 0 /\ \A g : LoopOK(g, at, loop)
  BY <1>1 DEF Needs, Idle, LoopOK
<1>9. Typed(heap') /\ IsSeq(reactions')  BY <1>6, WorldTyped
<1>10. Cardinality(Waiting(reactions', calls)) <= Cardinality(Waiting(reactions, calls)) + 1
  BY <1>2, <1>4, WaitingMore
<1>11. /\ Cardinality(Waiting(reactions', calls)) \in Nat
       /\ Cardinality(Waiting(reactions, calls)) \in Nat
  BY <1>2, <1>9, WaitingFinite
<1>12. Budget(heap', reactions', calls, loop, steps + 1)
  <2>1. 2 * Cardinality(Waiting(reactions', calls)) + Needs(loop) + 1 + 4 * steps
           <= 2 * Cardinality(Waiting(reactions, calls)) + Needs(loop) + 4 * (steps + 1)
    BY <1>2, <1>8, <1>10, <1>11
  <2>2. steps + 1 \in Nat /\ steps + 1 <= MaxSteps /\ Needs(loop) \in Nat  BY <1>1, <1>2, <1>8
  <2>3. Budget(heap, reactions, calls, loop, steps)  BY DEF PInv, Stand
  <2> QED  BY <1>2, <1>6, <1>9, <2>1, <2>2, <2>3, BudgetStep
<1> QED  BY <1>1, <1>5, <1>6, <1>7, <1>8, <1>12 DEF PInv, Stand

\* What a callback of the program does to the heap.
LEMMA OutcomeSettles ==
  ASSUME NEW h, Typed(h), NEW cb, NEW o \in OutcomesOf(h, cb)
  PROVE  Settles(o)
<1>1. h.deferred \subseteq Promises  BY DEF Typed, Made
<1>2. CASE o = NoOutcome  BY <1>2 DEF NoOutcome, Settles
<1>3. CASE o \in Outcomes(h)  BY <1>1, <1>3 DEF Outcomes, Settles
<1> QED  BY <1>2, <1>3 DEF OutcomesOf

\* The reaction whose callback is called next has not been called.
LEMMA NotCalled ==
  ASSUME NEW h, NEW a, NEW t, NEW R, NEW C, World(h, a, t, R, C), NEW n \in DOMAIN R,
         \/ \E k : OfSub(h, R[n].parent, k, R[n]) /\ ~Served(h, a, t, R[n].parent, k)
         \/ \E q : OfJob(h, a, q, R[n])
  PROVE  /\ \A i \in DOMAIN C : C[i].child # R[n].child
         /\ R[n].ok.k = "finally" => n \in Waiting(R, C)
<1> SUFFICES ASSUME NEW i \in DOMAIN C, C[i].child = R[n].child PROVE FALSE
  BY DEF Waiting
<1>1. n < n  BY DEF World, CallsFirst
<1>2. n \in Nat
  <2>1. Len(R) \in Nat /\ DOMAIN R = 1 .. Len(R)  BY WorldTyped, SeqFacts
  <2> QED  BY <2>1
<1> QED  BY <1>1, <1>2

\* The budget after a callback: what `finally' makes it needs no longer.
LEMMA CalledBudget ==
  ASSUME NEW h, Typed(h), NEW R, IsSeq(R), NEW C, IsSeq(C), NEW l, Needs(l) \in Nat, NEW s,
         Budget(h, R, C, l, s), NEW g, Typed(g), NEW cb, NEW c, NEW D, IsSeq(D),
         D = IF Mine(cb) THEN Append(C, c) ELSE C,
         IF cb.k = "finally"
         THEN Makes(h, g, 2) /\ \E n \in Waiting(R, C) : c.child = R[n].child
         ELSE Makes(h, g, 0)
  PROVE  Budget(g, R, D, l, s)
<1>1. s \in Nat /\ s <= MaxSteps  BY DEF Budget
<1>2. Cardinality(Waiting(R, C)) \in Nat /\ Cardinality(Waiting(R, D)) \in Nat
  BY WaitingFinite
<1>3. CASE cb.k = "finally"
  <2>1. D = Append(C, c)  BY <1>3 DEF Mine
  <2>2. Cardinality(Waiting(R, D)) + 1 <= Cardinality(Waiting(R, C))
    BY <1>3, <2>1, WaitingLess
  <2>3. 2 * Cardinality(Waiting(R, D)) + Needs(l) + 2 + 4 * s
           <= 2 * Cardinality(Waiting(R, C)) + Needs(l) + 4 * s
    BY <1>1, <1>2, <2>2
  <2> QED  BY <1>1, <1>3, <2>3, BudgetStep
<1>4. CASE cb.k # "finally"
  <2>1. Cardinality(Waiting(R, D)) <= Cardinality(Waiting(R, C))  BY <1>2, WaitingLess
  <2>2. 2 * Cardinality(Waiting(R, D)) + Needs(l) + 0 + 4 * s
           <= 2 * Cardinality(Waiting(R, C)) + Needs(l) + 4 * s
    BY <1>1, <1>2, <2>1
  <2> QED  BY <1>1, <1>4, <2>2, BudgetStep
<1> QED  BY <1>3, <1>4

\* flush runs a job of a settled promise.
LEMMA InvokeStep ==
  ASSUME PInv, RunInvoke
  PROVE  PInv'
<1> DEFINE j == heap.queue[at]
           c == [child |-> j.child, detail |-> j.detail]
<1>1. /\ at \in DOMAIN heap.queue /\ loop = Idle /\ j.k = "invoke"
      /\ at' = at + 1 /\ UNCHANGED <<turn, loop, steps, reactions, alls>>
      /\ calls' = IF Mine(j.callback) THEN Append(calls, c) ELSE calls
  BY DEF RunInvoke, Job, Record, Mine
<1>2. PICK o \in OutcomesOf(heap, j.callback) :
         heap' = invokeCallback(heap, j.settled, j.child, j.callback, j.detail, o)
  BY DEF RunInvoke
<1>3. /\ World(heap, at, turn, reactions, calls)
      /\ LoopOK(heap, at, loop) /\ Budget(heap, reactions, calls, loop, steps)
  BY DEF PInv, Stand
<1>4. Typed(heap) /\ IsSeq(reactions) /\ IsSeq(calls) /\ Flow(heap, at, turn)
  BY <1>3, WorldTyped
<1>5. turn = 1  BY <1>1, <1>4 DEF Flow
<1>6. j.child \in Promises /\ CallbackOK(heap, j.callback)
  BY <1>1, <1>4 DEF Typed, Jobs, JobOK
<1> HIDE DEF j
<1>7. at \in Nat  BY <1>4 DEF Flow
<1>8. Mine(j.callback) =>
         /\ Awaits(heap, at, at)
         /\ \E n \in DOMAIN reactions :
               /\ c.child = reactions[n].child
               /\ j.callback.k = "finally" => n \in Waiting(reactions, calls)
  <2> SUFFICES ASSUME Mine(j.callback)
               PROVE  /\ Awaits(heap, at, at)
                      /\ \E n \in DOMAIN reactions :
                            /\ c.child = reactions[n].child
                            /\ j.callback.k = "finally" => n \in Waiting(reactions, calls)
    OBVIOUS
  <2>1. Awaits(heap, at, at)  BY <1>1, <1>7 DEF Awaits, j
  <2>2. PICK n \in DOMAIN reactions : OfJob(heap, at, at, reactions[n])
    BY <1>3, <2>1 DEF World, Known
  <2>3. c.child = reactions[n].child  BY <2>2 DEF OfJob, j
  <2>4. j.callback.k = "finally" => reactions[n].ok.k = "finally"
    <3>1. j.callback = CalledFor(heap, reactions[n])  BY <2>2 DEF OfJob, j
    <3>2. reactions[n].ok.k = "finally" <=> reactions[n].err.k = "finally"
      BY <1>3 DEF World, Reacted
    <3> QED  BY <3>1, <3>2 DEF CalledFor
  <2> QED  BY <1>3, <2>1, <2>2, <2>3, <2>4, NotCalled
<1>9. j.callback.k = "finally" => Room(heap, 2)
  BY <1>8, StandRoom DEF Mine
<1>10. Settles(o)  BY <1>2, <1>4, OutcomeSettles
<1>11. (j.callback.k # "finally" => Quietly(heap, heap', 0)) /\ Quietly(heap, heap', 2)
  BY <1>2, <1>4, <1>6, <1>9, <1>10, invokeCallbackCalm
<1>12. Calm(heap, heap') /\ Typed(heap')  BY <1>11 DEF Quietly, Calm
<1>13. World(heap', at, 1, reactions, calls)  BY <1>3, <1>5, <1>12, CalmWorld
<1>14. heap'.queue[at] = j /\ at \in DOMAIN heap'.queue
  BY <1>1, <1>12 DEF Calm, NewJobs, Extends, j
<1>15. Awaits(heap', at, at) <=> Mine(j.callback)  BY <1>1, <1>7, <1>14 DEF Awaits, j
<1>16. World(heap', at + 1, 1, reactions, calls')
  <2>1. CASE Mine(j.callback)
    <3>1. calls' = Append(calls, [child |-> heap'.queue[at].child, detail |-> heap'.queue[at].detail])
      BY <1>1, <1>14, <2>1
    <3> QED  BY <1>13, <1>15, <2>1, <3>1, InvokeJob
  <2>2. CASE ~Mine(j.callback)
    <3>1. heap'.queue[at].k # "publish"  BY <1>1, <1>14 DEF j
    <3> QED  BY <1>1, <1>13, <1>14, <1>15, <2>2, <3>1, PassJob
  <2> QED  BY <2>1, <2>2
<1>17. Needs(loop) \in Nat /\ IsSeq(calls')  BY <1>3, <1>16, LoopFacts, WorldTyped
<1>18. Budget(heap', reactions, calls', loop, steps)
  <2>1. j.callback.k = "finally" => \E n \in Waiting(reactions, calls) : c.child = reactions[n].child
    BY <1>8 DEF Mine
  <2>2. Makes(heap, heap', 2) /\ (j.callback.k # "finally" => Makes(heap, heap', 0))
    BY <1>11 DEF Quietly
  <2> HIDE DEF c
  <2> QED  BY <1>1, <1>3, <1>4, <1>12, <1>17, <2>1, <2>2, CalledBudget
<1>19. TurnOK(heap', at + 1, 1)  BY FirstTurnOK
<1>20. LoopOK(heap', at + 1, Idle)  BY DEF LoopOK
<1> QED  BY <1>1, <1>5, <1>16, <1>18, <1>19, <1>20 DEF PInv, Stand

\* publish: a turn, and the end of the list.
LEMMA PublishStep ==
  ASSUME PInv, RunPublish
  PROVE  PInv'
<1> DEFINE p == heap.queue[at].promise
           subs == heap.subscribers[p]
           s == subs[turn]
           cb == IF heap.state[p] = FULFILLED THEN s.ok ELSE s.err
           c == [child |-> s.child, detail |-> heap.result[p]]
           last == turn >= Len(subs)
<1>1. /\ at \in DOMAIN heap.queue /\ loop = Idle /\ heap.queue[at].k = "publish"
      /\ turn' = IF last THEN 1 ELSE turn + 1
      /\ at' = IF last THEN at + 1 ELSE at
      /\ UNCHANGED <<loop, steps, reactions, alls>>
  BY Zenon DEF RunPublish, Job
<1>2. /\ World(heap, at, turn, reactions, calls) /\ TurnOK(heap, at, turn)
      /\ LoopOK(heap, at, loop) /\ Budget(heap, reactions, calls, loop, steps)
  BY DEF PInv, Stand
<1>3. Typed(heap) /\ IsSeq(reactions) /\ IsSeq(calls) /\ Flow(heap, at, turn)
  BY <1>2, WorldTyped
<1>4. p \in Promises /\ heap.queue[at] = Publish(p) /\ heap.state[p] # PENDING
  BY <1>1, <1>3 DEF Typed, Jobs, JobOK
<1>5. IsSeq(subs) /\ Len(subs) \in Nat /\ DOMAIN subs = 1 .. Len(subs)
  BY <1>3, <1>4, SeqFacts DEF Typed, Subscribers
<1>6. at \in Nat /\ turn \in Nat \ {0}  BY <1>3 DEF Flow
<1>7. turn > 1 => turn \in DOMAIN subs  BY <1>2 DEF TurnOK
<1>8. LoopOK(heap', at', Idle)  BY DEF LoopOK
<1>9. CASE subs = <<>>
  <2>1. UNCHANGED <<heap, calls>>  BY <1>9 DEF RunPublish
  <2>2. DOMAIN subs = {} /\ Len(subs) = 0  BY <1>5, <1>9, SeqFacts
  <2>3. turn = 1 /\ last  BY <1>5, <1>6, <1>7, <2>2
  <2>4. ~Awaits(heap, at, at)  BY <1>1 DEF Awaits
  <2>5. World(heap, at + 1, 1, reactions, calls)  BY <1>1, <1>2, <2>2, <2>3, <2>4, PassJob
  <2>6. TurnOK(heap, at + 1, 1)  BY FirstTurnOK
  <2>7. at' = at + 1 /\ turn' = 1  BY <1>1, <2>3
  <2> HIDE DEF p, subs, last
  <2> QED  BY <1>1, <1>2, <1>8, <2>1, <2>5, <2>6, <2>7 DEF PInv, Stand
<1>10. CASE subs # <<>>
  <2>1. PICK o, g :
           /\ o \in OutcomesOf(heap, cb)
           /\ g = IF s.child = NoChild
                  THEN tryCatch(heap, cb, heap.result[p], o).heap
                  ELSE invokeCallback(heap, heap.state[p], s.child, cb, heap.result[p], o)
           /\ heap' = IF last THEN [g EXCEPT !.subscribers[p] = <<>>] ELSE g
           /\ calls' = IF Mine(cb) THEN Append(calls, c) ELSE calls
    BY <1>10, Zenon DEF RunPublish, Record, Mine
  <2>2. turn \in DOMAIN subs
    <3>1. Len(subs) # 0  BY <1>5, <1>10, SeqFacts
    <3> QED  BY <1>5, <1>6, <1>7, <3>1
  <2>3. SubscriberOK(heap, s)  BY <1>3, <1>4, <2>2 DEF Typed, Subscribers
  <2>4. CallbackOK(heap, cb)  BY <2>3, Zenon DEF SubscriberOK
  <2>5. NoChild \notin Promises  BY ValuesApart DEF NoChild, Values
  <2>6. /\ s.child = NoChild => ~Mine(cb) /\ cb # NoCallback
        /\ s.child # NoChild => s.child \in Promises
    <3>1. NoCallback.k = "none"  BY DEF NoCallback
    <3>2. s.child = NoChild => cb.k \in {"resolve", "reject", "settledAt"}
      BY <2>3, <2>5, Zenon DEF SubscriberOK, Silent
    <3>3. cb.k \in {"resolve", "reject", "settledAt"} => ~Mine(cb) /\ cb.k # "none"  BY Zenon DEF Mine
    <3> HIDE DEF cb
    <3> QED  BY <2>3, <3>1, <3>2, <3>3, Zenon DEF SubscriberOK
  <2> HIDE DEF subs, s, cb, c, last
  <2>8. Mine(cb) =>
          \E n \in DOMAIN reactions :
             /\ c.child = reactions[n].child
             /\ cb.k = "finally" => n \in Waiting(reactions, calls)
    <3> SUFFICES ASSUME Mine(cb)
                 PROVE  \E n \in DOMAIN reactions :
                           /\ c.child = reactions[n].child
                           /\ cb.k = "finally" => n \in Waiting(reactions, calls)
      OBVIOUS
    <3>1. Mine(heap.subscribers[p][turn].ok) \/ Mine(heap.subscribers[p][turn].err)
      BY Zenon DEF cb, s, subs
    <3>2. PICK n \in DOMAIN reactions : OfSub(heap, p, turn, reactions[n])
      BY <1>2, <1>4, <2>2, <3>1 DEF World, Known, subs
    <3>3. /\ reactions[n].parent = p /\ reactions[n].child = s.child
          /\ reactions[n].ok = s.ok /\ reactions[n].err = s.err
      BY <3>2 DEF OfSub, s, subs
    <3>4. cb.k = "finally" => reactions[n].ok.k = "finally"
      BY <1>2, <3>3 DEF World, Reacted, cb
    <3>5. ~Served(heap, at, turn, p, turn)  BY <1>6 DEF Served
    <3>6. \E k : OfSub(heap, reactions[n].parent, k, reactions[n])
                 /\ ~Served(heap, at, turn, reactions[n].parent, k)
      BY <3>2, <3>3, <3>5
    <3>7. reactions[n].ok.k = "finally" => n \in Waiting(reactions, calls)
      BY <1>2, <3>6, NotCalled
    <3>8. c.child = reactions[n].child  BY <3>3 DEF c
    <3> QED  BY <3>4, <3>7, <3>8
  <2>9. cb.k = "finally" => Room(heap, 2)  BY <2>8, StandRoom DEF Mine
  <2>10. Settles(o)  BY <1>3, <2>1, OutcomeSettles, Zenon
  <2>11. (cb.k # "finally" => Quietly(heap, g, 0)) /\ Quietly(heap, g, 2)
    <3>1. CASE s.child = NoChild
      <4>1. g = tryCatch(heap, cb, heap.result[p], o).heap  BY <2>1, <3>1, Zenon
      <4> QED  BY <1>3, <2>4, <2>6, <2>9, <2>10, <3>1, <4>1, tryCatchCalm
    <3>2. CASE s.child # NoChild
      <4>1. g = invokeCallback(heap, heap.state[p], s.child, cb, heap.result[p], o)
        BY <2>1, <3>2, Zenon
      <4> QED  BY <1>3, <2>4, <2>6, <2>9, <2>10, <3>2, <4>1, invokeCallbackCalm
    <3> QED  BY <3>1, <3>2
  <2>12. Calm(heap, g) /\ Typed(g) /\ Steady(heap, g)  BY <2>11 DEF Quietly, Calm
  <2>13. World(g, at, turn, reactions, calls)  BY <1>2, <2>12, CalmWorld
  <2>14. /\ at \in DOMAIN g.queue /\ g.queue[at] = Publish(p)
         /\ g.subscribers[p] = subs
         /\ g.state[p] = heap.state[p] /\ g.result[p] = heap.result[p]
    BY <1>1, <1>4, <2>12 DEF Calm, NewJobs, Extends, Steady, Kept, subs
  <2>15. World(g, at, turn + 1, reactions, calls')
    <3>1. cb = IF g.state[p] = FULFILLED THEN g.subscribers[p][turn].ok ELSE g.subscribers[p][turn].err
      BY <2>14 DEF cb, s
    <3>2. calls' = IF Mine(cb)
                   THEN Append(calls, [child |-> g.subscribers[p][turn].child, detail |-> g.result[p]])
                   ELSE calls
      BY <2>1, <2>14, Zenon DEF c, s
    <3> HIDE DEF p
    <3> QED  BY <1>4, <2>2, <2>13, <2>14, <3>1, <3>2, ServeTurn, Zenon
  <2>16. IsSeq(calls') /\ Needs(loop) \in Nat  BY <1>2, <2>15, WorldTyped, LoopFacts
  <2>17. Budget(g, reactions, calls', loop, steps)
    <3>1. cb.k = "finally" => \E n \in Waiting(reactions, calls) : c.child = reactions[n].child
      BY <2>8 DEF Mine
    <3>2. Makes(heap, g, 2) /\ (cb.k # "finally" => Makes(heap, g, 0))
      BY <2>11 DEF Quietly
    <3> HIDE DEF p
    <3> QED  BY <1>2, <1>3, <2>1, <2>12, <2>16, <3>1, <3>2, CalledBudget
  <2>18. CASE last
    <3>1. heap' = [g EXCEPT !.subscribers[p] = <<>>] /\ at' = at + 1 /\ turn' = 1
      BY <1>1, <2>1, <2>18, Zenon
    <3>2. \A k \in DOMAIN g.subscribers[p] : k < turn + 1  BY <1>5, <1>6, <2>14, <2>18 DEF last
    <3> HIDE DEF p
    <3>3. World(heap', at + 1, 1, reactions, calls')
      BY <1>4, <2>14, <2>15, <3>1, <3>2, EndPublish
    <3>4. heap'.made = g.made /\ heap'.deferred = g.deferred
      BY <2>12, <3>1 DEF Typed, HeapFields
    <3>5. Budget(heap', reactions, calls', loop, steps)  BY <2>17, <3>4 DEF Budget
    <3>6. TurnOK(heap', at + 1, 1)  BY FirstTurnOK
    <3> QED  BY <1>1, <1>8, <3>1, <3>3, <3>5, <3>6 DEF PInv, Stand
  <2>19. CASE ~last
    <3>1. heap' = g /\ at' = at /\ turn' = turn + 1  BY <1>1, <2>1, <2>19
    <3>2. turn + 1 \in DOMAIN subs  BY <1>5, <1>6, <2>19 DEF last
    <3>3. TurnOK(g, at, turn + 1)
      <4>1. g.queue[at].promise = p  BY <2>14 DEF Publish
      <4> QED  BY <2>14, <3>2, <4>1 DEF TurnOK
    <3> HIDE DEF p
    <3> QED  BY <1>1, <1>8, <2>15, <2>17, <3>1, <3>3 DEF PInv, Stand
  <2> QED  BY <2>18, <2>19
<1> QED  BY <1>9, <1>10

\* The steps of flush that call nobody of the program.
LEMMA FlushStep ==
  ASSUME PInv, FlushStart \/ FlushEnd \/ RunForeign
  PROVE  PInv'
<1>1. /\ World(heap, at, turn, reactions, calls) /\ TurnOK(heap, at, turn)
      /\ LoopOK(heap, at, loop) /\ Budget(heap, reactions, calls, loop, steps)
  BY DEF PInv, Stand
<1>2. Typed(heap) /\ IsSeq(reactions) /\ Flow(heap, at, turn)  BY <1>1, WorldTyped
<1>3. loop = Idle /\ UNCHANGED <<loop, steps, reactions, alls, calls>> /\ UNCHANGED turn
  BY DEF FlushStart, FlushEnd, RunForeign, Stack, Job
<1>4. LoopOK(heap', at', loop')  BY <1>3 DEF LoopOK
<1>5. CASE FlushStart
  <2>1. at = 0 /\ at' = 1 /\ heap' = [heap EXCEPT !.scheduled = FALSE]
    BY <1>5 DEF FlushStart, Stack
  <2>2. turn = 1  BY <1>1, <2>1, WorldTyped
  <2>3. World(heap', 1, 1, reactions, calls)  BY <1>1, <2>1, <2>2, StartWorld
  <2>4. heap'.made = heap.made /\ heap'.deferred = heap.deferred
    BY <1>2, <2>1 DEF Typed, HeapFields
  <2>5. Budget(heap', reactions, calls, loop, steps)  BY <1>1, <2>4 DEF Budget
  <2>6. TurnOK(heap', 1, 1)  BY FirstTurnOK
  <2> QED  BY <1>3, <1>4, <2>1, <2>2, <2>3, <2>5, <2>6 DEF PInv, Stand
<1>6. CASE FlushEnd
  <2>1. at > Len(heap.queue) /\ at' = 0 /\ heap' = [heap EXCEPT !.queue = <<>>]
    BY <1>6 DEF FlushEnd
  <2>2. turn = 1 /\ World(heap', 0, 1, reactions, calls)  BY <1>1, <2>1, EndWorld
  <2>3. heap'.made = heap.made /\ heap'.deferred = heap.deferred
    BY <1>2, <2>1 DEF Typed, HeapFields
  <2>4. Budget(heap', reactions, calls, loop, steps)  BY <1>1, <2>3 DEF Budget
  <2>5. TurnOK(heap', 0, 1)  BY FirstTurnOK
  <2> QED  BY <1>3, <1>4, <2>1, <2>2, <2>4, <2>5 DEF PInv, Stand
<1>7. CASE RunForeign
  <2> DEFINE j == heap.queue[at]
             f == Len(heap.foreign) + 1
             x == Append(heap.foreign, [promise |-> j.promise, thenable |-> j.thenable,
                                        sealed |-> FALSE])
             g == [heap EXCEPT !.foreign = x]
  <2>1. /\ at \in DOMAIN heap.queue /\ j.k = "foreign" /\ at' = at + 1
        /\ heap' = g \/ \E c : heap' = foreignCall(g, f, c)
    BY <1>7 DEF RunForeign, Job
  <2>2. j.promise \in Promises  BY <1>2, <2>1 DEF Typed, Jobs, JobOK
  <2>3. Stands(x) /\ f \in DOMAIN x
    <3>1. IsSeq(heap.foreign)  BY <1>2 DEF Typed, Stands
    <3>2. \A y : /\ IsSeq(Append(heap.foreign, y)) /\ Len(heap.foreign) \in Nat
                 /\ DOMAIN heap.foreign = 1 .. Len(heap.foreign)
                 /\ DOMAIN Append(heap.foreign, y) = 1 .. Len(heap.foreign) + 1
                 /\ \A i \in 1 .. Len(heap.foreign) : Append(heap.foreign, y)[i] = heap.foreign[i]
                 /\ Append(heap.foreign, y)[Len(heap.foreign) + 1] = y
      BY <3>1, SeqAppend
    <3> QED  BY <1>2, <2>2, <3>2 DEF Typed, Stands
  <2> HIDE DEF x
  <2>4. Quietly(heap, g, 0) /\ g.foreign = x  BY <1>2, <2>3, ForeignCalm
  <2> HIDE DEF g
  <2>5. Typed(g)  BY <2>4 DEF Quietly, Calm
  <2>6. \A c : Quietly(g, foreignCall(g, f, c), 0)  BY <2>3, <2>4, <2>5, foreignCallCalm
  <2>7. Quietly(heap, heap', 0)
    <3>1. \A c : Quietly(heap, foreignCall(g, f, c), 0 + 0)  BY <1>2, <2>4, <2>6, QuietTrans
    <3> QED  BY <2>1, <2>4, <3>1
  <2>8. Calm(heap, heap') /\ Makes(heap, heap', 0)  BY <2>7 DEF Quietly
  <2>9. steps \in Nat /\ steps <= MaxSteps /\ Needs(loop) \in Nat  BY <1>1, LoopFacts DEF Budget
  <2>10. LoopOK(heap', at, loop)  BY <1>3 DEF LoopOK
  <2>11. Needs(loop) + 0 + 4 * steps <= Needs(loop) + 4 * steps  BY <2>9
  <2>12. Stand(heap', at, turn, loop, steps, reactions, calls)
    BY <2>8, <2>9, <2>10, <2>11, CalmStand DEF PInv
  <2>13. turn = 1  BY <1>2, <2>1 DEF Flow
  <2>14. at \in DOMAIN heap'.queue /\ heap'.queue[at] = j
    BY <2>1, <2>8 DEF Calm, NewJobs, Extends
  <2>15. ~Awaits(heap', at, at)  BY <2>1, <2>14 DEF Awaits
  <2>16. heap'.queue[at].k # "publish"  BY <2>1, <2>14
  <2> HIDE DEF j
  <2>17. World(heap', at + 1, 1, reactions, calls)
    BY <2>12, <2>13, <2>14, <2>15, <2>16, PassJob DEF Stand
  <2>18. TurnOK(heap', at + 1, 1)  BY FirstTurnOK
  <2> QED  BY <1>3, <1>4, <2>1, <2>12, <2>13, <2>17, <2>18 DEF PInv, Stand
<1> QED  BY <1>5, <1>6, <1>7

-----------------------------------------------------------------------------
(* The theorems                                                            *)

LEMMA InitPInv ==
  ASSUME Init
  PROVE  PInv
<1> USE DEF Init
<1>1. IsSeq(<<>>) /\ DOMAIN (<<>>) = {} /\ Len(<<>>) = 0
  <2>1. <<>> \in Seq({}) /\ DOMAIN (<<>>) = {} /\ Len(<<>>) = 0  OBVIOUS
  <2> QED  BY <2>1 DEF IsSeq
<1>2. IsFiniteSet({}) /\ Cardinality({}) = 0  BY FS_EmptySet
<1>3. Typed(heap)
  <2>1. Shape(heap) /\ HeapFields \subseteq DOMAIN heap /\ Made(heap)
    BY <1>2 DEF Shape, HeapFields, Made
  <2>2. Subscribers(heap) /\ Jobs(heap) /\ Stands(heap.foreign) /\ Stands(heap.enums)
    BY <1>1 DEF Subscribers, Jobs, Stands
  <2> QED  BY <2>1, <2>2 DEF Typed
<1>4. World(heap, 0, 1, <<>>, <<>>)
  <2>1. Flow(heap, 0, 1) /\ Published(heap, 0) /\ Reacted(heap, <<>>)
    BY <1>1 DEF Flow, Published, Full, Reacted
  <2>2. Known(heap, 0, <<>>)  BY <1>1 DEF Known, Awaits
  <2>3. SubsOrdered(heap, <<>>) /\ JobsOrdered(heap, 0, <<>>) /\ SubsFirst(heap, 0, <<>>)
    BY <1>1 DEF SubsOrdered, JobsOrdered, SubsFirst
  <2>4. CallsRight(heap, <<>>, <<>>) /\ CallsFirst(heap, 0, 1, <<>>, <<>>)
    BY <1>1 DEF CallsRight, CallsFirst
  <2>5. Due(heap, 0, 1, <<>>, <<>>)  BY <1>1 DEF Due
  <2> QED  BY <1>3, <2>1, <2>2, <2>3, <2>4, <2>5 DEF World
<1>5. Waiting(<<>>, <<>>) = {} /\ Needs(loop) = 0  BY <1>1 DEF Waiting, Needs, Idle
<1>6. Budget(heap, <<>>, <<>>, loop, 0)
  <2>1. MaxSteps \in Nat /\ MaxDeferred \in Nat  BY ValuesApart
  <2>2. heap.made = {} /\ heap.deferred = {}  OBVIOUS
  <2>3. 0 + 2 * 0 + 0 <= 0 + 4 * 0 /\ 0 \in Nat /\ 0 <= MaxSteps /\ 0 <= MaxDeferred  BY <2>1
  <2> HIDE DEF Init
  <2> QED  BY <1>2, <1>5, <2>2, <2>3 DEF Budget
<1>7. LoopOK(heap, at, loop)  BY DEF LoopOK
<1>8. TurnOK(heap, 0, 1)  BY FirstTurnOK
<1> QED  BY <1>4, <1>6, <1>7, <1>8 DEF PInv, Stand

LEMMA StepPInv ==
  ASSUME PInv, [Next]_vars
  PROVE  PInv'
<1>1. CASE UNCHANGED vars  BY <1>1 DEF vars, PInv
<1>2. CASE Library
  <2>1. CASE FlushStart \/ FlushEnd \/ RunForeign  BY <2>1, FlushStep
  <2>2. CASE RunPublish  BY <2>2, PublishStep
  <2>3. CASE RunInvoke  BY <2>3, InvokeStep
  <2>4. CASE EnumerateStep \/ EnumerateEnd \/ RaceStep  BY <2>4, LoopStep
  <2> QED  BY <1>2, <2>1, <2>2, <2>3, <2>4 DEF Library
<1>3. CASE Program
  <2>1. CASE Promise  BY <2>1, PromiseStep
  <2>2. CASE Settle \/ Adopt \/ Static \/ ForeignLate  BY <2>2, CalmCalls
  <2>3. CASE Then \/ Finally  BY <2>3, ReactStep
  <2>4. CASE all \/ race  BY <2>4, CombineStep
  <2> QED  BY <1>3, <2>1, <2>2, <2>3, <2>4 DEF Program
<1> QED  BY <1>1, <1>2, <1>3 DEF Next

\* Every reaction is where it should be, and no promise is made twice: there is
\* one left whenever the code makes one.
THEOREM PInvHolds == Spec => []PInv
<1>1. Init => PInv  BY InitPInv
<1>2. PInv /\ [Next]_vars => PInv'  BY StepPInv
<1> QED  BY <1>1, <1>2, PTL DEF Spec

\* The callbacks of one promise are called in the order they were registered,
\* none twice, each with what the promise settled with: those registered
\* before it settled (publish) before those registered after (the queue).
THEOREM CallbacksInOrderHolds == Spec => []CallbacksInOrder
<1>1. PInv => CallbacksInOrder
  BY DEF PInv, Stand, World, CallsRight, CallbacksInOrder
<1> QED  BY <1>1, PInvHolds, PTL

\* When the queue has come to rest, every callback for what its promise settled
\* with has been called: publish reaches the last subscriber, jobs queued while a
\* flush runs are run by that flush, and the first job after it schedules a new one.
THEOREM CallbacksCalledHolds == Spec => []CallbacksCalled
<1>1. PInv => CallbacksCalled
  <2> SUFFICES ASSUME PInv, Quiet, NEW n \in DOMAIN reactions,
                      heap.state[reactions[n].parent] # PENDING,
                      CalledFor(heap, reactions[n]) # NoCallback
               PROVE  \E c \in DOMAIN calls : calls[c].child = reactions[n].child
    BY DEF CallbacksCalled, CalledFor
  <2>1. World(heap, at, turn, reactions, calls)  BY DEF PInv, Stand
  <2>2. DOMAIN heap.queue = {}  BY <2>1 DEF World, Flow, Quiet, Stack
  <2>3. Full(heap) = {}  BY <2>1, <2>2 DEF World, Published
  <2>4. reactions[n].parent \in Promises  BY <2>1 DEF World, Reacted
  <2>5. \A k : ~OfSub(heap, reactions[n].parent, k, reactions[n])
    BY <2>3, <2>4 DEF Full, OfSub
  <2>6. \A q : ~OfJob(heap, at, q, reactions[n])  BY <2>2 DEF OfJob, Awaits
  <2>7. IsDue(heap, at, turn, reactions[n], calls)  BY <2>1 DEF World, Due
  <2> QED  BY <2>5, <2>6, <2>7 DEF IsDue
<1> QED  BY <1>1, PInvHolds, PTL

-----------------------------------------------------------------------------
(* The promises of `all' and of `finally'.                                 *)
(*                                                                         *)
(* A hand of a promise is a subscriber or a job that may settle it.  What  *)
(* a call of the library settles is one of the promises it was given, and  *)
(* it gives a new hand to those and to new promises only: all the others   *)
(* are spared.                                                             *)

LEMMA GrowsTrans ==
  ASSUME NEW h, NEW g, NEW k, Grows(h, g), Grows(g, k)
  PROVE  Grows(h, k)
<1>1. Kept(h, k)  BY KeptTrans DEF Grows
<1>2. \A p \in Promises : Extends(h.subscribers[p], k.subscribers[p])
  BY ExtendsTrans DEF Grows
<1>3. Extends(h.queue, k.queue)  BY ExtendsTrans DEF Grows
<1> QED  BY <1>1, <1>2, <1>3 DEF Grows

LEMMA SparedTrans ==
  ASSUME NEW h, NEW g, NEW k, Grows(h, g), Grows(g, k), NEW x, Spared(h, g, x), Spared(g, k, x)
  PROVE  Spared(h, k, x)
<1>1. k.state[x] = h.state[x] /\ k.result[x] = h.result[x] /\ (x \in k.deferred => x \in h.deferred)
  BY DEF Spared
<1>2. ASSUME NEW p \in Promises, NEW i \in DOMAIN k.subscribers[p] \ DOMAIN h.subscribers[p]
      PROVE  /\ ~SubHand(k.subscribers[p][i], x)
             /\ \A e \in DOMAIN k.enums : \A n : k.enums[e].promise = x => k.subscribers[p][i] # Collect(e, n)
  <2>1. CASE i \in DOMAIN g.subscribers[p]
    <3>1. k.subscribers[p][i] = g.subscribers[p][i]  BY <2>1 DEF Grows, Extends
    <3>2. \A e \in DOMAIN k.enums : k.enums[e].promise = x =>
             e \in DOMAIN g.enums /\ g.enums[e].promise = x
      BY DEF Spared
    <3> QED  BY <2>1, <3>1, <3>2 DEF Spared
  <2>2. CASE i \notin DOMAIN g.subscribers[p]  BY <2>2 DEF Spared
  <2> QED  BY <2>1, <2>2
<1>3. \A q \in DOMAIN k.queue \ DOMAIN h.queue : ~JobHand(k.queue[q], x)
  <2> SUFFICES ASSUME NEW q \in DOMAIN k.queue \ DOMAIN h.queue PROVE ~JobHand(k.queue[q], x)
    OBVIOUS
  <2>1. CASE q \in DOMAIN g.queue  BY <2>1 DEF Grows, Extends, Spared
  <2>2. CASE q \notin DOMAIN g.queue  BY <2>2 DEF Spared
  <2> QED  BY <2>1, <2>2
<1>4. \A f \in DOMAIN k.foreign : k.foreign[f].promise = x =>
         \E d \in DOMAIN h.foreign : h.foreign[d].promise = x
  BY DEF Spared
<1>5. \A e \in DOMAIN k.enums : k.enums[e].promise = x =>
         e \in DOMAIN h.enums /\ k.enums[e] = h.enums[e]
  BY DEF Spared
<1> QED  BY <1>1, <1>2, <1>3, <1>4, <1>5 DEF Spared

LEMMA SparesTrans ==
  ASSUME NEW h, NEW g, NEW k, NEW D, NEW E, Spares(h, g, D), Spares(g, k, E),
         \A x \in h.made : x \in E => x \in D
  PROVE  Spares(h, k, D)
<1>1. Grows(h, g) /\ Grows(g, k) /\ Grows(h, k)  BY GrowsTrans DEF Spares
<1>2. ASSUME NEW x \in h.made, x \notin D PROVE Spared(h, k, x)
  <2>1. x \in g.made /\ x \notin E  BY <1>1, <1>2 DEF Grows
  <2> QED  BY <1>1, <1>2, <2>1, SparedTrans DEF Spares
<1> QED  BY <1>1, <1>2 DEF Spares

LEMMA SparesMore ==
  ASSUME NEW h, NEW g, NEW D, NEW E, Spares(h, g, D), D \subseteq E
  PROVE  Spares(h, g, E)
BY DEF Spares

LEMMA SparesSame ==
  ASSUME NEW h, Typed(h), Sane(h), NEW D
  PROVE  Spares(h, h, D)
<1>1. Kept(h, h)  BY KeptStays DEF Typed
<1>2. Grows(h, h)  BY <1>1, ExtendsSame DEF Grows
<1>3. \A x : Spared(h, h, x)  BY DEF Spared
<1> QED  BY <1>2, <1>3 DEF Spares

LEMMA CalmGrows ==
  ASSUME NEW h, NEW g, Calm(h, g), Sane(g),
         \A e \in DOMAIN h.enums : g.enums[e].promise = h.enums[e].promise
  PROVE  Grows(h, g)
BY DEF Grows, Calm, NewSubscribers, NewJobs

LEMMA SaneStays ==
  ASSUME NEW h, NEW g, h.made \subseteq g.made, DOMAIN h.enums \subseteq DOMAIN g.enums
  PROVE  /\ \A s : SaneSub(h, s) => SaneSub(g, s)
         /\ \A j : SaneJob(h, j) => SaneJob(g, j)
         /\ \A e : SaneEnum(h, e) => SaneEnum(g, e)
         /\ \A f : SaneForeign(h, f) => SaneForeign(g, f)
<1>1. \A s : SaneSub(h, s) => SaneSub(g, s)  BY DEF SaneSub
<1>2. \A j : SaneJob(h, j) => SaneJob(g, j)  BY DEF SaneJob
<1>3. \A e : SaneEnum(h, e) => SaneEnum(g, e)  BY DEF SaneEnum
<1>4. \A f : SaneForeign(h, f) => SaneForeign(g, f)  BY DEF SaneForeign
<1> QED  BY <1>1, <1>2, <1>3, <1>4

\* What is queued is the one new job.
LEMMA SaneJobs ==
  ASSUME NEW h, Typed(h), Sane(h), NEW g, h.made \subseteq g.made,
         DOMAIN h.enums \subseteq DOMAIN g.enums, NEW job, SaneJob(g, job),
         QueueSame(h, g) \/ Queued(h, g, job)
  PROVE  /\ \A q \in DOMAIN g.queue : SaneJob(g, g.queue[q])
         /\ \A q \in DOMAIN g.queue \ DOMAIN h.queue : g.queue[q] = job
<1>1. \A q \in DOMAIN h.queue : SaneJob(g, h.queue[q])  BY SaneStays DEF Sane
<1>2. CASE QueueSame(h, g)  BY <1>1, <1>2 DEF QueueSame
<1>3. CASE Queued(h, g, job)
  <2>1. IsSeq(h.queue)  BY DEF Typed, Jobs
  <2>2. /\ Extends(h.queue, g.queue) /\ DOMAIN g.queue \ DOMAIN h.queue = {Len(h.queue) + 1}
        /\ g.queue[Len(h.queue) + 1] = job
    BY <1>3, <2>1, AppendExtends DEF Queued
  <2>3. \A q \in DOMAIN g.queue : q \in DOMAIN h.queue \/ q = Len(h.queue) + 1  BY <2>2
  <2> QED  BY <1>1, <2>2, <2>3 DEF Extends
<1> QED  BY <1>2, <1>3

LEMMA fulfillFields ==
  ASSUME NEW h, Typed(h), NEW p \in Promises, h.state[p] = PENDING, NEW v
  PROVE  Settled(h, fulfill(h, p, v), p, FULFILLED, v)
<1> DEFINE st == [h.state EXCEPT ![p] = FULFILLED]
           re == [h.result EXCEPT ![p] = v]
           f == [h EXCEPT !.state = st]
           g == [f EXCEPT !.result = re]
<1>1. /\ HeapFields \subseteq DOMAIN f /\ f.state = st /\ f.result = h.result
      /\ f.subscribers = h.subscribers /\ f.queue = h.queue /\ f.scheduled = h.scheduled
      /\ OthersSame(h, f)
  BY DEF Typed, HeapFields, OthersSame
<1> HIDE DEF f, st, re
<1>2. /\ HeapFields \subseteq DOMAIN g /\ g.state = st /\ g.result = re
      /\ g.subscribers = h.subscribers /\ g.queue = h.queue /\ g.scheduled = h.scheduled
      /\ OthersSame(h, g)
  BY <1>1 DEF HeapFields, OthersSame
<1>3. g = [h EXCEPT !.state[p] = FULFILLED, !.result[p] = v]  BY <1>1 DEF f, st, re
<1> HIDE DEF g
<1>4. fulfill(h, p, v) = IF h.subscribers[p] # <<>> THEN asap(g, Publish(p)) ELSE g
  BY <1>3 DEF fulfill
<1>5. DOMAIN h.subscribers[p] = {} <=> h.subscribers[p] = <<>>
  BY SeqFacts DEF Typed, Subscribers
<1>6. CASE h.subscribers[p] = <<>>
  <2>1. QueueSame(h, g) /\ DOMAIN h.subscribers[p] = {}  BY <1>2, <1>5, <1>6 DEF QueueSame
  <2> QED  BY <1>2, <1>4, <1>6, <2>1 DEF Settled, st, re
<1>7. CASE h.subscribers[p] # <<>>
  <2> DEFINE k == asap(g, Publish(p))
  <2>1. /\ OthersSame(g, k) /\ Queued(g, k, Publish(p))
        /\ k.state = st /\ k.result = re /\ k.subscribers = h.subscribers
    BY <1>2, asapFields DEF Typed, Jobs
  <2> HIDE DEF k
  <2>2. OthersSame(h, k) /\ Queued(h, k, Publish(p))  BY <1>2, <2>1 DEF OthersSame, Queued
  <2> QED  BY <1>4, <1>7, <2>1, <2>2 DEF Settled, st, re, k
<1> QED  BY <1>6, <1>7

LEMMA rejectFields ==
  ASSUME NEW h, Typed(h), NEW p \in Promises, h.state[p] = PENDING, NEW r
  PROVE  Settled(h, reject(h, p, r), p, REJECTED, r)
<1> DEFINE st == [h.state EXCEPT ![p] = REJECTED]
           re == [h.result EXCEPT ![p] = r]
           f == [h EXCEPT !.state = st]
           g == [f EXCEPT !.result = re]
           k == asap(g, Publish(p))
<1>1. /\ HeapFields \subseteq DOMAIN f /\ f.state = st /\ f.result = h.result
      /\ f.subscribers = h.subscribers /\ f.queue = h.queue /\ f.scheduled = h.scheduled
      /\ OthersSame(h, f)
  BY DEF Typed, HeapFields, OthersSame
<1> HIDE DEF f, st, re
<1>2. /\ HeapFields \subseteq DOMAIN g /\ g.state = st /\ g.result = re
      /\ g.subscribers = h.subscribers /\ g.queue = h.queue /\ g.scheduled = h.scheduled
      /\ OthersSame(h, g)
  BY <1>1 DEF HeapFields, OthersSame
<1>3. g = [h EXCEPT !.state[p] = REJECTED, !.result[p] = r]  BY <1>1 DEF f, st, re
<1> HIDE DEF g
<1>4. reject(h, p, r) = k  BY <1>3 DEF reject
<1>5. /\ OthersSame(g, k) /\ Queued(g, k, Publish(p))
      /\ k.state = st /\ k.result = re /\ k.subscribers = h.subscribers
  BY <1>2, asapFields DEF Typed, Jobs
<1> HIDE DEF k
<1>6. OthersSame(h, k) /\ Queued(h, k, Publish(p))  BY <1>2, <1>5 DEF OthersSame, Queued
<1> QED  BY <1>4, <1>5, <1>6 DEF Settled, st, re

LEMMA SettledSpares ==
  ASSUME NEW h, Typed(h), Sane(h), NEW p \in h.made, NEW g, Calm(h, g), NEW s, NEW v,
         s = FULFILLED => Flat(v), Settled(h, g, p, s, v)
  PROVE  Spares(h, g, {p})
<1>1. h.made \subseteq Promises  BY DEF Typed, Made
<1>2. g.made = h.made /\ g.enums = h.enums /\ g.foreign = h.foreign /\ g.deferred = h.deferred
  BY DEF Settled, OthersSame
<1>3. g.subscribers = h.subscribers  BY DEF Settled
<1>4. \A x \in Promises : x # p => g.state[x] = h.state[x] /\ g.result[x] = h.result[x]
  BY <1>1 DEF Settled, Typed, Shape
<1>5. g.state[p] = s /\ g.result[p] = v  BY <1>1 DEF Settled, Typed, Shape
<1>6. SaneJob(g, Publish(p)) /\ \A x : ~JobHand(Publish(p), x)  BY DEF SaneJob, JobHand, Publish
<1>7. QueueSame(h, g) \/ Queued(h, g, Publish(p))  BY DEF Settled
<1>8. /\ \A q \in DOMAIN g.queue : SaneJob(g, g.queue[q])
      /\ \A q \in DOMAIN g.queue \ DOMAIN h.queue : g.queue[q] = Publish(p)
  BY <1>2, <1>6, <1>7, SaneJobs
<1>9. /\ \A y : SaneSub(h, y) => SaneSub(g, y)
      /\ \A y : SaneEnum(h, y) => SaneEnum(g, y)
      /\ \A y : SaneForeign(h, y) => SaneForeign(g, y)
  BY <1>2, SaneStays
<1>10. Sane(g)  BY <1>2, <1>3, <1>4, <1>5, <1>8, <1>9 DEF Sane
<1>11. Grows(h, g)  BY <1>2, <1>10, CalmGrows
<1>12. \A x \in h.made : x # p => Spared(h, g, x)
  BY <1>1, <1>2, <1>3, <1>4, <1>6, <1>8 DEF Spared
<1> QED  BY <1>11, <1>12 DEF Spares

LEMMA fulfillSpares ==
  ASSUME NEW h, Typed(h), Sane(h), NEW p \in h.made, NEW v, Flat(v)
  PROVE  Spares(h, fulfill(h, p, v), {p})
<1>1. p \in Promises  BY DEF Typed, Made
<1>2. CASE h.state[p] = PENDING
  <2>1. Settled(h, fulfill(h, p, v), p, FULFILLED, v)  BY <1>1, <1>2, fulfillFields
  <2>2. Calm(h, fulfill(h, p, v))  BY <1>1, fulfillCalm DEF Quietly
  <2> QED  BY <2>1, <2>2, SettledSpares
<1>3. CASE h.state[p] # PENDING  BY <1>3, SparesSame DEF fulfill
<1> QED  BY <1>2, <1>3

LEMMA rejectSpares ==
  ASSUME NEW h, Typed(h), Sane(h), NEW p \in h.made, NEW r
  PROVE  Spares(h, reject(h, p, r), {p})
<1>1. p \in Promises  BY DEF Typed, Made
<1>2. CASE h.state[p] = PENDING
  <2>1. Settled(h, reject(h, p, r), p, REJECTED, r)  BY <1>1, <1>2, rejectFields
  <2>2. Calm(h, reject(h, p, r)) /\ REJECTED # FULFILLED
    BY <1>1, rejectCalm DEF Quietly, REJECTED, FULFILLED
  <2> QED  BY <2>1, <2>2, SettledSpares
<1>3. CASE h.state[p] # PENDING  BY <1>3, SparesSame DEF reject
<1> QED  BY <1>2, <1>3

\* A job of the program's own or of the library's.
LEMMA asapSpares ==
  ASSUME NEW h, Typed(h), Sane(h), NEW job, SaneJob(h, job), Typed(asap(h, job)),
         NEW D, \A x \in h.made : JobHand(job, x) => x \in D
  PROVE  Spares(h, asap(h, job), D)
<1> DEFINE g == asap(h, job)
<1>1. /\ OthersSame(h, g) /\ Queued(h, g, job) /\ g.state = h.state /\ g.result = h.result
      /\ g.subscribers = h.subscribers
  BY asapFields DEF Typed, Jobs
<1> HIDE DEF g
<1>2. Kept(h, g)  BY <1>1 DEF Typed, Kept, Shape, OthersSame, HeapFields
<1>3. g.made = h.made /\ g.enums = h.enums /\ g.foreign = h.foreign /\ g.deferred = h.deferred
  BY <1>1 DEF OthersSame
<1>4. /\ \A y : SaneSub(h, y) => SaneSub(g, y)
      /\ \A y : SaneEnum(h, y) => SaneEnum(g, y)
      /\ \A y : SaneForeign(h, y) => SaneForeign(g, y)
      /\ \A y : SaneJob(h, y) => SaneJob(g, y)
  BY <1>3, SaneStays
<1>5. /\ \A q \in DOMAIN g.queue : SaneJob(g, g.queue[q])
      /\ \A q \in DOMAIN g.queue \ DOMAIN h.queue : g.queue[q] = job
  BY <1>1, <1>3, <1>4, SaneJobs
<1>6. Sane(g)  BY <1>1, <1>3, <1>4, <1>5 DEF Sane
<1>7. Extends(h.queue, g.queue)  BY <1>1, AppendExtends DEF Queued, Typed, Jobs
<1>8. Grows(h, g)  BY <1>1, <1>2, <1>3, <1>6, <1>7, ExtendsSame DEF Grows, g
<1>9. \A x \in h.made : x \in D \/ Spared(h, g, x)  BY <1>1, <1>3, <1>5 DEF Spared
<1> QED  BY <1>8, <1>9 DEF Spares, g

\* The hands of a subscriber's promises, and the enumerator it reports to.
LEMMA subscribeSpares ==
  ASSUME NEW h, Typed(h), Sane(h), NEW p \in Promises, NEW child, NEW ok, NEW err,
         SubscriberOK(h, [child |-> child, ok |-> ok, err |-> err]),
         SaneSub(h, [child |-> child, ok |-> ok, err |-> err]), NEW D,
         \A x \in h.made : SubHand([child |-> child, ok |-> ok, err |-> err], x) => x \in D,
         \A e \in DOMAIN h.enums : \A i :
            [child |-> child, ok |-> ok, err |-> err] = Collect(e, i) => h.enums[e].promise \in D
  PROVE  Spares(h, subscribe(h, p, child, ok, err), D)
<1> DEFINE s == [child |-> child, ok |-> ok, err |-> err]
           g == subscribe(h, p, child, ok, err)
<1>1. Subscribed(h, g, p, s)  BY subscribeFields
<1> HIDE DEF s, g
<1>2. /\ Typed(g) /\ Kept(h, g) /\ NewJobs(h, g)
      /\ \A q \in Promises : Extends(h.subscribers[q], g.subscribers[q])
      /\ \A q \in Promises : q # p => g.subscribers[q] = h.subscribers[q]
      /\ DOMAIN g.subscribers[p] \ DOMAIN h.subscribers[p] = {Len(h.subscribers[p]) + 1}
      /\ g.subscribers[p][Len(h.subscribers[p]) + 1] = s
  BY <1>1, SubscribedFacts DEF s
<1>3. g.made = h.made /\ g.enums = h.enums /\ g.foreign = h.foreign /\ g.deferred = h.deferred
  BY <1>1 DEF Subscribed, OthersSame
<1>4. g.state = h.state /\ g.result = h.result  BY <1>1 DEF Subscribed
<1>5. /\ \A y : SaneSub(h, y) => SaneSub(g, y)
      /\ \A y : SaneEnum(h, y) => SaneEnum(g, y)
      /\ \A y : SaneForeign(h, y) => SaneForeign(g, y)
  BY <1>3, SaneStays
<1>6. SaneJob(g, Publish(p)) /\ \A x : ~JobHand(Publish(p), x)  BY DEF SaneJob, JobHand, Publish
<1>7. QueueSame(h, g) \/ Queued(h, g, Publish(p))  BY <1>1 DEF Subscribed
<1>8. /\ \A q \in DOMAIN g.queue : SaneJob(g, g.queue[q])
      /\ \A q \in DOMAIN g.queue \ DOMAIN h.queue : g.queue[q] = Publish(p)
  BY <1>3, <1>6, <1>7, SaneJobs
<1>9. ASSUME NEW q \in Promises, NEW k \in DOMAIN g.subscribers[q], k \notin DOMAIN h.subscribers[q]
      PROVE  g.subscribers[q][k] = s
  BY <1>2, <1>9
<1>10. SaneSub(h, s)  BY DEF s
<1>11. \A q \in Promises : \A k \in DOMAIN g.subscribers[q] : SaneSub(g, g.subscribers[q][k])
  <2> SUFFICES ASSUME NEW q \in Promises, NEW k \in DOMAIN g.subscribers[q]
               PROVE  SaneSub(h, g.subscribers[q][k])
    BY <1>5
  <2>1. CASE k \in DOMAIN h.subscribers[q]  BY <1>2, <2>1 DEF Extends, Sane
  <2>2. CASE k \notin DOMAIN h.subscribers[q]  BY <1>9, <1>10, <2>2
  <2> QED  BY <2>1, <2>2
<1>12. Sane(g)  BY <1>3, <1>4, <1>5, <1>8, <1>11 DEF Sane
<1>13. Grows(h, g)  BY <1>2, <1>3, <1>12 DEF Grows, NewJobs
<1>14. ASSUME NEW x \in h.made, x \notin D PROVE Spared(h, g, x)
  <2>1. ~SubHand(s, x) /\ \A e \in DOMAIN h.enums : \A i : h.enums[e].promise = x => s # Collect(e, i)
    BY <1>14 DEF s
  <2> QED  BY <1>3, <1>4, <1>6, <1>8, <1>9, <2>1 DEF Spared
<1> QED  BY <1>13, <1>14 DEF Spares, g

-----------------------------------------------------------------------------
(* Whom resolving spares                                                   *)

LEMMA LinkFacts ==
  ASSUME NEW x \in Promises
  PROVE  /\ \A y \in Promises : SubHand(Link(x), y) <=> y = x
         /\ ~Collects(Link(x).ok) /\ ~Collects(Link(x).err)
         /\ \A e, i : Link(x) # Collect(e, i)
         /\ \A h : x \in h.made => SaneSub(h, Link(x))
         /\ \A h : SubscriberOK(h, Link(x))
<1>1. NoChild \notin Promises  BY ValuesApart DEF NoChild, Values
<1>2. \A y \in Promises : SubHand(Link(x), y) <=> y = x  BY <1>1 DEF SubHand, Link, Names
<1>3. ~Collects(Link(x).ok) /\ ~Collects(Link(x).err)  BY DEF Link, Collects
<1>4. \A e, i : Collects(Collect(e, i).ok)  BY DEF Collect, Collects
<1>5. \A h : x \in h.made => SaneSub(h, Link(x))  BY <1>2, <1>3 DEF SaneSub
<1>6. \A h : SubscriberOK(h, Link(x))  BY SettlingCallbacks DEF Link
<1> QED  BY <1>2, <1>3, <1>4, <1>5, <1>6

LEMMA resolveSpares ==
  ASSUME NEW h, Typed(h), Sane(h), NEW p \in h.made, NEW v
  PROVE  /\ Spares(h, handleMaybeThenable(h, p, v), {p})
         /\ Spares(h, resolve(h, p, v), {p})
<1>0. p \in Promises  BY DEF Typed, Made
<1>1. ASSUME NEW q \in Promises PROVE Spares(h, handleOwnThenable(h, p, q), {p})
  <2>1. CASE h.state[q] = PENDING
    <3>1. Spares(h, subscribe(h, q, NoChild, [k |-> "resolve", promise |-> p],
                                             [k |-> "reject", promise |-> p]), {p})
      <4>1. h.made \subseteq Promises  BY DEF Typed, Made
      <4>2. /\ SubscriberOK(h, Link(p)) /\ SaneSub(h, Link(p))
            /\ \A x \in h.made : SubHand(Link(p), x) => x \in {p}
            /\ \A e \in DOMAIN h.enums : \A i : Link(p) # Collect(e, i)
        BY <1>0, <4>1, LinkFacts
      <4> QED  BY <4>2, subscribeSpares DEF Link
    <3>2. h.state[q] # FULFILLED /\ h.state[q] # REJECTED
      BY <2>1 DEF PENDING, FULFILLED, REJECTED
    <3> QED  BY <3>1, <3>2 DEF handleOwnThenable
  <2>2. CASE h.state[q] = FULFILLED
    <3>1. Spares(h, fulfill(h, p, h.result[q]), {p})  BY <2>2, fulfillSpares DEF Sane
    <3>2. h.state[q] # REJECTED  BY <2>2 DEF FULFILLED, REJECTED
    <3> QED  BY <2>2, <3>1, <3>2, Zenon DEF handleOwnThenable
  <2>3. CASE h.state[q] = REJECTED
    <3>1. Spares(h, reject(h, p, h.result[q]), {p})  BY rejectSpares
    <3>2. h.state[q] # FULFILLED  BY <2>3 DEF FULFILLED, REJECTED
    <3> QED  BY <2>3, <3>1, <3>2, Zenon DEF handleOwnThenable
  <2> QED  BY <2>1, <2>2, <2>3 DEF Typed
<1>2. ASSUME Flat(v) PROVE Spares(h, handleForeignThenable(h, p, v), {p})
  <2> DEFINE job == [k |-> "foreign", promise |-> p, thenable |-> v]
  <2>1. Typed(asap(h, job))  BY <1>0, asapCalm DEF JobOK, Quietly, Calm
  <2>2. SaneJob(h, job) /\ \A x \in h.made : JobHand(job, x) => x \in {p}
    BY <1>2 DEF SaneJob, JobHand
  <2> HIDE DEF job
  <2>3. Spares(h, asap(h, job), {p})  BY <2>1, <2>2, asapSpares
  <2> QED  BY <2>3 DEF handleForeignThenable, job
<1>3. Spares(h, handleMaybeThenable(h, p, v), {p})
  BY <1>1, <1>2, rejectSpares DEF handleMaybeThenable, Flat
<1>4. v \notin Promises \cup Thenables \cup BadThens => Spares(h, fulfill(h, p, v), {p})
  BY fulfillSpares DEF Flat
<1> QED  BY <1>3, <1>4, rejectSpares DEF resolve

\* Fields that say nothing of states, subscribers and jobs.
LEMMA SameSpares ==
  ASSUME NEW h, Typed(h), Sane(h), NEW g, Calm(h, g), NEW D,
         g.state = h.state, g.result = h.result, g.subscribers = h.subscribers, QueueSame(h, g),
         h.made \subseteq g.made,
         \A x \in h.made \ D : x \in g.deferred => x \in h.deferred,
         \A f \in DOMAIN g.foreign :
            \/ SaneForeign(g, g.foreign[f]) /\ g.foreign[f].promise \in D \cup (Promises \ h.made)
            \/ \E d \in DOMAIN h.foreign : /\ h.foreign[d].promise = g.foreign[f].promise
                                          /\ h.foreign[d].thenable = g.foreign[f].thenable,
         \A e \in DOMAIN h.enums : e \in DOMAIN g.enums /\ g.enums[e].promise = h.enums[e].promise,
         \A e \in DOMAIN g.enums :
            \/ SaneEnum(g, g.enums[e]) /\ g.enums[e].promise \in D \cup (Promises \ h.made)
            \/ e \in DOMAIN h.enums /\ g.enums[e] = h.enums[e]
  PROVE  Spares(h, g, D)
<1>1. /\ \A y : SaneSub(h, y) => SaneSub(g, y)
      /\ \A y : SaneJob(h, y) => SaneJob(g, y)
      /\ \A y : SaneEnum(h, y) => SaneEnum(g, y)
      /\ \A y : SaneForeign(h, y) => SaneForeign(g, y)
  <2>1. DOMAIN h.enums \subseteq DOMAIN g.enums  OBVIOUS
  <2> QED  BY <2>1, SaneStays
<1>2. \A f \in DOMAIN g.foreign : SaneForeign(g, g.foreign[f])  BY DEF Sane, SaneForeign
<1>3. \A e \in DOMAIN g.enums : SaneEnum(g, g.enums[e])  BY <1>1 DEF Sane
<1>4. Sane(g)  BY <1>1, <1>2, <1>3 DEF Sane, QueueSame
<1>5. Grows(h, g)  BY <1>4, CalmGrows
<1>6. \A x \in h.made : x \in D \/ Spared(h, g, x)
  BY DEF Spared, QueueSame
<1> QED  BY <1>5, <1>6 DEF Spares

LEMMA makeSpares ==
  ASSUME NEW h, Typed(h), Sane(h), Room(h, 1), NEW D
  PROVE  Spares(h, makePromise(h), D)
<1> DEFINE g == makePromise(h)
<1>1. /\ g.made = h.made \cup {NewPromise(h)} /\ g.deferred = h.deferred
      /\ g.foreign = h.foreign /\ g.enums = h.enums /\ g.state = h.state
      /\ g.result = h.result /\ g.subscribers = h.subscribers /\ QueueSame(h, g)
  BY makeFields
<1>2. Calm(h, g)  BY makeCalm DEF Quietly
<1> HIDE DEF g
<1>3. h.made \subseteq g.made  BY <1>1
<1>4. Spares(h, g, D)  BY <1>1, <1>2, <1>3, SameSpares
<1> QED  BY <1>4 DEF g

\* What is made is new, and the old heap's promises stay what they were.
LEMMA NewIsSpare ==
  ASSUME NEW h, Typed(h), Sane(h), Room(h, 1)
  PROVE  /\ NewPromise(h) \in makePromise(h).made /\ NewPromise(h) \notin h.made
         /\ NewPromise(h) \in Promises /\ h.state[NewPromise(h)] = PENDING
         /\ Typed(makePromise(h)) /\ Sane(makePromise(h))
<1>1. makePromise(h).made = h.made \cup {NewPromise(h)}  BY makeFields
<1>2. NewPromise(h) \in Promises /\ NewPromise(h) \notin h.made  BY NewPromiseFresh
<1>3. Spares(h, makePromise(h), {})  BY makeSpares
<1> QED  BY <1>1, <1>2, <1>3 DEF Spares, Grows, Sane

LEMMA thenSpares ==
  ASSUME NEW h, Typed(h), Sane(h), Room(h, 1), NEW p \in Promises, NEW ok, NEW err,
         CallbackOK(h, ok), CallbackOK(h, err), ~Collects(ok), ~Collects(err),
         Typed(then(h, p, ok, err)), NEW D,
         \A x \in Promises : Names(ok, x) \/ Names(err, x) => x \in h.made /\ x \in D
  PROVE  Spares(h, then(h, p, ok, err), D)
<1> DEFINE c == NewPromise(h)
           g == makePromise(h)
           s == [child |-> c, ok |-> ok, err |-> err]
           job == [k |-> "invoke", settled |-> h.state[p], child |-> c,
                   callback |-> IF h.state[p] = FULFILLED THEN ok ELSE err,
                   detail |-> h.result[p]]
           E == D \cup {c}
<1>1. Spares(h, g, D)  BY makeSpares
<1>2. c \in Promises /\ c \notin h.made /\ c \in g.made /\ Typed(g) /\ Sane(g)  BY NewIsSpare
<1>3. g.state = h.state /\ g.enums = h.enums /\ h.made \subseteq g.made
  BY <1>1, makeFields DEF Spares, Grows
<1>4. then(h, p, ok, err) = IF h.state[p] = PENDING THEN subscribe(g, p, c, ok, err) ELSE asap(g, job)
  BY DEF then
<1>5. /\ \A x : SubHand(s, x) <=> c = x \/ Names(ok, x) \/ Names(err, x)
      /\ s.ok = ok /\ s.err = err
  BY DEF SubHand
<1>6. /\ \A x : JobHand(job, x) => c = x \/ Names(ok, x) \/ Names(err, x)
      /\ job.k = "invoke" /\ job.settled = h.state[p] /\ job.detail = h.result[p] /\ ~Collects(job.callback)
  BY DEF JobHand
<1> HIDE DEF c, g, s, job
<1>7. SubscriberOK(g, s)
  <2>1. CallbackOK(g, ok) /\ CallbackOK(g, err)  BY <1>3, StillOK
  <2> QED  BY <1>2, <2>1 DEF SubscriberOK, s
<1>8. SaneSub(g, s)  BY <1>2, <1>3, <1>5 DEF SaneSub
<1>9. SaneJob(g, job)
  <2>1. \A x \in Promises : JobHand(job, x) => x \in g.made  BY <1>2, <1>3, <1>6
  <2> QED  BY <1>6, <2>1 DEF SaneJob, Sane
<1>10. CASE h.state[p] = PENDING
  <2>1. \A e, i : s # Collect(e, i)
    <3>1. \A e, i : Collects(Collect(e, i).ok)  BY DEF Collect, Collects
    <3> QED  BY <1>5, <3>1
  <2>2. \A x \in g.made : SubHand(s, x) => x \in E
    <3>1. g.made \subseteq Promises  BY <1>2 DEF Typed, Made
    <3> QED  BY <1>5, <3>1
  <2> HIDE DEF E
  <2>3. Spares(g, subscribe(g, p, c, ok, err), E)
    BY <1>2, <1>7, <1>8, <2>1, <2>2, subscribeSpares DEF s
  <2>4. \A x \in h.made : x \in E => x \in D  BY <1>2 DEF E
  <2> QED  BY <1>1, <1>4, <1>10, <2>3, <2>4, SparesTrans
<1>11. CASE h.state[p] # PENDING
  <2>1. \A x \in g.made : JobHand(job, x) => x \in E
    <3>1. g.made \subseteq Promises  BY <1>2 DEF Typed, Made
    <3> QED  BY <1>6, <3>1
  <2> HIDE DEF E
  <2>2. Spares(g, asap(g, job), E)  BY <1>2, <1>4, <1>9, <1>11, <2>1, asapSpares
  <2>3. \A x \in h.made : x \in E => x \in D  BY <1>2 DEF E
  <2> QED  BY <1>1, <1>4, <1>11, <2>2, <2>3, SparesTrans
<1> QED  BY <1>10, <1>11

LEMMA StaticSpares ==
  ASSUME NEW h, Typed(h), Sane(h), Room(h, 1), NEW v, NEW D
  PROVE  Spares(h, resolveStatic(h, v), D) /\ Spares(h, rejectStatic(h, v), D)
<1> DEFINE g == makePromise(h)
           c == NewPromise(h)
<1>1. Spares(h, g, D)  BY makeSpares
<1>2. c \notin h.made /\ c \in g.made /\ Typed(g) /\ Sane(g)  BY NewIsSpare
<1> HIDE DEF g, c
<1>3. Spares(g, resolve(g, c, v), {c}) /\ Spares(g, reject(g, c, v), {c})
  BY <1>2, resolveSpares, rejectSpares
<1>4. \A x \in h.made : x \in {c} => x \in D  BY <1>2
<1>5. Spares(h, resolve(g, c, v), D) /\ Spares(h, reject(g, c, v), D)
  BY <1>1, <1>3, <1>4, SparesTrans
<1>6. Spares(h, h, D)  BY SparesSame
<1> QED  BY <1>5, <1>6 DEF resolveStatic, rejectStatic, g, c

-----------------------------------------------------------------------------
(* Enumerators: whom they spare, and what they do                          *)

LEMMA FilledFacts ==
  ASSUME NEW h, Typed(h), Sane(h), NEW e \in DOMAIN h.enums, NEW left, NEW values, IsSeq(values)
  PROVE  FilledBy(h, Filled(h, e, left, values), e, left, values)
<1> DEFINE g == Filled(h, e, left, values)
           y == [promise |-> h.enums[e].promise, remaining |-> left, result |-> values]
           x == [h.enums EXCEPT ![e] = y]
           P == h.enums[e].promise
<1>1. P \in Promises /\ P \in h.made  BY DEF Typed, Stands, Sane, SaneEnum
<1>2. "promise" \in DOMAIN y /\ y.promise = P /\ y.result = values /\ y.remaining = left  OBVIOUS
<1>3. Quietly(h, [h EXCEPT !.enums[e] = y], 0)  BY <1>1, <1>2, EntryCalm
<1>4. g = [h EXCEPT !.enums = x]  BY DEF Filled
<1>5. Calm(h, g) /\ Typed(g)  BY <1>3 DEF Quietly, Calm, Filled
<1> HIDE DEF x
<1>6. /\ g.state = h.state /\ g.result = h.result /\ g.made = h.made
      /\ g.subscribers = h.subscribers /\ QueueSame(h, g) /\ g.deferred = h.deferred
      /\ g.foreign = h.foreign /\ g.enums = x
  BY <1>4 DEF Typed, HeapFields, QueueSame
<1>7. DOMAIN x = DOMAIN h.enums /\ x[e] = y /\ \A d \in DOMAIN h.enums : d # e => x[d] = h.enums[d]
  BY DEF x
<1>8. SaneEnum(g, y)  BY <1>1, <1>6 DEF SaneEnum
<1> HIDE DEF y, g, P
<1>9. Spares(h, g, {P})
  <2>1. \A d \in DOMAIN h.enums : g.enums[d].promise = h.enums[d].promise  BY <1>2, <1>6, <1>7 DEF P
  <2>2. \A d \in DOMAIN g.enums :
           \/ SaneEnum(g, g.enums[d]) /\ g.enums[d].promise \in {P}
           \/ d \in DOMAIN h.enums /\ g.enums[d] = h.enums[d]
    BY <1>2, <1>6, <1>7, <1>8
  <2>3. \A f \in DOMAIN g.foreign : \E d \in DOMAIN h.foreign : /\ h.foreign[d].promise = g.foreign[f].promise
                                                              /\ h.foreign[d].thenable = g.foreign[f].thenable
    BY <1>6
  <2> QED  BY <1>5, <1>6, <1>7, <2>1, <2>2, <2>3, SameSpares
<1>10. Sane(g)  BY <1>9 DEF Spares, Grows
<1> QED  BY <1>2, <1>5, <1>6, <1>7, <1>9, <1>10 DEF FilledBy, g, P

\* What settledAt does: nothing when the promise is settled, and otherwise the place is
\* filled, or the promise rejected.
LEMMA settledAtIs ==
  ASSUME NEW h, Typed(h), Sane(h), NEW e \in DOMAIN h.enums, NEW state, NEW i, NEW v
  PROVE  LET N == h.enums[e]
             f == Placed(N.result, i, v)
             g == Filled(h, e, N.remaining - 1, f)
         IN  /\ h.state[N.promise] # PENDING => settledAt(h, e, state, i, v) = h
             /\ h.state[N.promise] = PENDING /\ state = REJECTED =>
                   settledAt(h, e, state, i, v) = reject(Filled(h, e, N.remaining - 1, N.result), N.promise, v)
             /\ h.state[N.promise] = PENDING /\ state # REJECTED =>
                   settledAt(h, e, state, i, v) =
                      IF N.remaining - 1 = 0 THEN fulfill(g, N.promise, f) ELSE g
<1> DEFINE N == h.enums[e]
           p == N.promise
           left == N.remaining - 1
           f == Placed(N.result, i, v)
           a == [h EXCEPT !.enums[e].remaining = left]
           b == [h EXCEPT !.enums[e].remaining = left, !.enums[e].result[i] = v]
           A == Filled(h, e, left, N.result)
           B == Filled(h, e, left, f)
           g == IF h.state[p] # PENDING THEN h
                ELSE IF state = REJECTED THEN reject(a, p, v) ELSE b
<1>0. \A l, x : IsSeq(x) => FilledBy(h, Filled(h, e, l, x), e, l, x)
  BY FilledFacts
<1>1. N = [promise |-> p, remaining |-> N.remaining, result |-> N.result] /\ IsSeq(N.result)
  BY DEF Sane, SaneEnum
<1>2. p \in Promises  BY DEF Typed, Stands
<1>3. settledAt(h, e, state, i, v) =
         IF g.enums[e].remaining = 0 THEN fulfill(g, p, g.enums[e].result) ELSE g
  BY DEF settledAt
<1>4. a = A
  <2> DEFINE y == [N EXCEPT !.remaining = left]
             z == [promise |-> p, remaining |-> left, result |-> N.result]
  <2>1. a = [h EXCEPT !.enums[e] = y]  OBVIOUS
  <2>2. A = [h EXCEPT !.enums[e] = z]  BY DEF Filled
  <2> HIDE DEF N, p
  <2>3. y = z  BY <1>1
  <2> QED  BY <2>1, <2>2, <2>3
<1>5. b = B
  <2> USE DEF Placed
  <2> DEFINE z == [promise |-> p, remaining |-> left, result |-> f]
             w == [A.enums[e] EXCEPT !.result[i] = v]
  <2>1. b = [a EXCEPT !.enums[e].result[i] = v]  OBVIOUS
  <2>2. b = [A EXCEPT !.enums[e] = w]  BY <1>4, <2>1, Zenon
  <2>3. w = z
    <3> HIDE DEF N, p, left, A
    <3>1. /\ A.enums[e].promise = p /\ A.enums[e].remaining = left /\ A.enums[e].result = N.result
          /\ Sane(A) /\ e \in DOMAIN A.enums
      BY <1>0, <1>1 DEF A, N, p, FilledBy
    <3>2. A.enums[e] = [promise |-> A.enums[e].promise, remaining |-> A.enums[e].remaining,
                        result |-> A.enums[e].result]
      BY <3>1 DEF Sane, SaneEnum
    <3> QED  BY <3>1, <3>2
  <2>4. [A EXCEPT !.enums[e] = z] = [h EXCEPT !.enums[e] = z]
    <3> HIDE DEF N, p, left, z
    <3> QED  BY DEF A, Filled
  <2>5. B = [h EXCEPT !.enums[e] = z]  BY DEF Filled
  <2> HIDE DEF A, B, w, z, b
  <2> QED  BY <2>2, <2>3, <2>4, <2>5
<1>6. IsSeq(f)  BY <1>1, SeqExcept DEF Placed
<1> HIDE DEF a, b
<1>7. CASE h.state[p] # PENDING
  <2>1. \A x : fulfill(h, p, x) = h  BY <1>7 DEF fulfill
  <2> QED  BY <1>3, <1>7, <2>1
<1>8. CASE h.state[p] = PENDING /\ state = REJECTED
  <2>1. Typed(A) /\ A.state[p] = PENDING  BY <1>0, <1>1, <1>8 DEF FilledBy
  <2> HIDE DEF A
  <2>2. Settled(A, reject(A, p, v), p, REJECTED, v)  BY <1>2, <2>1, rejectFields
  <2>3. reject(A, p, v).state[p] # PENDING
    BY <1>2, <2>1, <2>2 DEF Settled, Typed, Shape, REJECTED, PENDING
  <2>4. g = reject(A, p, v)  BY <1>4, <1>8
  <2> HIDE DEF g, p
  <2>5. \A x : fulfill(g, p, x) = g  BY <2>3, <2>4 DEF fulfill
  <2>6. settledAt(h, e, state, i, v) = g  BY <1>3, <2>5
  <2> QED  BY <1>8, <2>4, <2>6 DEF A, p
<1>9. CASE h.state[p] = PENDING /\ state # REJECTED
  <2>1. B.enums[e].remaining = left /\ B.enums[e].result = f
    <3> HIDE DEF left, f
    <3> QED  BY <1>0, <1>6 DEF FilledBy
  <2>2. g = B  BY <1>5, <1>9
  <2> HIDE DEF g
  <2> QED  BY <1>3, <1>9, <2>1, <2>2, Zenon
<1> QED  BY <1>7, <1>8, <1>9

LEMMA settledAtSpares ==
  ASSUME NEW h, Typed(h), Sane(h), NEW e \in DOMAIN h.enums, NEW state, NEW i, NEW v, ArraysApart
  PROVE  Spares(h, settledAt(h, e, state, i, v), {h.enums[e].promise})
<1> DEFINE N == h.enums[e]
           P == N.promise
           f == Placed(N.result, i, v)
           A == Filled(h, e, N.remaining - 1, N.result)
           B == Filled(h, e, N.remaining - 1, f)
<1>1. P \in h.made /\ IsSeq(N.result)  BY DEF Sane, SaneEnum
<1>2. IsSeq(f)  BY <1>1, SeqExcept DEF Placed
<1>3. FilledBy(h, A, e, N.remaining - 1, N.result) /\ FilledBy(h, B, e, N.remaining - 1, f)
  BY <1>1, <1>2, FilledFacts
<1>4. settledAt(h, e, state, i, v) \in {h, reject(A, P, v), fulfill(B, P, f), B}
  BY settledAtIs
<1> HIDE DEF A, B, f
<1>5. Flat(f)  BY <1>2 DEF ArraysApart
<1>6. Spares(h, A, {P}) /\ Typed(A) /\ Sane(A) /\ P \in A.made  BY <1>1, <1>3 DEF FilledBy
<1>7. Spares(h, B, {P}) /\ Typed(B) /\ Sane(B) /\ P \in B.made  BY <1>1, <1>3 DEF FilledBy
<1> HIDE DEF P
<1>8. Spares(h, reject(A, P, v), {P})  BY <1>6, rejectSpares, SparesTrans
<1>9. Spares(h, fulfill(B, P, f), {P})  BY <1>5, <1>7, fulfillSpares, SparesTrans
<1>10. Spares(h, h, {P})  BY SparesSame
<1>11. Spares(h, settledAt(h, e, state, i, v), {P})  BY <1>4, <1>7, <1>8, <1>9, <1>10
<1> QED  BY <1>11 DEF P

LEMMA CollectFacts ==
  ASSUME NEW h, NEW e \in DOMAIN h.enums, NEW i \in {1, 2}
  PROVE  /\ SubscriberOK(h, Collect(e, i)) /\ SaneSub(h, Collect(e, i))
         /\ \A x \in Promises : ~SubHand(Collect(e, i), x)
         /\ \A d, j : Collect(e, i) = Collect(d, j) => d = e /\ j = i
<1>1. NoChild \notin Promises  BY ValuesApart DEF NoChild, Values
<1>2. \A x \in Promises : ~SubHand(Collect(e, i), x)  BY <1>1 DEF SubHand, Collect, Names
<1>3. SubscriberOK(h, Collect(e, i))  BY DEF SubscriberOK, Collect, CallbackOK, Silent
<1>4. \A d, j : Collect(e, i) = Collect(d, j) => d = e /\ j = i
  <2>1. \A d, j : Collect(d, j).ok.enum = d /\ Collect(d, j).ok.i = j  BY DEF Collect
  <2> QED  BY <2>1
<1>5. SaneSub(h, Collect(e, i))  BY <1>2 DEF SaneSub
<1> QED  BY <1>2, <1>3, <1>4, <1>5

LEMMA WatchedSpares ==
  ASSUME NEW h, Typed(h), Sane(h), Room(h, 1), NEW e \in DOMAIN h.enums, NEW i \in {1, 2}, NEW entry
  PROVE  Spares(h, Watched(h, e, entry, i), {h.enums[e].promise})
<1> DEFINE P == h.enums[e].promise
           c == NewPromise(h)
           m == makePromise(h)
           k == handleMaybeThenable(m, c, entry)
           g == willSettleAt(k, c, e, i)
<1>1. Spares(h, m, {P})  BY makeSpares
<1>2. c \in Promises /\ c \notin h.made /\ c \in m.made /\ Typed(m) /\ Sane(m)  BY NewIsSpare
<1> HIDE DEF c, m
<1>3. Spares(m, k, {c})  BY <1>2, resolveSpares
<1> HIDE DEF k
<1>4. \A x \in h.made : x \in {c} => x \in {P}  BY <1>2
<1>5. Spares(h, k, {P})  BY <1>1, <1>3, <1>4, SparesTrans
<1>6. /\ Typed(k) /\ Sane(k) /\ e \in DOMAIN k.enums /\ k.enums[e].promise = P
  BY <1>5, <1>3 DEF Spares, Grows
<1>7. /\ SubscriberOK(k, Collect(e, i)) /\ SaneSub(k, Collect(e, i))
      /\ \A x \in Promises : ~SubHand(Collect(e, i), x)
      /\ \A d, j : Collect(e, i) = Collect(d, j) => d = e /\ j = i
  BY <1>6, CollectFacts
<1>8. k.made \subseteq Promises  BY <1>6 DEF Typed, Made
<1>9. g = subscribe(k, c, NoChild, Collect(e, i).ok, Collect(e, i).err)  BY DEF willSettleAt, Collect
<1>10. Collect(e, i) = [child |-> NoChild, ok |-> Collect(e, i).ok, err |-> Collect(e, i).err]
  BY DEF Collect
<1> HIDE DEF g
<1>11. Spares(k, subscribe(k, c, NoChild, Collect(e, i).ok, Collect(e, i).err), {P})
  <2>1. \A x \in k.made : SubHand(Collect(e, i), x) => x \in {P}  BY <1>7, <1>8
  <2>2. \A d \in DOMAIN k.enums : \A j : Collect(e, i) = Collect(d, j) => k.enums[d].promise \in {P}
    BY <1>6, <1>7
  <2> HIDE DEF P
  <2> QED  BY <1>2, <1>6, <1>7, <1>10, <2>1, <2>2, subscribeSpares
<1>12. Spares(h, g, {P})  BY <1>5, <1>9, <1>11, SparesTrans
<1> QED  BY <1>12 DEF g, k, m, c, Watched, P

LEMMA eachEntryIs ==
  ASSUME NEW h, Typed(h), Sane(h), NEW e \in DOMAIN h.enums, NEW i, NEW entry
  PROVE  LET N == h.enums[e]
             f == Placed(N.result, i, entry)
             g == Filled(h, e, N.remaining - 1, f)
         IN  eachEntry(h, e, entry, i) =
                IF entry \in Promises /\ h.state[entry] # PENDING
                THEN settledAt(h, e, h.state[entry], i, h.result[entry])
                ELSE IF entry \in Promises \cup Thenables THEN Watched(h, e, entry, i) ELSE g
<1> DEFINE N == h.enums[e]
           p == N.promise
           left == N.remaining - 1
           f == Placed(N.result, i, entry)
           A == Filled(h, e, left, N.result)
           a == [h EXCEPT !.enums[e].remaining = left]
           b == [h EXCEPT !.enums[e].remaining = @ - 1, !.enums[e].result[i] = entry]
<1>1. N = [promise |-> p, remaining |-> N.remaining, result |-> N.result] /\ IsSeq(N.result)
  BY DEF Sane, SaneEnum
<1>2. a = A
  <2> DEFINE y == [N EXCEPT !.remaining = left]
             z == [promise |-> p, remaining |-> left, result |-> N.result]
  <2>1. a = [h EXCEPT !.enums[e] = y]  OBVIOUS
  <2>2. A = [h EXCEPT !.enums[e] = z]  BY DEF Filled
  <2> HIDE DEF N, p
  <2>3. y = z  BY <1>1
  <2> QED  BY <2>1, <2>2, <2>3
<1>3. FilledBy(h, A, e, left, N.result)  BY <1>1, FilledFacts
<1>4. b = Filled(h, e, left, f)
  <2> USE DEF Placed
  <2> DEFINE z == [promise |-> p, remaining |-> left, result |-> f]
             w == [A.enums[e] EXCEPT !.result[i] = entry]
  <2>1. b = [a EXCEPT !.enums[e].result[i] = entry]  OBVIOUS
  <2>2. b = [A EXCEPT !.enums[e] = w]  BY <1>2, <2>1, Zenon
  <2>3. w = z
    <3> HIDE DEF N, p, left, A
    <3>1. /\ A.enums[e].promise = p /\ A.enums[e].remaining = left /\ A.enums[e].result = N.result
          /\ Sane(A) /\ e \in DOMAIN A.enums
      BY <1>3, <1>1 DEF FilledBy, N, p
    <3>2. A.enums[e] = [promise |-> A.enums[e].promise, remaining |-> A.enums[e].remaining,
                        result |-> A.enums[e].result]
      BY <3>1 DEF Sane, SaneEnum
    <3> QED  BY <3>1, <3>2
  <2>4. [A EXCEPT !.enums[e] = z] = [h EXCEPT !.enums[e] = z]
    <3> HIDE DEF N, p, left, z
    <3> QED  BY DEF A, Filled
  <2> HIDE DEF A, w, b
  <2> QED  BY <2>2, <2>3, <2>4 DEF Filled
<1> HIDE DEF b
<1>5. eachEntry(h, e, entry, i) =
            IF entry \in Promises /\ h.state[entry] # PENDING
            THEN settledAt(h, e, h.state[entry], i, h.result[entry])
            ELSE IF entry \in Promises \cup Thenables
            THEN Watched(h, e, entry, i)
            ELSE b
  BY DEF eachEntry, Watched, b
<1> QED  BY <1>4, <1>5

LEMMA eachEntrySpares ==
  ASSUME NEW h, Typed(h), Sane(h), Room(h, 1), NEW e \in DOMAIN h.enums, NEW i \in {1, 2},
         NEW entry, ArraysApart
  PROVE  Spares(h, eachEntry(h, e, entry, i), {h.enums[e].promise})
<1> DEFINE N == h.enums[e]
           P == N.promise
           f == Placed(N.result, i, entry)
           g == Filled(h, e, N.remaining - 1, f)
<1>1. Spares(h, settledAt(h, e, h.state[entry], i, h.result[entry]), {P})  BY settledAtSpares
<1>2. Spares(h, Watched(h, e, entry, i), {P})  BY WatchedSpares
<1>3. Spares(h, g, {P})
  <2>1. IsSeq(f)  BY SeqExcept DEF Sane, SaneEnum, Placed
  <2> HIDE DEF f
  <2>2. FilledBy(h, g, e, N.remaining - 1, f)  BY <2>1, FilledFacts
  <2> QED  BY <2>2 DEF FilledBy
<1>4. eachEntry(h, e, entry, i) \in
         {settledAt(h, e, h.state[entry], i, h.result[entry]), Watched(h, e, entry, i), g}
  BY eachEntryIs
<1> HIDE DEF P, g
<1> QED  BY <1>1, <1>2, <1>3, <1>4 DEF P

LEMMA EnumeratorIs ==
  ASSUME NEW h, Typed(h), Sane(h), Room(h, 1), NEW entries, Len(entries) = 2, DOMAIN entries = {1, 2}
  PROVE  /\ Spares(h, Enumerator(h, entries), {})
         /\ Enumerator(h, entries).enums = Append(h.enums, Counter(h, entries))
         /\ Enumerator(h, entries).made = h.made \cup {NewPromise(h)}
         /\ Enumerator(h, entries).deferred = h.deferred
         /\ Enumerator(h, entries).foreign = h.foreign
         /\ Enumerator(h, entries).state = h.state /\ Enumerator(h, entries).result = h.result
         /\ Enumerator(h, entries).subscribers = h.subscribers
         /\ QueueSame(h, Enumerator(h, entries))
<1> DEFINE p == NewPromise(h)
           e == Counter(h, entries)
           m == makePromise(h)
           x == Append(m.enums, e)
           g == [m EXCEPT !.enums = x]
<1>1. p \in Promises /\ p \notin h.made /\ p \in m.made  BY NewIsSpare
<1>2. /\ HeapFields \subseteq DOMAIN m
      /\ m.made = h.made \cup {p} /\ m.deferred = h.deferred
      /\ m.foreign = h.foreign /\ m.enums = h.enums /\ m.state = h.state
      /\ m.result = h.result /\ m.subscribers = h.subscribers /\ QueueSame(h, m)
  BY makeFields
<1>3. entries # <<>>  OBVIOUS
<1>4. Enumerator(h, entries) = g  BY <1>3 DEF Enumerator, Counter
<1>5. Calm(h, g)  BY <1>4, EnumeratorCalm DEF Quietly
<1>6. /\ e.promise = p /\ e = [promise |-> e.promise, remaining |-> e.remaining, result |-> e.result]
      /\ IsSeq(e.result)
  <2> DEFINE r == [i \in DOMAIN entries |-> Undefined]
  <2>1. <<Undefined, Undefined>> \in Seq({Undefined})  OBVIOUS
  <2>2. r = <<Undefined, Undefined>>
    <3>1. DOMAIN <<Undefined, Undefined>> = {1, 2}  OBVIOUS
    <3> QED  BY <3>1
  <2>3. IsSeq(r)  BY <2>1, <2>2 DEF IsSeq
  <2> HIDE DEF r
  <2> QED  BY <2>3 DEF Counter, r
<1> HIDE DEF p, e, m
<1>7. IsSeq(h.enums)  BY DEF Typed, Stands
<1>8. /\ x = Append(h.enums, e) /\ Extends(h.enums, x) /\ DOMAIN x \ DOMAIN h.enums = {Len(h.enums) + 1}
      /\ x[Len(h.enums) + 1] = e
  BY <1>2, <1>7, AppendExtends
<1> HIDE DEF x
<1>9. /\ g.made = h.made \cup {p} /\ g.deferred = h.deferred
      /\ g.foreign = h.foreign /\ g.enums = x /\ g.state = h.state
      /\ g.result = h.result /\ g.subscribers = h.subscribers /\ QueueSame(h, g)
  BY <1>2 DEF HeapFields, QueueSame
<1> HIDE DEF g
<1>10. SaneEnum(g, e)  BY <1>6, <1>9 DEF SaneEnum
<1>11. \A d \in DOMAIN g.enums :
            \/ SaneEnum(g, g.enums[d]) /\ g.enums[d].promise \in {} \cup (Promises \ h.made)
            \/ d \in DOMAIN h.enums /\ g.enums[d] = h.enums[d]
  BY <1>1, <1>6, <1>8, <1>9, <1>10 DEF Extends
<1>12. \A d \in DOMAIN h.enums : d \in DOMAIN g.enums /\ g.enums[d].promise = h.enums[d].promise
  BY <1>8, <1>9 DEF Extends
<1>13. \A f \in DOMAIN g.foreign :
            \E d \in DOMAIN h.foreign : /\ h.foreign[d].promise = g.foreign[f].promise
                                       /\ h.foreign[d].thenable = g.foreign[f].thenable
  BY <1>9
<1>14. h.made \subseteq g.made  BY <1>9
<1>15. Spares(h, g, {})  BY <1>5, <1>9, <1>11, <1>12, <1>13, <1>14, SameSpares
<1> QED  BY <1>4, <1>8, <1>9, <1>15 DEF p, e

-----------------------------------------------------------------------------
(* Whom callbacks spare                                                    *)

LEMMA EffectSpares ==
  ASSUME NEW h, Typed(h), Sane(h), NEW o, NEW D, o.d = NoChild \/ (o.d \in h.made /\ o.d \in D)
  PROVE  Spares(h, Effect(h, o), D)
<1>1. CASE o.d = NoChild  BY <1>1, SparesSame DEF Effect
<1>2. CASE o.d # NoChild
  <2>1. Spares(h, resolve(h, o.d, o.v), {o.d})  BY <1>2, resolveSpares
  <2>2. Spares(h, resolve(h, o.d, o.v), D)  BY <1>2, <2>1, SparesMore
  <2> QED  BY <1>2, <2>2 DEF Effect
<1> QED  BY <1>1, <1>2

LEMMA finallySpares ==
  ASSUME NEW h, Typed(h), Sane(h), Room(h, 2), NEW o, NEW repeat, CallbackOK(h, repeat),
         repeat.k \in {"return", "throw"}, NEW D
  PROVE  Spares(h, finally(h, o, repeat).heap, D)
<1> DEFINE g == resolveStatic(h, o.value)
           q == resolved(h, o.value)
           k == then(g, q, repeat, NoCallback)
<1>1. Room(h, 1)  BY RoomLess
<1>2. Quietly(h, g, IF o.value \in Promises THEN 0 ELSE 1) /\ q \in Promises
  BY <1>1, StaticCalm
<1>3. Quietly(h, g, 1)  BY <1>2, QuietMore
<1>4. Spares(h, g, D)  BY <1>1, StaticSpares
<1> HIDE DEF g, q
<1>5. Typed(g) /\ Sane(g)  BY <1>4 DEF Spares, Grows
<1>6. Room(g, 1)
  <2>1. Room(h, 1 + 1)  OBVIOUS
  <2> QED  BY <2>1, <1>3, <1>5, RoomLeft DEF Quietly
<1>7. CallbackOK(g, repeat)  BY <1>3, StillOK DEF Quietly, Calm
<1>8. CallbackOK(g, NoCallback) /\ ~Mine(NoCallback)  BY DEF CallbackOK, NoCallback, Mine
<1>9. ~Mine(repeat)  BY DEF Mine
<1>10. Typed(k)  BY <1>2, <1>5, <1>6, <1>7, <1>8, <1>9, thenCalm DEF Quietly, Calm
<1>11. /\ ~Collects(repeat) /\ ~Collects(NoCallback)
       /\ \A x : ~Names(repeat, x) /\ ~Names(NoCallback, x)
  BY DEF Collects, NoCallback, Names
<1>12. Spares(g, k, D)  BY <1>2, <1>5, <1>6, <1>7, <1>8, <1>10, <1>11, thenSpares
<1>13. Spares(h, k, D)  BY <1>4, <1>12, SparesTrans
<1> QED  BY <1>13 DEF finally, g, q

LEMMA tryCatchSpares ==
  ASSUME NEW h, Typed(h), Sane(h), NEW cb, CallbackOK(h, cb), cb # NoCallback, NEW detail,
         NEW o, cb.k = "finally" => Room(h, 2), NEW D, Within(h, cb, o, D), ArraysApart
  PROVE  Spares(h, tryCatch(h, cb, detail, o).heap, D)
<1> DEFINE g == tryCatch(h, cb, detail, o).heap
<1>1. CASE cb.k = "user"
  <2>1. Spares(h, Effect(h, o), D)  BY <1>1, EffectSpares DEF Mine, Within
  <2>2. g = Effect(h, o)  BY <1>1, Zenon DEF tryCatch
  <2> QED  BY <2>1, <2>2
<1>2. CASE cb.k \in {"return", "throw"}
  <2>1. g = h  BY <1>2, Zenon DEF tryCatch
  <2> QED  BY <2>1, SparesSame
<1>3. CASE cb.k = "resolve"
  <2>1. g = resolve(h, cb.promise, detail)  BY <1>3, Zenon DEF tryCatch
  <2>2. cb.promise \in h.made /\ cb.promise \in D  BY <1>3 DEF CallbackOK, Within, Names
  <2>3. Spares(h, resolve(h, cb.promise, detail), {cb.promise})  BY <2>2, resolveSpares
  <2>4. Spares(h, resolve(h, cb.promise, detail), D)  BY <2>2, <2>3, SparesMore
  <2> QED  BY <2>1, <2>4
<1>4. CASE cb.k = "reject"
  <2>1. g = reject(h, cb.promise, detail)  BY <1>4, Zenon DEF tryCatch
  <2>2. cb.promise \in h.made /\ cb.promise \in D  BY <1>4 DEF CallbackOK, Within, Names
  <2>3. Spares(h, reject(h, cb.promise, detail), {cb.promise})  BY <2>2, rejectSpares
  <2>4. Spares(h, reject(h, cb.promise, detail), D)  BY <2>2, <2>3, SparesMore
  <2> QED  BY <2>1, <2>4
<1>5. CASE cb.k = "settledAt"
  <2>1. g = settledAt(h, cb.enum, cb.state, cb.i, detail)  BY <1>5, Zenon DEF tryCatch
  <2>2. cb.enum \in DOMAIN h.enums /\ h.enums[cb.enum].promise \in D
    BY <1>5 DEF CallbackOK, Within, Collects
  <2>3. Spares(h, settledAt(h, cb.enum, cb.state, cb.i, detail), {h.enums[cb.enum].promise})
    BY <2>2, settledAtSpares
  <2>4. Spares(h, settledAt(h, cb.enum, cb.state, cb.i, detail), D)  BY <2>2, <2>3, SparesMore
  <2> QED  BY <2>1, <2>4
<1>6. CASE cb.k = "finally"
  <2> DEFINE x == Effect(h, o)
             repeat == [k |-> cb.then, v |-> detail]
  <2>1. Spares(h, x, D)  BY <1>6, EffectSpares DEF Mine, Within
  <2>2. Quietly(h, x, 0)
    <3>1. Settles(o)  BY <1>6 DEF Mine, Within, Settles, Typed, Made
    <3> QED  BY <3>1, EffectCalm
  <2>3. g = IF o.throws THEN x ELSE finally(x, o, repeat).heap
    BY <1>6, Zenon DEF tryCatch
  <2>4. CallbackOK(x, repeat) /\ repeat.k \in {"return", "throw"}
    <3>1. repeat.k \in {"return", "throw"}  BY <1>6 DEF CallbackOK
    <3> HIDE DEF repeat
    <3> QED  BY <3>1 DEF CallbackOK
  <2> HIDE DEF x, repeat, g
  <2>5. Typed(x) /\ Sane(x)  BY <2>1 DEF Spares, Grows
  <2>6. Room(x, 2)
    <3>1. Room(h, 0 + 2)  BY <1>6
    <3> QED  BY <3>1, <2>2, <2>5, RoomLeft DEF Quietly
  <2>7. Spares(x, finally(x, o, repeat).heap, D)  BY <2>4, <2>5, <2>6, finallySpares
  <2>8. Spares(h, finally(x, o, repeat).heap, D)  BY <2>1, <2>7, SparesTrans
  <2> QED  BY <2>1, <2>3, <2>8 DEF g
<1> QED  BY <1>1, <1>2, <1>3, <1>4, <1>5, <1>6 DEF CallbackOK

LEMMA invokeCallbackSpares ==
  ASSUME NEW h, Typed(h), Sane(h), NEW settled, NEW child \in h.made, NEW cb, CallbackOK(h, cb),
         NEW detail, NEW o, cb.k = "finally" => Room(h, 2), NEW D, Within(h, cb, o, D),
         child \in D, cb = NoCallback /\ settled = FULFILLED => Flat(detail), ArraysApart
  PROVE  Spares(h, invokeCallback(h, settled, child, cb, detail, o), D)
<1> DEFINE g == invokeCallback(h, settled, child, cb, detail, o)
           r == tryCatch(h, cb, detail, o)
<1>1. CASE cb = NoCallback
  <2>1. g = IF settled = FULFILLED THEN fulfill(h, child, detail) ELSE reject(h, child, detail)
    BY <1>1 DEF invokeCallback
  <2>2. settled = FULFILLED => Spares(h, fulfill(h, child, detail), {child})
    BY <1>1, fulfillSpares
  <2>3. Spares(h, reject(h, child, detail), {child})  BY rejectSpares
  <2>4. Spares(h, g, {child})  BY <2>1, <2>2, <2>3
  <2> QED  BY <2>4, SparesMore
<1>2. CASE cb # NoCallback
  <2>1. Spares(h, r.heap, D)  BY <1>2, tryCatchSpares
  <2>2. g \in {reject(r.heap, child, CannotReturnOwn), r.heap,
               reject(r.heap, child, r.value), resolve(r.heap, child, r.value)}
    BY <1>2 DEF invokeCallback
  <2> HIDE DEF r, g
  <2>3. Typed(r.heap) /\ Sane(r.heap) /\ child \in r.heap.made  BY <2>1 DEF Spares, Grows
  <2>4. \A v : Spares(r.heap, reject(r.heap, child, v), {child}) /\ Spares(r.heap, resolve(r.heap, child, v), {child})
    BY <2>3, rejectSpares, resolveSpares
  <2>5. \A v : Spares(h, reject(r.heap, child, v), D) /\ Spares(h, resolve(r.heap, child, v), D)
    <3> TAKE v
    <3>1. \A x \in h.made : x \in {child} => x \in D  OBVIOUS
    <3>2. Spares(r.heap, reject(r.heap, child, v), {child}) /\ Spares(r.heap, resolve(r.heap, child, v), {child})
      BY <2>4
    <3> QED  BY <2>1, <3>1, <3>2, SparesTrans
  <2> QED  BY <2>1, <2>2, <2>5 DEF g
<1> QED  BY <1>1, <1>2

LEMMA SealedSpares ==
  ASSUME NEW h, Typed(h), Sane(h), NEW f \in DOMAIN h.foreign, NEW D
  PROVE  /\ Spares(h, Sealed(h, f), D) /\ Sealed(h, f).made = h.made
         /\ f \in DOMAIN Sealed(h, f).foreign
<1> DEFINE x == [h.foreign EXCEPT ![f].sealed = TRUE]
           g == Sealed(h, f)
<1>1. IsSeq(x) /\ DOMAIN x = DOMAIN h.foreign  BY SeqExcept DEF Typed, Stands
<1>2. \A d \in DOMAIN h.foreign : /\ x[d].promise = h.foreign[d].promise
                                  /\ x[d].thenable = h.foreign[d].thenable
                                  /\ "promise" \in DOMAIN x[d]
  BY DEF Typed, Stands
<1>3. g = [h EXCEPT !.foreign = x]  BY DEF Sealed
<1> HIDE DEF x
<1>4. Stands(x)  BY <1>1, <1>2 DEF Typed, Stands
<1>5. Calm(h, g) /\ g.foreign = x  BY <1>3, <1>4, ForeignCalm DEF Quietly
<1>6. /\ g.state = h.state /\ g.result = h.result
      /\ g.subscribers = h.subscribers /\ QueueSame(h, g) /\ g.made = h.made
      /\ g.deferred = h.deferred /\ g.enums = h.enums
  BY <1>3 DEF Typed, HeapFields, QueueSame
<1> HIDE DEF g
<1>7. \A d \in DOMAIN g.foreign :
         \E c \in DOMAIN h.foreign : /\ h.foreign[c].promise = g.foreign[d].promise
                                    /\ h.foreign[c].thenable = g.foreign[d].thenable
  BY <1>1, <1>2, <1>5
<1>8. h.made \subseteq g.made  BY <1>6
<1>9. Spares(h, g, D)  BY <1>5, <1>6, <1>7, <1>8, SameSpares
<1> QED  BY <1>1, <1>5, <1>6, <1>9 DEF g

LEMMA foreignCallSpares ==
  ASSUME NEW h, Typed(h), Sane(h), NEW f \in DOMAIN h.foreign, NEW c
  PROVE  Spares(h, foreignCall(h, f, c), {h.foreign[f].promise})
<1> DEFINE g == Sealed(h, f)
           P == h.foreign[f].promise
<1>1. Spares(h, g, {P})  BY SealedSpares
<1>2. P \in h.made /\ Flat(h.foreign[f].thenable)  BY DEF Sane, SaneForeign
<1>3. foreignCall(h, f, c) \in {h, reject(g, P, c.v), resolve(g, P, c.v)}
      \/ (foreignCall(h, f, c) = fulfill(g, P, c.v) /\ Flat(c.v))
  BY <1>2 DEF foreignCall, Sealed
<1> HIDE DEF g, P
<1>4. Typed(g) /\ Sane(g) /\ P \in g.made  BY <1>1, <1>2 DEF Spares, Grows
<1>5. Spares(h, reject(g, P, c.v), {P})  BY <1>1, <1>4, rejectSpares, SparesTrans
<1>6. Spares(h, resolve(g, P, c.v), {P})
  <2>1. Spares(g, resolve(g, P, c.v), {P})  BY <1>4, resolveSpares
  <2> QED  BY <1>1, <2>1, SparesTrans
<1>7. Flat(c.v) => Spares(h, fulfill(g, P, c.v), {P})
  <2>1. Flat(c.v) => Spares(g, fulfill(g, P, c.v), {P})  BY <1>4, fulfillSpares
  <2> QED  BY <1>1, <2>1, SparesTrans
<1>8. Spares(h, h, {P})  BY SparesSame
<1>9. Spares(h, foreignCall(h, f, c), {P})  BY <1>3, <1>5, <1>6, <1>7, <1>8
<1> QED  BY <1>9 DEF P

LEMMA AskedSpares ==
  ASSUME NEW h, Typed(h), Sane(h), NEW p \in h.made, NEW v, Flat(v)
  PROVE  /\ Spares(h, Asked(h, p, v), {p})
         /\ Len(h.foreign) + 1 \in DOMAIN Asked(h, p, v).foreign
         /\ Asked(h, p, v).foreign[Len(h.foreign) + 1].promise = p
<1> DEFINE y == [promise |-> p, thenable |-> v, sealed |-> FALSE]
           x == Append(h.foreign, y)
           g == Asked(h, p, v)
<1>1. p \in Promises  BY DEF Typed, Made
<1>2. y.promise = p /\ y.thenable = v /\ "promise" \in DOMAIN y  OBVIOUS
<1>3. g = [h EXCEPT !.foreign = x]  BY DEF Asked
<1> HIDE DEF y
<1>4. IsSeq(h.foreign)  BY DEF Typed, Stands
<1>5. /\ IsSeq(x) /\ Extends(h.foreign, x) /\ DOMAIN x \ DOMAIN h.foreign = {Len(h.foreign) + 1}
      /\ x[Len(h.foreign) + 1] = y /\ Len(h.foreign) + 1 \in DOMAIN x
  BY <1>4, AppendExtends, SeqAppend
<1> HIDE DEF x
<1>6. \A d \in DOMAIN x : (d \in DOMAIN h.foreign /\ x[d] = h.foreign[d]) \/ d = Len(h.foreign) + 1
  BY <1>5 DEF Extends
<1>7. Stands(x)
  <2> SUFFICES ASSUME NEW d \in DOMAIN x PROVE "promise" \in DOMAIN x[d] /\ x[d].promise \in Promises
    BY <1>5 DEF Stands
  <2> QED  BY <1>1, <1>2, <1>5, <1>6 DEF Typed, Stands
<1>8. Calm(h, g) /\ g.foreign = x  BY <1>3, <1>7, ForeignCalm DEF Quietly
<1>9. /\ g.state = h.state /\ g.result = h.result
      /\ g.subscribers = h.subscribers /\ QueueSame(h, g) /\ g.made = h.made
      /\ g.deferred = h.deferred /\ g.enums = h.enums
  BY <1>3 DEF Typed, HeapFields, QueueSame
<1> HIDE DEF g
<1>10. SaneForeign(g, y)  BY <1>2, <1>9 DEF SaneForeign
<1>11. \A d \in DOMAIN g.foreign :
         \/ SaneForeign(g, g.foreign[d]) /\ g.foreign[d].promise \in {p} \cup (Promises \ h.made)
         \/ \E c \in DOMAIN h.foreign : /\ h.foreign[c].promise = g.foreign[d].promise
                                    /\ h.foreign[c].thenable = g.foreign[d].thenable
  BY <1>2, <1>5, <1>6, <1>8, <1>10
<1>12. h.made \subseteq g.made  BY <1>9
<1>13. Spares(h, g, {p})  BY <1>8, <1>9, <1>11, <1>12, SameSpares
<1> QED  BY <1>2, <1>5, <1>8, <1>13 DEF g

-----------------------------------------------------------------------------
(* The hands that wait.  h is the heap, a the index of the job that is     *)
(* running, t the turn of publish, l the loop; g, b, u and m are the same  *)
(* after a step.                                                           *)

LEMMA FrameTrans ==
  ASSUME NEW h, NEW a, NEW t, NEW l, NEW g, NEW b, NEW u, NEW m, NEW j, NEW c, NEW v, NEW n, NEW x,
         Frame(h, a, t, l, g, b, u, m, x), Frame(g, b, u, m, j, c, v, n, x)
  PROVE  Frame(h, a, t, l, j, c, v, n, x)
<1>1. /\ j.state[x] = h.state[x] /\ j.result[x] = h.result[x]
      /\ Elsewhere(j, n, x) => Elsewhere(h, l, x)
  BY DEF Frame
<1>2. \A e \in DOMAIN j.enums : j.enums[e].promise = x =>
         e \in DOMAIN g.enums /\ g.enums[e].promise = x /\ e \in DOMAIN h.enums /\ j.enums[e] = h.enums[e]
  BY DEF Frame
<1>3. ASSUME NEW p \in Promises, NEW k, Unserved(j, c, v, p, k)
      PROVE  \/ Unserved(h, a, t, p, k) /\ h.subscribers[p][k] = j.subscribers[p][k]
             \/ /\ ~SubHand(j.subscribers[p][k], x)
                /\ \A e \in DOMAIN j.enums : \A i : j.enums[e].promise = x => j.subscribers[p][k] # Collect(e, i)
  <2>1. CASE Unserved(g, b, u, p, k) /\ g.subscribers[p][k] = j.subscribers[p][k]
    <3>1. \/ Unserved(h, a, t, p, k) /\ h.subscribers[p][k] = j.subscribers[p][k]
          \/ /\ ~SubHand(j.subscribers[p][k], x)
             /\ \A e \in DOMAIN g.enums : \A i : g.enums[e].promise = x => j.subscribers[p][k] # Collect(e, i)
      BY <2>1 DEF Frame
    <3> QED  BY <3>1, <1>2
  <2>2. CASE ~(Unserved(g, b, u, p, k) /\ g.subscribers[p][k] = j.subscribers[p][k])
    BY <1>3, <2>2 DEF Frame
  <2> QED  BY <2>1, <2>2
<1>4. ASSUME NEW q, Unrun(j, c, q)
      PROVE  (Unrun(h, a, q) /\ h.queue[q] = j.queue[q]) \/ ~JobHand(j.queue[q], x)
  BY <1>4 DEF Frame
<1> QED  BY <1>1, <1>2, <1>3, <1>4 DEF Frame

LEMMA MovesTrans ==
  ASSUME NEW h, NEW a, NEW t, NEW l, NEW g, NEW b, NEW u, NEW m, NEW j, NEW c, NEW v, NEW n,
         NEW D, NEW U, Moves(h, a, t, l, g, b, u, m, D, U), Moves(g, b, u, m, j, c, v, n, D, {})
  PROVE  Moves(h, a, t, l, j, c, v, n, D, U)
<1>1. Kept(h, j)  BY KeptTrans DEF Moves
<1>2. \A x \in h.made : x \in D \/ Frame(h, a, t, l, j, c, v, n, x)
  BY FrameTrans DEF Moves
<1>3. Keeps(h, a, t, j, c, v, U)
  <2> SUFFICES ASSUME NEW p \in Promises, NEW k, Unserved(h, a, t, p, k), <<p, k>> \notin U
               PROVE  Unserved(j, c, v, p, k) /\ j.subscribers[p][k] = h.subscribers[p][k]
    BY DEF Keeps
  <2>1. Unserved(g, b, u, p, k) /\ g.subscribers[p][k] = h.subscribers[p][k]  BY DEF Moves, Keeps
  <2> QED  BY <2>1 DEF Moves, Keeps
<1> QED  BY <1>1, <1>2, <1>3 DEF Moves

LEMMA MovesMore ==
  ASSUME NEW h, NEW a, NEW t, NEW l, NEW g, NEW b, NEW u, NEW m, NEW D, NEW U, NEW E,
         Moves(h, a, t, l, g, b, u, m, D, U), \A x \in h.made : x \in D => x \in E
  PROVE  Moves(h, a, t, l, g, b, u, m, E, U)
BY DEF Moves

\* One call of the library.
LEMMA CallMoves ==
  ASSUME NEW h, Typed(h), NEW a, NEW t, Flow(h, a, t), NEW l, NEW g, NEW D, Spares(h, g, D)
  PROVE  Moves(h, a, t, l, g, a, t, l, D, {})
<1>1. /\ Typed(g) /\ Sane(g) /\ Kept(h, g) /\ h.made \subseteq g.made
      /\ \A e \in DOMAIN h.enums : e \in DOMAIN g.enums /\ g.enums[e].promise = h.enums[e].promise
      /\ \A p \in Promises : Extends(h.subscribers[p], g.subscribers[p])
      /\ Extends(h.queue, g.queue)
  BY DEF Spares, Grows
<1>2. ASSUME NEW p \in Promises, NEW k \in DOMAIN h.subscribers[p]
      PROVE  Unserved(h, a, t, p, k) <=> Unserved(g, a, t, p, k)
  <2>1. k \in Nat \ {0}  BY SubIndex
  <2>2. k < t => t > 1  BY <2>1 DEF Flow
  <2>3. t > 1 => g.queue[a] = h.queue[a]  BY <1>1 DEF Flow, Extends
  <2> QED  BY <1>1, <2>2, <2>3 DEF Unserved, Served, Extends
<1>3. Keeps(h, a, t, g, a, t, {})
  <2>1. \A p \in Promises : \A k : Unserved(h, a, t, p, k) => k \in DOMAIN h.subscribers[p]
    BY DEF Unserved
  <2> QED  BY <1>1, <1>2, <2>1 DEF Keeps, Extends
<1>4. ASSUME NEW x \in h.made, Spared(h, g, x) PROVE Frame(h, a, t, l, g, a, t, l, x)
  <2>1. Elsewhere(g, l, x) => Elsewhere(h, l, x)  BY <1>4 DEF Elsewhere, Spared
  <2>2. ASSUME NEW p \in Promises, NEW k, Unserved(g, a, t, p, k)
        PROVE  \/ Unserved(h, a, t, p, k) /\ h.subscribers[p][k] = g.subscribers[p][k]
               \/ /\ ~SubHand(g.subscribers[p][k], x)
                  /\ \A e \in DOMAIN g.enums : \A i : g.enums[e].promise = x => g.subscribers[p][k] # Collect(e, i)
    <3>1. k \in DOMAIN g.subscribers[p]  BY <2>2 DEF Unserved
    <3>2. CASE k \in DOMAIN h.subscribers[p]  BY <1>1, <1>2, <2>2, <3>2 DEF Extends
    <3>3. CASE k \notin DOMAIN h.subscribers[p]  BY <1>4, <3>1, <3>3 DEF Spared
    <3> QED  BY <3>2, <3>3
  <2>3. ASSUME NEW q, Unrun(g, a, q)
        PROVE  (Unrun(h, a, q) /\ h.queue[q] = g.queue[q]) \/ ~JobHand(g.queue[q], x)
    BY <1>1, <1>4, <2>3 DEF Unrun, Extends, Spared
  <2> QED  BY <1>4, <2>1, <2>2, <2>3 DEF Frame, Spared
<1>5. \A x \in h.made : x \in D \/ Frame(h, a, t, l, g, a, t, l, x)  BY <1>4 DEF Spares
<1> QED  BY <1>1, <1>3, <1>5 DEF Moves

LEMMA LaterMoves ==
  ASSUME NEW h, Typed(h), Sane(h), NEW a, NEW t, NEW l, NEW g, Typed(g), NEW b, NEW u, NEW m,
         Later(h, a, t, l, g, b, u, m), NEW U, Keeps(h, a, t, g, b, u, U)
  PROVE  Moves(h, a, t, l, g, b, u, m, {}, U)
<1>1. Kept(h, g)  BY DEF Later, Typed, Kept, Shape
<1>2. /\ \A y : SaneSub(h, y) => SaneSub(g, y)
      /\ \A y : SaneJob(h, y) => SaneJob(g, y)
      /\ \A y : SaneEnum(h, y) => SaneEnum(g, y)
      /\ \A y : SaneForeign(h, y) => SaneForeign(g, y)
  <2>1. h.made \subseteq g.made /\ DOMAIN h.enums \subseteq DOMAIN g.enums  BY DEF Later
  <2> QED  BY <2>1, SaneStays
<1>3. Sane(g)  BY <1>2 DEF Later, Sane
<1>4. ASSUME NEW x \in h.made PROVE Frame(h, a, t, l, g, b, u, m, x)
  <2>1. Elsewhere(g, m, x) => Elsewhere(h, l, x)  BY DEF Later, Elsewhere
  <2>2. \A p \in Promises : \A k : Unserved(g, b, u, p, k) =>
           Unserved(h, a, t, p, k) /\ h.subscribers[p][k] = g.subscribers[p][k]
    BY DEF Later, Unserved
  <2>3. \A q : Unrun(g, b, q) => Unrun(h, a, q) /\ h.queue[q] = g.queue[q]
    BY DEF Later, Unrun
  <2>4. g.state = h.state /\ g.result = h.result /\ g.enums = h.enums  BY DEF Later
  <2> QED  BY <2>1, <2>2, <2>3, <2>4 DEF Frame
<1>5. h.made \subseteq g.made /\ g.enums = h.enums  BY DEF Later
<1> QED  BY <1>1, <1>3, <1>4, <1>5 DEF Moves

LEMMA FirstTurnServed ==
  ASSUME NEW h, Typed(h), NEW a, NEW p \in Promises, NEW k
  PROVE  Unserved(h, a, 1, p, k) <=> k \in DOMAIN h.subscribers[p]
<1>1. k \in DOMAIN h.subscribers[p] => k \in Nat \ {0}  BY SubIndex
<1> QED  BY <1>1 DEF Unserved, Served

\* The next job, or a turn of a loop, when no list is half served.
LEMMA PassMoves ==
  ASSUME NEW h, Typed(h), Sane(h), NEW a \in Nat, NEW b \in Nat, a <= b, NEW l, NEW m,
         m.k = "race" => (l.k = "race" /\ m.e = l.e) \/ m.e \notin h.made
  PROVE  Moves(h, a, 1, l, h, b, 1, m, {}, {})
<1>1. \A p \in Promises : \A k : Unserved(h, a, 1, p, k) <=> Unserved(h, b, 1, p, k)
  BY FirstTurnServed
<1>2. \A q : Unrun(h, b, q) => Unrun(h, a, q)
  <2> SUFFICES ASSUME NEW q, Unrun(h, b, q) PROVE a <= q
    BY DEF Unrun
  <2>1. q \in Nat  BY JobIndex DEF Unrun
  <2> QED  BY <2>1 DEF Unrun
<1>3. Later(h, a, 1, l, h, b, 1, m)  BY <1>1, <1>2 DEF Later
<1>4. Keeps(h, a, 1, h, b, 1, {})  BY <1>1 DEF Keeps
<1> QED  BY <1>3, <1>4, LaterMoves

LEMMA ServeMoves ==
  ASSUME NEW h, Typed(h), Sane(h), NEW a, NEW t \in Nat \ {0}, NEW l,
         NEW p \in Promises, h.queue[a] = Publish(p), t \in DOMAIN h.subscribers[p]
  PROVE  Moves(h, a, t, l, h, a, t + 1, l, {}, {<<p, t>>})
<1>1. \A q \in Promises : Publish(q) = Publish(p) => q = p  BY DEF Publish
<1>2. ASSUME NEW q \in Promises, NEW k
      PROVE  /\ Unserved(h, a, t + 1, q, k) => Unserved(h, a, t, q, k)
             /\ Unserved(h, a, t, q, k) => <<q, k>> \in {<<p, t>>} \/ Unserved(h, a, t + 1, q, k)
  <2>1. k \in DOMAIN h.subscribers[q] => k \in Nat \ {0}  BY SubIndex
  <2>2. k \in Nat /\ k # t => (k < t <=> k < t + 1)  OBVIOUS
  <2>3. k \in Nat /\ k < t => k < t + 1  OBVIOUS
  <2> QED  BY <1>1, <2>1, <2>2, <2>3 DEF Unserved, Served
<1>3. Later(h, a, t, l, h, a, t + 1, l)  BY <1>2 DEF Later
<1>4. Keeps(h, a, t, h, a, t + 1, {<<p, t>>})  BY <1>2 DEF Keeps
<1> QED  BY <1>3, <1>4, LaterMoves

LEMMA EndMoves ==
  ASSUME NEW h, Typed(h), Sane(h), NEW a \in Nat, NEW t, NEW l,
         NEW p \in Promises, h.queue[a] = Publish(p), \A k \in DOMAIN h.subscribers[p] : k < t,
         NEW g, g = [h EXCEPT !.subscribers[p] = <<>>], Typed(g)
  PROVE  Moves(h, a, t, l, g, a + 1, 1, l, {}, {})
<1> DEFINE S == [h.subscribers EXCEPT ![p] = <<>>]
<1>1. /\ g.state = h.state /\ g.result = h.result /\ g.made = h.made /\ g.deferred = h.deferred
      /\ g.foreign = h.foreign /\ g.enums = h.enums /\ g.queue = h.queue /\ g.subscribers = S
  BY DEF Typed, HeapFields
<1>2. S[p] = <<>> /\ \A q \in Promises : q # p => S[q] = h.subscribers[q]
  BY DEF Typed, Subscribers
<1> HIDE DEF S
<1>3. DOMAIN g.subscribers[p] = {} /\ \A q \in Promises : q # p => g.subscribers[q] = h.subscribers[q]
  <2>1. DOMAIN (<<>>) = {}  OBVIOUS
  <2> QED  BY <1>1, <1>2, <2>1
<1>4. \A q \in Promises : Publish(q) = Publish(p) => q = p  BY DEF Publish
<1>5. \A k : ~Unserved(h, a, t, p, k)  BY DEF Unserved, Served
<1>6. ASSUME NEW q \in Promises, NEW k PROVE Unserved(g, a + 1, 1, q, k) <=> Unserved(h, a, t, q, k)
  <2>1. CASE q = p  BY <1>3, <1>5, <2>1 DEF Unserved
  <2>2. CASE q # p
    <3>1. Unserved(h, a, t, q, k) <=> k \in DOMAIN h.subscribers[q]  BY <1>4, <2>2 DEF Unserved, Served
    <3> QED  BY <1>3, <2>2, <3>1, FirstTurnServed
  <2> QED  BY <2>1, <2>2
<1>7. \A q : Unrun(g, a + 1, q) => Unrun(h, a, q)
  <2> SUFFICES ASSUME NEW q, Unrun(g, a + 1, q) PROVE a <= q
    BY <1>1 DEF Unrun
  <2>1. q \in Nat  BY JobIndex DEF Unrun
  <2> QED  BY <2>1 DEF Unrun
<1>8. \A q \in Promises : \A k \in DOMAIN g.subscribers[q] :
         k \in DOMAIN h.subscribers[q] /\ g.subscribers[q][k] = h.subscribers[q][k]
  BY <1>3
<1>9. Later(h, a, t, l, g, a + 1, 1, l)  BY <1>1, <1>6, <1>7, <1>8 DEF Later
<1>10. Keeps(h, a, t, g, a + 1, 1, {})
  <2>1. \A q \in Promises : \A k : Unserved(g, a + 1, 1, q, k) => k \in DOMAIN g.subscribers[q]
    BY DEF Unserved
  <2> QED  BY <1>6, <1>8, <2>1 DEF Keeps
<1> QED  BY <1>9, <1>10, LaterMoves

\* The queue is run, or has been.
LEMMA QueueMoves ==
  ASSUME NEW h, Typed(h), Sane(h), NEW a \in Nat, NEW b \in Nat, NEW l, NEW g, Typed(g),
         \/ g = [h EXCEPT !.scheduled = FALSE] /\ a <= b
         \/ g = [h EXCEPT !.queue = <<>>]
  PROVE  Moves(h, a, 1, l, g, b, 1, l, {}, {})
<1>1. /\ g.state = h.state /\ g.result = h.result /\ g.made = h.made /\ g.deferred = h.deferred
      /\ g.foreign = h.foreign /\ g.enums = h.enums /\ g.subscribers = h.subscribers
  BY DEF Typed, HeapFields
<1>2. (g.queue = h.queue /\ a <= b) \/ DOMAIN g.queue = {}
  BY DEF Typed, HeapFields
<1>3. \A p \in Promises : \A k : Unserved(h, a, 1, p, k) <=> Unserved(g, b, 1, p, k)
  BY <1>1, FirstTurnServed
<1>4. \A q : Unrun(g, b, q) => Unrun(h, a, q)
  <2> SUFFICES ASSUME NEW q, Unrun(g, b, q) PROVE Unrun(h, a, q)
    OBVIOUS
  <2>1. q \in Nat  BY JobIndex DEF Unrun
  <2> QED  BY <1>2, <2>1 DEF Unrun
<1>5. \A q \in DOMAIN g.queue : q \in DOMAIN h.queue /\ g.queue[q] = h.queue[q]  BY <1>2
<1>6. Later(h, a, 1, l, g, b, 1, l)  BY <1>1, <1>3, <1>4, <1>5 DEF Later
<1>7. Keeps(h, a, 1, g, b, 1, {})  BY <1>1, <1>3 DEF Keeps
<1> QED  BY <1>6, <1>7, LaterMoves

-----------------------------------------------------------------------------
(* finally: its promise waits for the callback, then for the repetition of *)
(* the parent's outcome, and nobody else settles either.                   *)

LEMMA AloneStays ==
  ASSUME NEW h, NEW a, NEW t, NEW l, NEW g, NEW b, NEW u, NEW m, NEW D, NEW U,
         Moves(h, a, t, l, g, b, u, m, D, U), NEW x, Alone(h, l, x), x \notin D
  PROVE  Alone(g, m, x) /\ Frame(h, a, t, l, g, b, u, m, x)
<1>1. Frame(h, a, t, l, g, b, u, m, x) /\ x \in g.made  BY DEF Moves, Alone
<1> QED  BY <1>1 DEF Alone, Frame

LEMMA OnlyLinkStays ==
  ASSUME NEW h, NEW a, NEW t, NEW l, NEW g, NEW b, NEW u, NEW m, NEW D, NEW U,
         Moves(h, a, t, l, g, b, u, m, D, U), NEW x, NEW p, OnlyLink(h, a, t, l, x, p), x \notin D
  PROVE  OnlyLink(g, b, u, m, x, p)
<1>1. Alone(g, m, x) /\ Frame(h, a, t, l, g, b, u, m, x)  BY AloneStays DEF OnlyLink
<1> QED  BY <1>1 DEF OnlyLink, Frame

LEMMA OwnHandStays ==
  ASSUME NEW h, NEW a, NEW t, NEW l, NEW g, NEW b, NEW u, NEW m, NEW D, NEW U,
         Moves(h, a, t, l, g, b, u, m, D, U), NEW r, r.parent \in Promises,
         OwnHand(h, a, t, l, r), r.child \notin D
  PROVE  OwnHand(g, b, u, m, r)
<1>1. Alone(g, m, r.child) /\ Frame(h, a, t, l, g, b, u, m, r.child)  BY AloneStays DEF OwnHand
<1>2. g.state[r.child] = PENDING  BY <1>1 DEF OwnHand, Frame
<1>3. ASSUME NEW q, Unrun(g, b, q), JobHand(g.queue[q], r.child) PROVE OfJob(g, b, q, r)
  <2>1. Unrun(h, a, q) /\ h.queue[q] = g.queue[q]  BY <1>1, <1>3 DEF Frame
  <2>2. OfJob(h, a, q, r)  BY <1>3, <2>1 DEF OwnHand
  <2>3. g.state[r.parent] = h.state[r.parent] /\ g.result[r.parent] = h.result[r.parent]
    BY <2>2 DEF OfJob, Moves, Kept
  <2> QED  BY <1>3, <2>1, <2>2, <2>3 DEF OfJob, Awaits, Unrun, CalledFor
<1>4. ASSUME NEW y \in Promises, NEW k, Unserved(g, b, u, y, k), SubHand(g.subscribers[y][k], r.child)
      PROVE  OfSub(g, y, k, r)
  <2>1. Unserved(h, a, t, y, k) /\ h.subscribers[y][k] = g.subscribers[y][k]
    BY <1>1, <1>4 DEF Frame
  <2>2. OfSub(h, y, k, r)  BY <1>4, <2>1 DEF OwnHand
  <2> QED  BY <1>4, <2>1, <2>2 DEF OfSub, Unserved
<1> QED  BY <1>1, <1>2, <1>3, <1>4 DEF OwnHand

LEMMA RepeatsStays ==
  ASSUME NEW h, NEW g, Kept(h, g), NEW c \in Promises, NEW p \in Promises
  PROVE  /\ Repeats(h, c, p) => Repeats(g, c, p)
         /\ Foreign(h, p) => Foreign(g, p)
         /\ \A cb : Repeat(h, p, cb) => Repeat(g, p, cb)
<1>1. FULFILLED # PENDING /\ REJECTED # PENDING  BY DEF FULFILLED, REJECTED, PENDING
<1> QED  BY <1>1 DEF Kept, Repeats, Foreign, Repeat

LEMMA RepeaterStays ==
  ASSUME NEW h, NEW a, NEW t, NEW l, NEW g, NEW b, NEW u, NEW m, NEW D, NEW U,
         Moves(h, a, t, l, g, b, u, m, D, U), NEW q \in Promises, NEW p \in Promises,
         Repeater(h, a, t, l, q, p), q \notin D \/ h.state[q] # PENDING
  PROVE  Repeater(g, b, u, m, q, p)
<1>1. Kept(h, g)  BY DEF Moves
<1>2. CASE Repeats(h, q, p)  BY <1>1, <1>2, RepeatsStays DEF Repeater
<1>3. CASE ~Repeats(h, q, p)
  <2>1. Alone(g, m, q) /\ Frame(h, a, t, l, g, b, u, m, q)  BY <1>3, AloneStays DEF Repeater
  <2>2. \A cb : Repeat(h, p, cb) => Repeat(g, p, cb)  BY <1>1, RepeatsStays
  <2>3. g.state[q] = PENDING  BY <1>3, <2>1 DEF Repeater, Frame
  <2>4. ASSUME NEW n, Unrun(g, b, n), JobHand(g.queue[n], q) PROVE RepeatJob(g, p, g.queue[n], q)
    <3>1. Unrun(h, a, n) /\ h.queue[n] = g.queue[n]  BY <2>1, <2>4 DEF Frame
    <3>2. RepeatJob(h, p, h.queue[n], q)  BY <1>3, <2>4, <3>1 DEF Repeater
    <3> QED  BY <2>2, <3>1, <3>2 DEF RepeatJob
  <2>5. ASSUME NEW y \in Promises, NEW k, Unserved(g, b, u, y, k), SubHand(g.subscribers[y][k], q)
        PROVE  RepeatSub(g, p, g.subscribers[y][k], q)
    <3>1. Unserved(h, a, t, y, k) /\ h.subscribers[y][k] = g.subscribers[y][k]
      BY <2>1, <2>5 DEF Frame
    <3>2. RepeatSub(h, p, h.subscribers[y][k], q)  BY <1>3, <2>5, <3>1 DEF Repeater
    <3> QED  BY <2>2, <3>1, <3>2 DEF RepeatSub
  <2> QED  BY <2>1, <2>3, <2>4, <2>5 DEF Repeater
<1> QED  BY <1>2, <1>3

LEMMA FinallyStays ==
  ASSUME NEW h, NEW a, NEW t, NEW l, NEW g, NEW b, NEW u, NEW m, NEW D, NEW U,
         Moves(h, a, t, l, g, b, u, m, D, U), NEW r, r.parent \in Promises, r.child \in Promises,
         NEW C, NEW E, Called(C, r.child) <=> Called(E, r.child),
         FinallyOK(h, a, t, l, r, C), r.child \notin D \/ h.state[r.child] # PENDING,
         \A q \in Promises : Repeater(h, a, t, l, q, r.parent) => Repeater(g, b, u, m, q, r.parent)
  PROVE  FinallyOK(g, b, u, m, r, E)
<1>1. Kept(h, g)  BY DEF Moves
<1>2. CASE ~Called(C, r.child) /\ OwnHand(h, a, t, l, r)
  <2>1. OwnHand(g, b, u, m, r)  BY <1>2, OwnHandStays DEF OwnHand
  <2> QED  BY <1>2, <2>1 DEF FinallyOK
<1>3. CASE Foreign(h, r.parent)  BY <1>1, <1>3, RepeatsStays DEF FinallyOK
<1>4. CASE Called(C, r.child) /\ Repeats(h, r.child, r.parent)
  BY <1>1, <1>4, RepeatsStays DEF FinallyOK
<1>5. CASE /\ Called(C, r.child)
           /\ \E q \in Promises : /\ q # r.child /\ OnlyLink(h, a, t, l, r.child, q)
                                  /\ Repeater(h, a, t, l, q, r.parent)
  <2>1. PICK q \in Promises : /\ q # r.child /\ OnlyLink(h, a, t, l, r.child, q)
                              /\ Repeater(h, a, t, l, q, r.parent)
    BY <1>5
  <2>2. r.child \notin D  BY <2>1 DEF OnlyLink
  <2>3. OnlyLink(g, b, u, m, r.child, q)  BY <2>1, <2>2, OnlyLinkStays
  <2> QED  BY <1>5, <2>1, <2>3 DEF FinallyOK
<1> QED  BY <1>2, <1>3, <1>4, <1>5 DEF FinallyOK

LEMMA SettleIs ==
  ASSUME NEW h, Typed(h), NEW p \in Promises, h.state[p] = PENDING, NEW v
  PROVE  /\ fulfill(h, p, v).state[p] = FULFILLED /\ fulfill(h, p, v).result[p] = v
         /\ reject(h, p, v).state[p] = REJECTED /\ reject(h, p, v).result[p] = v
<1>1. \A g, s : Settled(h, g, p, s, v) => g.state[p] = s /\ g.result[p] = v
  BY DEF Settled, Typed, Shape
<1> QED  BY <1>1, fulfillFields, rejectFields

\* What is no thenable fulfills.
LEMMA resolvePlain ==
  ASSUME NEW h, NEW p \in Promises, NEW v, Flat(v), v \notin Thenables
  PROVE  resolve(h, p, v) = fulfill(h, p, v)
BY DEF resolve, Flat

\* The hand that x has on p passes on what p is settled with.
LEMMA LinkRun ==
  ASSUME NEW h, Typed(h), Sane(h), NEW x \in Promises, h.state[x] = PENDING,
         NEW p \in Promises, h.state[p] # PENDING, ~Foreign(h, p), NEW cb, NEW o,
         cb = IF h.state[p] = FULFILLED THEN Link(x).ok ELSE Link(x).err
  PROVE  LET g == tryCatch(h, cb, h.result[p], o).heap
         IN  g.state[x] = h.state[p] /\ g.result[x] = h.result[p]
<1> DEFINE g == tryCatch(h, cb, h.result[p], o).heap
<1>1. CASE h.state[p] = FULFILLED
  <2>1. cb.k = "resolve" /\ cb.promise = x  BY <1>1 DEF Link
  <2>2. g = resolve(h, x, h.result[p])  BY <2>1, Zenon DEF tryCatch
  <2>3. resolve(h, x, h.result[p]) = fulfill(h, x, h.result[p])
    BY <1>1, resolvePlain DEF Sane, Foreign
  <2> QED  BY <1>1, <2>2, <2>3, SettleIs
<1>2. CASE h.state[p] = REJECTED
  <2>1. cb.k = "reject" /\ cb.promise = x  BY <1>2 DEF Link, FULFILLED, REJECTED
  <2>2. g = reject(h, x, h.result[p])  BY <2>1, Zenon DEF tryCatch
  <2> QED  BY <1>2, <2>2, SettleIs
<1> QED  BY <1>1, <1>2 DEF Typed

\* The callbacks that `finally' leaves repeat the parent's outcome.
LEMMA RepeatRun ==
  ASSUME NEW h, Typed(h), Sane(h), NEW q \in Promises, h.state[q] = PENDING,
         NEW p \in Promises, ~Foreign(h, p), NEW settled, NEW cb, NEW detail, NEW o,
         Repeat(h, p, cb) \/ (cb = NoCallback /\ settled = REJECTED)
  PROVE  Repeats(invokeCallback(h, settled, q, cb, detail, o), q, p)
<1> DEFINE g == invokeCallback(h, settled, q, cb, detail, o)
<1>0. REJECTED # FULFILLED  BY DEF REJECTED, FULFILLED
<1>1. CASE cb = NoCallback
  <2>1. settled = REJECTED  BY <1>1 DEF Repeat, NoCallback
  <2>2. g = reject(h, q, detail)  BY <1>0, <1>1, <2>1 DEF invokeCallback
  <2> QED  BY <2>2, SettleIs DEF Repeats
<1>2. CASE cb.k = "throw"
  <2>1. cb # NoCallback  BY <1>2 DEF NoCallback
  <2>2. tryCatch(h, cb, detail, o) = [heap |-> h, failed |-> TRUE, value |-> cb.v]
    BY <1>2, Zenon DEF tryCatch
  <2>3. g = reject(h, q, cb.v)  BY <2>1, <2>2 DEF invokeCallback
  <2> QED  BY <2>3, SettleIs DEF Repeats
<1>3. CASE cb.k = "return" /\ h.state[p] = FULFILLED /\ cb.v = h.result[p]
  <2>1. cb # NoCallback  BY <1>3 DEF NoCallback
  <2>2. tryCatch(h, cb, detail, o) = [heap |-> h, failed |-> FALSE, value |-> cb.v]
    BY <1>3, Zenon DEF tryCatch
  <2>3. Flat(cb.v) /\ cb.v \notin Thenables  BY <1>3 DEF Sane, Foreign
  <2>4. cb.v # q  BY <2>3 DEF Flat
  <2>5. g = resolve(h, q, cb.v)  BY <2>1, <2>2, <2>4 DEF invokeCallback
  <2>6. g = fulfill(h, q, cb.v)  BY <2>3, <2>5, resolvePlain
  <2>7. g.state[q] = FULFILLED /\ g.result[q] = h.result[p]  BY <1>3, <2>6, SettleIs
  <2>8. Kept(h, g)  BY <2>6, fulfillCalm DEF Quietly, Calm
  <2>9. g.state[p] = FULFILLED /\ g.result[p] = h.result[p]
    BY <1>3, <2>8 DEF Kept, FULFILLED, PENDING
  <2> QED  BY <2>7, <2>9 DEF Repeats
<1> QED  BY <1>1, <1>2, <1>3 DEF Repeat

LEMMA ThenHands ==
  ASSUME NEW h, Typed(h), Sane(h), Room(h, 1), NEW p \in Promises, NEW ok, NEW err
  PROVE  Handed(h, then(h, p, ok, err), p, NewPromise(h), ok, err)
<1> DEFINE c == NewPromise(h)
           m == makePromise(h)
           s == [child |-> c, ok |-> ok, err |-> err]
           job == Invoke(h, p, c, ok, err)
           g == then(h, p, ok, err)
<1>1. c \in Promises /\ c \notin h.made /\ Typed(m)  BY NewIsSpare
<1>2. /\ m.made = h.made \cup {c} /\ m.deferred = h.deferred /\ m.foreign = h.foreign
      /\ m.enums = h.enums /\ m.state = h.state /\ m.result = h.result
      /\ m.subscribers = h.subscribers /\ QueueSame(h, m)
  BY makeFields
<1>3. g = IF h.state[p] = PENDING THEN subscribe(m, p, c, ok, err) ELSE asap(m, job)
  BY DEF then, Invoke
<1>4. /\ \A y \in Promises : \A k \in DOMAIN h.subscribers[y] : ~SubHand(h.subscribers[y][k], c)
      /\ \A q \in DOMAIN h.queue : ~JobHand(h.queue[q], c)
  BY <1>1 DEF Sane, SaneSub, SaneJob
<1> HIDE DEF c, m, job, g
<1>5. CASE h.state[p] = PENDING
  <2>1. Subscribed(m, g, p, s)  BY <1>1, <1>3, <1>5, subscribeFields
  <2>2. /\ OthersSame(m, g) /\ g.state = m.state /\ g.result = m.result
        /\ QueueSame(m, g)
    BY <1>2, <1>5, <2>1 DEF Subscribed
  <2>3. \A y \in Promises : \A k \in DOMAIN g.subscribers[y] :
           \/ k \in DOMAIN h.subscribers[y] /\ g.subscribers[y][k] = h.subscribers[y][k]
           \/ y = p /\ g.subscribers[y][k] = s
    <3>1. /\ g.subscribers[p] = Append(h.subscribers[p], s)
          /\ \A y \in Promises : y # p => g.subscribers[y] = h.subscribers[y]
      BY <1>2, <2>1 DEF Subscribed, Typed, Subscribers
    <3>2. IsSeq(h.subscribers[p])  BY DEF Typed, Subscribers
    <3> HIDE DEF s
    <3>3. \A k \in DOMAIN g.subscribers[p] :
             \/ k \in DOMAIN h.subscribers[p] /\ g.subscribers[p][k] = h.subscribers[p][k]
             \/ g.subscribers[p][k] = s
      BY <3>1, <3>2, AppendExtends DEF Extends
    <3> QED  BY <3>1, <3>3
  <2> HIDE DEF s
  <2>4. \A y \in Promises : \A k \in DOMAIN g.subscribers[y] : SubHand(g.subscribers[y][k], c) =>
           y = p /\ g.subscribers[y][k] = s
    BY <1>4, <2>3
  <2>5. \A q \in DOMAIN g.queue : ~JobHand(g.queue[q], c)  BY <1>2, <1>4, <2>2 DEF QueueSame
  <2> QED  BY <1>2, <1>5, <2>2, <2>4, <2>5 DEF Handed, OthersSame, s, c, g
<1>6. CASE h.state[p] # PENDING
  <2>0. HeapFields \subseteq DOMAIN m /\ IsSeq(m.queue) /\ m.scheduled \in BOOLEAN
    BY <1>1 DEF Typed, Jobs
  <2>1. /\ OthersSame(m, g) /\ Queued(m, g, job) /\ g.state = m.state /\ g.result = m.result
        /\ g.subscribers = m.subscribers
    BY <1>3, <1>6, <2>0, asapFields
  <2>2. \A q \in DOMAIN g.queue : (q \in DOMAIN h.queue /\ g.queue[q] = h.queue[q]) \/ g.queue[q] = job
    <3>1. g.queue = Append(h.queue, job)  BY <1>2, <2>1 DEF Queued, QueueSame
    <3>2. IsSeq(h.queue)  BY DEF Typed, Jobs
    <3> QED  BY <3>1, <3>2, AppendExtends DEF Extends
  <2>3. \A q \in DOMAIN g.queue : JobHand(g.queue[q], c) => g.queue[q] = job  BY <1>4, <2>2
  <2>4. \A y \in Promises : \A k \in DOMAIN g.subscribers[y] : ~SubHand(g.subscribers[y][k], c)
    BY <1>2, <1>4, <2>1
  <2> QED  BY <1>2, <1>6, <2>1, <2>3, <2>4 DEF Handed, OthersSame, job, c, g
<1> QED  BY <1>5, <1>6

LEMMA FreeStays ==
  ASSUME NEW h, NEW a, NEW t, NEW l, NEW g, NEW b, NEW u, NEW m, NEW D, NEW U,
         Moves(h, a, t, l, g, b, u, m, D, U), NEW x, Free(h, a, t, l, x), x \notin D
  PROVE  Free(g, b, u, m, x)
<1>1. Alone(g, m, x) /\ Frame(h, a, t, l, g, b, u, m, x)  BY AloneStays DEF Free
<1> QED  BY <1>1 DEF Free, Frame

\* A promise that has just been made belongs to nobody.
LEMMA NewAlone ==
  ASSUME NEW h, Typed(h), Sane(h), NEW l, l.k # "race", NEW x, x \notin h.made, NEW g,
         x \in g.made, g.deferred = h.deferred, g.foreign = h.foreign, g.enums = h.enums
  PROVE  Alone(g, l, x)
<1>1. x \notin h.deferred  BY DEF Typed, Made
<1>2. \A f \in DOMAIN h.foreign : h.foreign[f].promise # x  BY DEF Sane, SaneForeign
<1>3. \A e \in DOMAIN h.enums : h.enums[e].promise # x  BY DEF Sane, SaneEnum
<1> QED  BY <1>1, <1>2, <1>3 DEF Alone, Elsewhere

\* x is made to follow the pending promise q.
LEMMA LinkAdded ==
  ASSUME NEW h, Typed(h), NEW a, NEW t, NEW l, NEW x \in Promises, Free(h, a, t, l, x),
         NEW q \in Promises, h.state[q] = PENDING, q # x
  PROVE  LET g == resolve(h, x, q)
         IN  /\ Subscribed(h, g, q, Link(x)) /\ QueueSame(h, g)
             /\ OnlyLink(g, a, t, l, x, q)
             /\ \A y \in Promises : \A k : Unserved(g, a, t, y, k) =>
                   \/ Unserved(h, a, t, y, k) /\ g.subscribers[y][k] = h.subscribers[y][k]
                   \/ y = q /\ g.subscribers[y][k] = Link(x)
<1> DEFINE g == resolve(h, x, q)
<1>1. g = subscribe(h, q, NoChild, Link(x).ok, Link(x).err)
  <2>1. g = handleOwnThenable(h, x, q)  BY DEF resolve, handleMaybeThenable
  <2> QED  BY <2>1 DEF handleOwnThenable, Link, PENDING, FULFILLED, REJECTED
<1>2. Subscribed(h, g, q, Link(x))
  <2>1. Link(x) = [child |-> NoChild, ok |-> Link(x).ok, err |-> Link(x).err]  BY DEF Link
  <2> QED  BY <1>1, <2>1, subscribeFields
<1> HIDE DEF g
<1>3. /\ OthersSame(h, g) /\ g.state = h.state /\ g.result = h.result /\ QueueSame(h, g)
      /\ g.subscribers[q] = Append(h.subscribers[q], Link(x))
      /\ \A y \in Promises : y # q => g.subscribers[y] = h.subscribers[y]
  BY <1>2 DEF Subscribed, Typed, Subscribers
<1>4. IsSeq(h.subscribers[q])  BY DEF Typed, Subscribers
<1>5. \A k \in DOMAIN g.subscribers[q] :
         \/ k \in DOMAIN h.subscribers[q] /\ g.subscribers[q][k] = h.subscribers[q][k]
         \/ g.subscribers[q][k] = Link(x)
  BY <1>3, <1>4, AppendExtends DEF Extends
<1>6. \A y \in Promises : \A k : Unserved(g, a, t, y, k) =>
         \/ Unserved(h, a, t, y, k) /\ g.subscribers[y][k] = h.subscribers[y][k]
         \/ y = q /\ g.subscribers[y][k] = Link(x)
  BY <1>3, <1>5 DEF Unserved, Served, QueueSame
<1>7. OnlyLink(g, a, t, l, x, q)
  <2>1. Alone(g, l, x) /\ g.state[x] = PENDING  BY <1>3 DEF Free, Alone, Elsewhere, OthersSame
  <2>2. \A n : Unrun(g, a, n) => ~JobHand(g.queue[n], x)  BY <1>3 DEF Free, QueueSame, Unrun
  <2>3. \A y \in Promises : \A k : Unserved(g, a, t, y, k) /\ SubHand(g.subscribers[y][k], x) =>
           y = q /\ g.subscribers[y][k] = Link(x)
    BY <1>6 DEF Free
  <2> QED  BY <2>1, <2>2, <2>3 DEF OnlyLink
<1> QED  BY <1>2, <1>3, <1>6, <1>7 DEF g

\* The callback of `finally' was called: the child is rejected with what it threw, or
\* awaits what it returned, and then repeats the parent's outcome.
LEMMA FinallyRun ==
  ASSUME NEW h, Typed(h), Sane(h), Room(h, 2), NEW a, NEW t, Flow(h, a, t), NEW l, l.k # "race",
         NEW c \in Promises, Free(h, a, t, l, c),
         NEW p \in Promises, h.state[p] # PENDING, NEW settled, NEW cb, NEW detail,
         cb.k = "finally", cb.then = IF h.state[p] = FULFILLED THEN "return" ELSE "throw",
         detail = h.result[p], NEW o, o.d = NoChild \/ o.d \in h.deferred
  PROVE  LET g == invokeCallback(h, settled, c, cb, detail, o)
         IN  \/ Repeats(g, c, p)
             \/ \E q \in Promises : /\ q # c /\ OnlyLink(g, a, t, l, c, q)
                                    /\ Repeater(g, a, t, l, q, p)
<1> DEFINE g == invokeCallback(h, settled, c, cb, detail, o)
           x == Effect(h, o)
           D == {o.d}
<1>1. c \notin D /\ c \in h.made
  <2>1. NoChild \notin Promises  BY ValuesApart DEF NoChild, Values
  <2> QED  BY <2>1 DEF Free, Alone, Elsewhere
<1>2. Spares(h, x, D) /\ Quietly(h, x, 0)
  <2>1. o.d \in h.deferred => o.d \in h.made /\ o.d \in Promises  BY DEF Typed, Made
  <2>2. Settles(o)  BY <2>1 DEF Settles
  <2> QED  BY <2>1, <2>2, EffectSpares, EffectCalm
<1>3. cb # NoCallback  BY DEF NoCallback
<1> HIDE DEF x, D
<1>4. Typed(x) /\ Sane(x) /\ Room(x, 2) /\ Kept(h, x)
  <2>1. Typed(x) /\ Sane(x) /\ Makes(h, x, 0) /\ Kept(h, x)
    BY <1>2 DEF Spares, Grows, Quietly, Calm
  <2>2. Room(h, 0 + 2)  OBVIOUS
  <2> QED  BY <2>1, <2>2, RoomLeft
<1>5. CASE o.throws
  <2>1. tryCatch(h, cb, detail, o) = [heap |-> x, failed |-> TRUE, value |-> o.value]
    BY <1>5, Zenon DEF tryCatch, x
  <2>2. x.state[c] = PENDING  BY <1>1, <1>2 DEF Spares, Spared, Free
  <2>3. g = reject(x, c, o.value)  BY <1>3, <2>1, <2>2 DEF invokeCallback
  <2> QED  BY <1>4, <2>2, <2>3, SettleIs DEF Repeats
<1>6. CASE ~o.throws
  <2> DEFINE repeat == [k |-> cb.then, v |-> detail]
             m == resolveStatic(x, o.value)
             w == resolved(x, o.value)
             k == then(m, w, repeat, NoCallback)
             q == NewPromise(m)
  <2>1. tryCatch(h, cb, detail, o) = [heap |-> k, failed |-> FALSE, value |-> q]
    <3>1. tryCatch(h, cb, detail, o) = finally(x, o, repeat)  BY <1>6, Zenon DEF tryCatch, x
    <3> QED  BY <3>1 DEF finally
  <2>2. CallbackOK(x, repeat) /\ repeat.k \in {"return", "throw"}  BY DEF CallbackOK
  <2>3. Spares(x, k, {})
    <3>1. Spares(x, finally(x, o, repeat).heap, {})  BY <1>4, <2>2, finallySpares
    <3> QED  BY <3>1 DEF finally
  <2>4. Typed(m) /\ Sane(m) /\ Room(m, 1) /\ w \in Promises /\ c \in m.made /\ Kept(x, m)
    <3>1. Room(x, 1)  BY <1>4, RoomLess
    <3>2. Quietly(x, m, IF o.value \in Promises THEN 0 ELSE 1) /\ w \in Promises
      BY <1>4, <3>1, StaticCalm
    <3>3. Quietly(x, m, 1)  BY <1>4, <3>2, QuietMore
    <3>4. Spares(x, m, {})  BY <1>4, <3>1, StaticSpares
    <3> HIDE DEF m, w
    <3>5. Typed(m) /\ Sane(m) /\ x.made \subseteq m.made /\ Kept(x, m)  BY <3>4 DEF Spares, Grows
    <3>6. Room(x, 1 + 1)  BY <1>4
    <3>7. Room(m, 1)  BY <1>4, <3>3, <3>5, <3>6, RoomLeft DEF Quietly
    <3>8. c \in m.made  BY <1>1, <1>2, <3>5 DEF Spares, Grows
    <3> QED  BY <3>2, <3>5, <3>7, <3>8
  <2>5. q \in Promises /\ q \notin m.made /\ m.state[q] = PENDING /\ q # c
    BY <2>4, NewIsSpare
  <2>6. Handed(m, k, w, q, repeat, NoCallback)  BY <2>4, ThenHands
  <2>7. h.state[p] = k.state[p] /\ h.result[p] = k.result[p]
    <3>1. m.state[p] = h.state[p] /\ m.result[p] = h.result[p]  BY <1>4, <2>4 DEF Kept
    <3> QED  BY <2>6, <3>1 DEF Handed
  <2>8. repeat.k = cb.then /\ repeat.v = detail  OBVIOUS
  <2> HIDE DEF m, w, k, q, repeat
  <2>9. Spares(h, k, D)
    <3>1. \A y \in h.made : y \in {} => y \in D  OBVIOUS
    <3> QED  BY <1>2, <2>3, <3>1, SparesTrans
  <2>10. Typed(k) /\ Sane(k) /\ Free(k, a, t, l, c)
    <3>1. Moves(h, a, t, l, k, a, t, l, D, {})  BY <2>9, CallMoves
    <3> QED  BY <1>1, <2>9, <3>1, FreeStays DEF Spares, Grows
  <2>11. g = resolve(k, c, q)  BY <1>3, <2>1, <2>5, <2>10 DEF invokeCallback, Free
  <2>12. k.state[q] = PENDING  BY <2>5, <2>6 DEF Handed
  <2>13. /\ Subscribed(k, g, q, Link(c)) /\ QueueSame(k, g) /\ OnlyLink(g, a, t, l, c, q)
         /\ \A y \in Promises : \A n : Unserved(g, a, t, y, n) =>
               \/ Unserved(k, a, t, y, n) /\ g.subscribers[y][n] = k.subscribers[y][n]
               \/ y = q /\ g.subscribers[y][n] = Link(c)
    BY <2>5, <2>10, <2>11, <2>12, LinkAdded
  <2> HIDE DEF g
  <2>14. /\ OthersSame(k, g) /\ g.state = k.state /\ g.result = k.result
    BY <2>13 DEF Subscribed
  <2>15. Repeat(g, p, repeat)  BY <2>7, <2>8, <2>14 DEF Repeat
  <2>16. Alone(g, l, q)
    <3>1. q \in g.made /\ g.deferred = m.deferred /\ g.foreign = m.foreign /\ g.enums = m.enums
      BY <2>6, <2>14 DEF Handed, OthersSame
    <3> QED  BY <2>4, <2>5, <3>1, NewAlone
  <2>17. ASSUME NEW n, Unrun(g, a, n), JobHand(g.queue[n], q) PROVE RepeatJob(g, p, g.queue[n], q)
    <3>1. g.queue[n] = Invoke(m, w, q, repeat, NoCallback) /\ m.state[w] # PENDING
      BY <2>6, <2>13, <2>17 DEF Handed, QueueSame, Unrun
    <3>2. m.state[w] = FULFILLED \/ m.state[w] = REJECTED  BY <2>4, <3>1 DEF Typed
    <3> QED  BY <2>15, <3>1, <3>2 DEF RepeatJob, Invoke
  <2>18. ASSUME NEW y \in Promises, NEW n, Unserved(g, a, t, y, n), SubHand(g.subscribers[y][n], q)
         PROVE  RepeatSub(g, p, g.subscribers[y][n], q)
    <3>1. g.subscribers[y][n] # Link(c)  BY <2>5, <2>18, LinkFacts
    <3>2. n \in DOMAIN k.subscribers[y] /\ g.subscribers[y][n] = k.subscribers[y][n]
      BY <2>13, <2>18, <3>1 DEF Unserved
    <3>3. g.subscribers[y][n] = [child |-> q, ok |-> repeat, err |-> NoCallback]
      BY <2>6, <2>18, <3>2 DEF Handed
    <3> QED  BY <2>15, <3>3 DEF RepeatSub
  <2>19. g.state[q] = PENDING  BY <2>12, <2>14
  <2>20. Repeater(g, a, t, l, q, p)  BY <2>16, <2>17, <2>18, <2>19 DEF Repeater
  <2> QED  BY <2>5, <2>13, <2>20 DEF g
<1> QED  BY <1>5, <1>6 DEF g

-----------------------------------------------------------------------------
(* all: every place of the values is filled once, with what its entry is   *)
(* settled with, and nobody but the enumerator settles the promise.        *)

LEMMA ItemStays ==
  ASSUME NEW h, NEW g, Kept(h, g)
  PROVE  /\ \A v : Gave(h, v) => Gave(g, v)
         /\ \A v, w : Item(h, v, w) => Item(g, v, w)
         /\ \A en, w : Failing(h, en, w) => Failing(g, en, w)
         /\ \A x, p \in Promises : Same(h, x, p) => Same(g, x, p)
<1>1. FULFILLED # PENDING /\ REJECTED # PENDING  BY DEF FULFILLED, REJECTED, PENDING
<1>2. \A v : Gave(h, v) => Gave(g, v)  BY <1>1 DEF Kept, Gave, Foreign
<1>3. \A v, w : Item(h, v, w) => Item(g, v, w)  BY <1>1, <1>2 DEF Kept, Item
<1>4. \A x, p \in Promises : Same(h, x, p) => Same(g, x, p)  BY DEF Kept, Same
<1>5. \A v, w : Blamed(h, v, w) => Blamed(g, v, w)  BY <1>1, <1>2 DEF Kept, Blamed
<1>6. \A en, w : Failing(h, en, w) => Failing(g, en, w)  BY <1>5 DEF Failing
<1> QED  BY <1>2, <1>3, <1>4, <1>6

LEMMA PrivateStays ==
  ASSUME NEW h, NEW a, NEW t, NEW l, NEW g, NEW b, NEW u, NEW m, NEW D, NEW U,
         Moves(h, a, t, l, g, b, u, m, D, U), NEW e, NEW P, Private(h, a, t, l, e, P), P \notin D
  PROVE  /\ Private(g, b, u, m, e, P) /\ Frame(h, a, t, l, g, b, u, m, P)
         /\ e \in DOMAIN h.enums /\ h.enums[e].promise = P => g.enums[e] = h.enums[e]
<1>1. Frame(h, a, t, l, g, b, u, m, P) /\ P \in g.made  BY DEF Moves, Private
<1>2. Private(g, b, u, m, e, P)  BY <1>1 DEF Private, Frame
<1>3. e \in DOMAIN h.enums /\ h.enums[e].promise = P => g.enums[e] = h.enums[e]
  BY <1>1 DEF Moves, Frame
<1> QED  BY <1>1, <1>2, <1>3

\* What waits for a place of e.
LEMMA AwaitStays ==
  ASSUME NEW h, NEW a, NEW t, NEW l, NEW g, NEW b, NEW u, NEW m, NEW D, NEW U,
         Moves(h, a, t, l, g, b, u, m, D, U), NEW e \in DOMAIN h.enums,
         Frame(h, a, t, l, g, b, u, m, h.enums[e].promise), NEW i, NEW x \in Promises, NEW k
  PROVE  /\ AwaitAt(g, b, u, e, i, x, k) => AwaitAt(h, a, t, e, i, x, k)
         /\ AwaitAt(h, a, t, e, i, x, k) /\ <<x, k>> \notin U => AwaitAt(g, b, u, e, i, x, k)
<1>1. e \in DOMAIN g.enums /\ g.enums[e].promise = h.enums[e].promise  BY DEF Moves
<1>2. AwaitAt(g, b, u, e, i, x, k) => AwaitAt(h, a, t, e, i, x, k)  BY <1>1 DEF Frame, AwaitAt
<1>3. AwaitAt(h, a, t, e, i, x, k) /\ <<x, k>> \notin U => AwaitAt(g, b, u, e, i, x, k)
  BY DEF Moves, Keeps, AwaitAt
<1> QED  BY <1>2, <1>3

LEMMA PlacingStays ==
  ASSUME NEW h, NEW a, NEW t, NEW l, NEW g, NEW b, NEW u, NEW m, NEW e, Placing(h, a, t, l, e),
         \A i \in {1, 2} : Todo(m, e, i) => Todo(l, e, i),
         \A i \in {1, 2} : \A x \in Promises : \A k :
            AwaitAt(g, b, u, e, i, x, k) => AwaitAt(h, a, t, e, i, x, k)
  PROVE  Placing(g, b, u, m, e)
BY DEF Placing, Await

\* A step that leaves the promise of e alone, and nobody's place is filled.
LEMMA AllStays ==
  ASSUME NEW h, NEW a, NEW t, NEW l, NEW g, NEW b, NEW u, NEW m, NEW D, NEW U,
         Moves(h, a, t, l, g, b, u, m, D, U), NEW e, NEW x, AllOK(h, a, t, l, e, x),
         x.promise \notin D, SameTurn(l, m, e),
         \A y \in Promises : \A k, i : AwaitAt(h, a, t, e, i, y, k) => <<y, k>> \notin U,
         \A y \in Promises : \A v : Mirror(h, a, t, l, y, v) => Mirror(g, b, u, m, y, v)
  PROVE  AllOK(g, b, u, m, e, x)
<1> DEFINE P == x.promise
           L == Lefts(h, a, t, l, e)
<1>1. /\ Serves(h, l, e, x) /\ Private(h, a, t, l, e, P) /\ Placing(h, a, t, l, e)
      /\ Mirrors(h, a, t, l, e, x.entries) /\ Summed(h, l, e, x.entries, L)
  BY DEF AllOK
<1>2. e \in DOMAIN h.enums /\ h.enums[e].promise = P  BY <1>1 DEF Serves
<1>3. Private(g, b, u, m, e, P) /\ Frame(h, a, t, l, g, b, u, m, P) /\ g.enums[e] = h.enums[e]
  BY <1>1, <1>2, PrivateStays
<1>4. \A i : \A y \in Promises : \A k : AwaitAt(g, b, u, e, i, y, k) <=> AwaitAt(h, a, t, e, i, y, k)
  BY <1>2, <1>3, AwaitStays, Zenon
<1>5. \A i : Todo(m, e, i) <=> Todo(l, e, i)  BY DEF Todo, SameTurn
<1>6. Placing(g, b, u, m, e)  BY <1>1, <1>4, <1>5, PlacingStays
<1>7. Lefts(g, b, u, m, e) = L  BY <1>4, <1>5 DEF Lefts, Await
<1>8. Mirrors(g, b, u, m, e, x.entries)  BY <1>1, <1>4 DEF Mirrors
<1>9. Serves(g, m, e, x)
  <2>1. e \in DOMAIN g.enums  BY <1>2 DEF Moves
  <2> QED  BY <1>1, <1>3, <2>1 DEF Serves, SameTurn
<1>10. Summed(g, m, e, x.entries, L)
  <2>1. /\ \A v, w : Item(h, v, w) => Item(g, v, w)
        /\ \A en, w : Failing(h, en, w) => Failing(g, en, w)
    BY ItemStays DEF Moves
  <2>2. g.state[P] = h.state[P] /\ g.result[P] = h.result[P]  BY <1>3 DEF Frame
  <2> HIDE DEF P, L
  <2> QED  BY <1>1, <1>2, <1>3, <2>1, <2>2 DEF Summed, SameTurn
<1> QED  BY <1>3, <1>6, <1>7, <1>8, <1>9, <1>10 DEF AllOK

\* What follows goes on to, unless it is run.
LEMMA MirrorStays ==
  ASSUME NEW h, NEW a, NEW t, NEW l, NEW g, NEW b, NEW u, NEW m, NEW D, NEW U,
         Moves(h, a, t, l, g, b, u, m, D, U), NEW x \in Promises, NEW v, Mirror(h, a, t, l, x, v),
         v \in Promises /\ Follows(h, a, t, l, x, v) =>
            \/ Mirror(g, b, u, m, x, v)
            \/ /\ x \notin D
               /\ \A k : Unserved(h, a, t, v, k) /\ h.subscribers[v][k] = Link(x) => <<v, k>> \notin U
  PROVE  Mirror(g, b, u, m, x, v)
<1>0. Kept(h, g)  BY DEF Moves
<1>1. CASE Gave(h, v)  BY <1>0, <1>1, ItemStays DEF Mirror
<1>2. CASE v \in Promises /\ Same(h, x, v)  BY <1>0, <1>2, ItemStays DEF Mirror
<1>3. CASE v \in Promises /\ Follows(h, a, t, l, x, v)
  <2> SUFFICES ASSUME x \notin D,
                      \A k : Unserved(h, a, t, v, k) /\ h.subscribers[v][k] = Link(x) => <<v, k>> \notin U
               PROVE  Follows(g, b, u, m, x, v)
    BY <1>3 DEF Mirror
  <2>1. OnlyLink(g, b, u, m, x, v)  BY <1>3, OnlyLinkStays DEF Follows
  <2>2. PICK k : Unserved(h, a, t, v, k) /\ h.subscribers[v][k] = Link(x)
    BY <1>3 DEF Follows, LinkedTo
  <2>3. Unserved(g, b, u, v, k) /\ g.subscribers[v][k] = Link(x)
    BY <1>3, <2>2 DEF Moves, Keeps
  <2> QED  BY <2>1, <2>3 DEF Follows, LinkedTo
<1> QED  BY <1>1, <1>2, <1>3 DEF Mirror

LEMMA SettleHushed ==
  ASSUME NEW h, Typed(h), NEW p \in Promises, NEW v
  PROVE  Hushed(h, fulfill(h, p, v)) /\ Hushed(h, reject(h, p, v))
<1>1. ASSUME NEW g, NEW s, Settled(h, g, p, s, v)
      PROVE  Hushed(h, g)
  <2>1. IsSeq(h.queue) /\ Publish(p).k = "publish"  BY DEF Typed, Jobs, Publish
  <2>2. \A q \in DOMAIN g.queue :
           (q \in DOMAIN h.queue /\ g.queue[q] = h.queue[q]) \/ g.queue[q].k = "publish"
    <3>1. CASE QueueSame(h, g)  BY <3>1 DEF QueueSame
    <3>2. CASE Queued(h, g, Publish(p))  BY <2>1, <3>2, AppendExtends DEF Queued, Extends
    <3> QED  BY <1>1, <3>1, <3>2 DEF Settled
  <2> QED  BY <1>1, <2>2 DEF Hushed, Settled, OthersSame
<1>2. CASE h.state[p] = PENDING  BY <1>1, <1>2, fulfillFields, rejectFields
<1>3. CASE h.state[p] # PENDING
  <2>1. fulfill(h, p, v) = h /\ reject(h, p, v) = h  BY <1>3 DEF fulfill, reject
  <2>2. Hushed(h, h)  BY DEF Hushed
  <2> QED  BY <2>1, <2>2
<1> QED  BY <1>2, <1>3

LEMMA HushedTrans ==
  ASSUME NEW h, NEW g, NEW k, Hushed(h, g), Hushed(g, k)
  PROVE  Hushed(h, k)
BY DEF Hushed

LEMMA FilledHushed ==
  ASSUME NEW h, Typed(h), Sane(h), NEW e \in DOMAIN h.enums, NEW left, NEW values, IsSeq(values)
  PROVE  LET g == Filled(h, e, left, values)
         IN  Hushed(h, g) /\ Typed(g) /\ Sane(g)
<1>1. FilledBy(h, Filled(h, e, left, values), e, left, values)  BY FilledFacts
<1> QED  BY <1>1 DEF FilledBy, Hushed, QueueSame

LEMMA settledAtHushed ==
  ASSUME NEW h, Typed(h), Sane(h), NEW e \in DOMAIN h.enums, NEW state, NEW i, NEW v
  PROVE  Hushed(h, settledAt(h, e, state, i, v))
<1> DEFINE N == h.enums[e]
           f == Placed(N.result, i, v)
           g == Filled(h, e, N.remaining - 1, f)
           k == Filled(h, e, N.remaining - 1, N.result)
<1>1. N.promise \in Promises /\ IsSeq(N.result)  BY DEF Typed, Stands, Sane, SaneEnum
<1>2. IsSeq(f)  BY <1>1, SeqExcept DEF Placed
<1>3. /\ h.state[N.promise] # PENDING => settledAt(h, e, state, i, v) = h
      /\ h.state[N.promise] = PENDING /\ state = REJECTED =>
            settledAt(h, e, state, i, v) = reject(k, N.promise, v)
      /\ h.state[N.promise] = PENDING /\ state # REJECTED =>
            settledAt(h, e, state, i, v) = IF N.remaining - 1 = 0 THEN fulfill(g, N.promise, f) ELSE g
  BY settledAtIs
<1> HIDE DEF f
<1>4. Hushed(h, g) /\ Typed(g) /\ Hushed(h, k) /\ Typed(k)  BY <1>1, <1>2, FilledHushed
<1> HIDE DEF g, k, N
<1>5. Hushed(h, reject(k, N.promise, v)) /\ Hushed(h, fulfill(g, N.promise, f))
  BY <1>1, <1>4, SettleHushed, HushedTrans
<1>6. Hushed(h, h)  BY DEF Hushed
<1> QED  BY <1>3, <1>4, <1>5, <1>6

\* An index of a list that only grows is served as it was.
LEMMA StillUnserved ==
  ASSUME NEW h, Typed(h), NEW a, NEW t, Flow(h, a, t), NEW g, Extends(h.queue, g.queue),
         NEW p \in Promises, NEW k \in DOMAIN h.subscribers[p], k \in DOMAIN g.subscribers[p]
  PROVE  Unserved(h, a, t, p, k) <=> Unserved(g, a, t, p, k)
<1>1. k \in Nat \ {0}  BY SubIndex
<1>2. k < t => t > 1  BY <1>1 DEF Flow
<1>3. t > 1 => g.queue[a] = h.queue[a]  BY DEF Flow, Extends
<1> QED  BY <1>2, <1>3 DEF Unserved, Served

LEMMA HushedStays ==
  ASSUME NEW h, Typed(h), NEW a, NEW t, Flow(h, a, t), NEW g, Extends(h.queue, g.queue), Hushed(h, g),
         NEW l, NEW e
  PROVE  /\ \A P : Private(h, a, t, l, e, P) => Private(g, a, t, l, e, P)
         /\ \A i, k : \A x \in Promises : AwaitAt(g, a, t, e, i, x, k) <=> AwaitAt(h, a, t, e, i, x, k)
<1>1. \A p \in Promises : \A k : Unserved(g, a, t, p, k) <=> Unserved(h, a, t, p, k)
  <2> SUFFICES ASSUME NEW p \in Promises, NEW k
               PROVE  Unserved(g, a, t, p, k) <=> Unserved(h, a, t, p, k)
    OBVIOUS
  <2>1. g.subscribers = h.subscribers  BY DEF Hushed
  <2>2. CASE k \in DOMAIN h.subscribers[p]  BY <2>1, <2>2, StillUnserved
  <2>3. CASE k \notin DOMAIN h.subscribers[p]  BY <2>1, <2>3 DEF Unserved
  <2> QED  BY <2>2, <2>3
<1>2. \A i, k : \A x \in Promises : AwaitAt(g, a, t, e, i, x, k) <=> AwaitAt(h, a, t, e, i, x, k)
  BY <1>1 DEF AwaitAt, Hushed
<1>3. ASSUME NEW P, Private(h, a, t, l, e, P) PROVE Private(g, a, t, l, e, P)
  <2>1. \A q : Unrun(g, a, q) => ~JobHand(g.queue[q], P)
    BY <1>3 DEF Hushed, Private, Unrun, JobHand
  <2>2. \A y \in Promises : \A k : Unserved(g, a, t, y, k) => ~SubHand(g.subscribers[y][k], P)
    BY <1>1, <1>3 DEF Hushed, Private
  <2>3. P \in g.made /\ ~Elsewhere(g, l, P)  BY <1>3 DEF Hushed, Private, Elsewhere
  <2>4. \A d \in DOMAIN g.enums : g.enums[d].promise = P => d = e  BY <1>3 DEF Hushed, Private
  <2> QED  BY <1>3, <2>1, <2>2, <2>3, <2>4 DEF Private
<1> QED  BY <1>2, <1>3

LEMMA CountFacts ==
  ASSUME NEW L
  PROVE  /\ \A i \in {1, 2} : i \in L => Count(L \ {i}) = Count(L) - 1
         /\ Count(L) \in Nat /\ (Count(L) = 0 => 1 \notin L /\ 2 \notin L)
         /\ (L \subseteq {} => Count(L) = 0)
<1>1. \A i \in {1, 2} : i \in L => Count(L \ {i}) = Count(L) - 1
  <2>1. 1 \in L => Count(L \ {1}) = Count(L) - 1  BY DEF Count
  <2>2. 2 \in L => Count(L \ {2}) = Count(L) - 1  BY DEF Count
  <2> QED  BY <2>1, <2>2
<1> QED  BY <1>1 DEF Count

\* One more place is filled.
LEMMA PlaceSums ==
  ASSUME NEW h, NEW e, NEW l, NEW en, NEW L, Summed(h, l, e, en, L),
         h.state[h.enums[e].promise] = PENDING, DOMAIN h.enums[e].result = {1, 2},
         NEW i, i \in {1, 2}, i \in L, NEW v, Item(h, en[i], v)
  PROVE  PlaceSummed(h, e, en, L, i, Placed(h.enums[e].result, i, v))
<1> DEFINE f == Placed(h.enums[e].result, i, v)
<1>1. /\ h.enums[e].remaining = Count(L)
      /\ \A j \in {1, 2} : j \notin L => Item(h, en[j], h.enums[e].result[j])
  BY DEF Summed, PENDING, FULFILLED, REJECTED
<1>2. DOMAIN f = {1, 2} /\ f[i] = v /\ \A j \in {1, 2} : j # i => f[j] = h.enums[e].result[j]
  <2>1. f = [h.enums[e].result EXCEPT ![i] = v]  BY DEF Placed
  <2>2. DOMAIN f = {1, 2}  BY <2>1
  <2>3. \A j \in DOMAIN h.enums[e].result : f[j] = IF j = i THEN v ELSE h.enums[e].result[j]  BY <2>1
  <2>4. f[i] = v  BY <2>3
  <2>5. \A j \in {1, 2} : j # i => f[j] = h.enums[e].result[j]  BY <2>3
  <2> QED  BY <2>2, <2>4, <2>5
<1> HIDE DEF f
<1>3. h.enums[e].remaining - 1 = Count(L \ {i})  BY <1>1, CountFacts
<1>4. \A j \in {1, 2} : j \notin L \ {i} => Item(h, en[j], f[j])  BY <1>1, <1>2
<1>5. ASSUME h.enums[e].remaining - 1 = 0, NEW j \in {1, 2} PROVE Item(h, en[j], f[j])
  <2> DEFINE M == L \ {i}
  <2>1. Count(M) = 0  BY <1>3, <1>5
  <2> HIDE DEF M
  <2>2. 1 \notin M /\ 2 \notin M  BY <2>1 DEF Count
  <2>3. j \notin M  BY <1>5, <2>2
  <2> QED  BY <1>4, <1>5, <2>3 DEF M
<1> QED  BY <1>2, <1>3, <1>4, <1>5 DEF f, PlaceSummed

LEMMA settledAtSums ==
  ASSUME NEW h, Typed(h), Sane(h), ArraysApart, NEW e \in DOMAIN h.enums, NEW state,
         NEW i, i \in {1, 2}, NEW v, DOMAIN h.enums[e].result = {1, 2}, NEW en, NEW L, NEW l,
         Summed(h, l, e, en, L), i \in L, Ended(h, en[i], state, v)
  PROVE  SumsTo(settledAt(h, e, state, i, v), e, en, L \ {i}, h.enums[e].promise)
<1> DEFINE N == h.enums[e]
           P == N.promise
           f == Placed(N.result, i, v)
           g == Filled(h, e, N.remaining - 1, f)
           k == Filled(h, e, N.remaining - 1, N.result)
           z == settledAt(h, e, state, i, v)
<1>1. P \in Promises /\ IsSeq(N.result)  BY DEF Typed, Stands, Sane, SaneEnum
<1>2. IsSeq(f)  BY <1>1, SeqExcept DEF Placed
<1>3. /\ h.state[P] # PENDING => z = h
      /\ h.state[P] = PENDING /\ state = REJECTED => z = reject(k, P, v)
      /\ h.state[P] = PENDING /\ state # REJECTED =>
            z = IF N.remaining - 1 = 0 THEN fulfill(g, P, f) ELSE g
  BY settledAtIs
<1>4. Kept(h, z) /\ \A d \in DOMAIN h.enums : z.enums[d].promise = h.enums[d].promise
  BY settledAtSpares DEF Spares, Grows
<1>5. /\ \A w, y : Item(h, w, y) => Item(z, w, y)
      /\ \A w : Failing(h, en, w) => Failing(z, en, w)
  BY <1>4, ItemStays
<1> HIDE DEF f, z
<1>6. FilledBy(h, k, e, N.remaining - 1, N.result) /\ FilledBy(h, g, e, N.remaining - 1, f)
  BY <1>1, <1>2, FilledFacts
<1> HIDE DEF g, k
<1> SUFFICES SumsTo(z, e, en, L \ {i}, P)  BY DEF z
<1>7. CASE h.state[P] # PENDING
  <2>1. z = h  BY <1>3, <1>7
  <2> QED  BY <1>7, <2>1, Zenon DEF SumsTo, Summed
<1>8. CASE h.state[P] = PENDING /\ state = REJECTED
  <2>1. Typed(k) /\ k.state[P] = PENDING /\ k.enums[e].result = N.result  BY <1>6, <1>8 DEF FilledBy
  <2>2. z = reject(k, P, v)  BY <1>3, <1>8
  <2>3. Settled(k, z, P, REJECTED, v)  BY <1>1, <2>1, <2>2, rejectFields
  <2>4. z.state[P] = REJECTED /\ z.result[P] = v /\ z.enums = k.enums
    <3> HIDE DEF P, N
    <3> QED  BY <1>1, <2>1, <2>3 DEF Settled, Typed, Shape, OthersSame
  <2>5. Failing(z, en, v)
    <3>1. Failing(h, en, v)  BY <1>8 DEF Ended, Failing
    <3> QED  BY <1>5, <3>1
  <2> QED  BY <1>4, <2>1, <2>4, <2>5, Zenon DEF SumsTo, Summed
<1>9. CASE h.state[P] = PENDING /\ state # REJECTED
  <2>1. Item(h, en[i], v)  BY <1>9 DEF Ended
  <2>a. h.state[h.enums[e].promise] = PENDING  BY <1>9
  <2>2. /\ DOMAIN f = {1, 2}
        /\ N.remaining - 1 = Count(L \ {i})
        /\ \A j \in {1, 2} : j \notin L \ {i} => Item(h, en[j], f[j])
        /\ N.remaining - 1 = 0 => \A j \in {1, 2} : Item(h, en[j], f[j])
    <3>1. PlaceSummed(h, e, en, L, i, Placed(h.enums[e].result, i, v))
      BY <2>1, <2>a, PlaceSums
    <3> QED  BY <3>1 DEF f, PlaceSummed
  <2>3. /\ Typed(g) /\ g.state[P] = PENDING /\ g.enums[e].result = f
        /\ g.enums[e].remaining = N.remaining - 1 /\ g.enums[e].promise = P
    BY <1>6, <1>9 DEF FilledBy
  <2>4. CASE N.remaining - 1 = 0
    <3>1. z = fulfill(g, P, f)  BY <1>3, <1>9, <2>4
    <3>2. Settled(g, z, P, FULFILLED, f)  BY <1>1, <2>3, <3>1, fulfillFields
    <3>3. z.state[P] = FULFILLED /\ z.result[P] = f /\ z.enums = g.enums
      <4> HIDE DEF P, N
      <4> QED  BY <1>1, <2>3, <3>2 DEF Settled, Typed, Shape, OthersSame
    <3> QED  BY <1>4, <1>5, <2>2, <2>3, <2>4, <3>3, Zenon DEF SumsTo, Summed
  <2>5. CASE N.remaining - 1 # 0
    <3>1. z = g  BY <1>3, <1>9, <2>5
    <3> QED  BY <1>4, <1>5, <2>2, <2>3, <2>5, <3>1, Zenon DEF SumsTo, Summed
  <2> QED  BY <2>4, <2>5
<1> QED  BY <1>7, <1>8, <1>9

-----------------------------------------------------------------------------
(* Steps that settle only what somebody else settles                       *)

LEMMA FinalStays ==
  ASSUME NEW h, NEW a, NEW t, NEW l, NEW g, NEW b, NEW u, NEW m, NEW D, NEW U,
         Moves(h, a, t, l, g, b, u, m, D, U), \A x : Alone(h, l, x) => x \notin D,
         NEW r, r.parent \in Promises, r.child \in Promises, NEW C, FinallyOK(h, a, t, l, r, C),
         NEW E, Called(C, r.child) <=> Called(E, r.child)
  PROVE  FinallyOK(g, b, u, m, r, E)
<1>1. Kept(h, g)  BY DEF Moves
<1>2. CASE Foreign(h, r.parent)  BY <1>1, <1>2, RepeatsStays DEF FinallyOK
<1>3. CASE Called(C, r.child) /\ Repeats(h, r.child, r.parent)
  BY <1>1, <1>3, RepeatsStays DEF FinallyOK
<1>4. CASE /\ ~Foreign(h, r.parent)
           /\ ~(Called(C, r.child) /\ Repeats(h, r.child, r.parent))
  <2>1. r.child \notin D  BY <1>4 DEF FinallyOK, OwnHand, OnlyLink
  <2>2. \A q \in Promises : Repeater(h, a, t, l, q, r.parent) => Repeater(g, b, u, m, q, r.parent)
    <3> SUFFICES ASSUME NEW q \in Promises, Repeater(h, a, t, l, q, r.parent)
                 PROVE  Repeater(g, b, u, m, q, r.parent)
      OBVIOUS
    <3>1. q \notin D \/ h.state[q] # PENDING
      BY DEF Repeater, Repeats, FULFILLED, REJECTED, PENDING
    <3> QED  BY <3>1, RepeaterStays
  <2> QED  BY <2>1, <2>2, FinallyStays
<1> QED  BY <1>2, <1>3, <1>4

LEMMA FinalsStay ==
  ASSUME NEW h, Typed(h), NEW a, NEW t, NEW l, NEW g, NEW b, NEW u, NEW m, NEW D, NEW U,
         Moves(h, a, t, l, g, b, u, m, D, U), \A x : Alone(h, l, x) => x \notin D,
         NEW R, Reacted(h, R), NEW C, Finals(h, a, t, l, R, C)
  PROVE  Finals(g, b, u, m, R, C)
<1> SUFFICES ASSUME NEW n \in DOMAIN R, R[n].ok.k = "finally"
             PROVE  FinallyOK(g, b, u, m, R[n], C)
  BY DEF Finals
<1>1. R[n].parent \in Promises /\ R[n].child \in Promises  BY DEF Reacted, Typed, Made
<1>2. FinallyOK(h, a, t, l, R[n], C)  BY DEF Finals
<1> QED  BY <1>1, <1>2, FinalStays

LEMMA MirrorsStay ==
  ASSUME NEW h, NEW a, NEW t, NEW l, NEW g, NEW b, NEW u, NEW m, NEW D,
         Moves(h, a, t, l, g, b, u, m, D, {}), \A x : Alone(h, l, x) => x \notin D
  PROVE  \A y \in Promises : \A v : Mirror(h, a, t, l, y, v) => Mirror(g, b, u, m, y, v)
<1> SUFFICES ASSUME NEW y \in Promises, NEW v, Mirror(h, a, t, l, y, v)
             PROVE  Mirror(g, b, u, m, y, v)
  OBVIOUS
<1>1. Follows(h, a, t, l, y, v) => y \notin D  BY DEF Follows, OnlyLink
<1> QED  BY <1>1, MirrorStays

LEMMA AllsStay ==
  ASSUME NEW h, NEW a, NEW t, NEW l, NEW g, NEW b, NEW u, NEW m, NEW D,
         Moves(h, a, t, l, g, b, u, m, D, {}),
         \A x \in h.made : ~Elsewhere(h, l, x) => x \notin D,
         NEW A, Alls(h, a, t, l, A), DOMAIN g.enums = DOMAIN h.enums,
         \A e \in DOMAIN A : SameTurn(l, m, e)
  PROVE  Alls(g, b, u, m, A)
<1>1. \A x : Alone(h, l, x) => x \notin D  BY DEF Alone
<1>2. \A y \in Promises : \A v : Mirror(h, a, t, l, y, v) => Mirror(g, b, u, m, y, v)
  BY <1>1, MirrorsStay
<1>3. ASSUME NEW e \in DOMAIN A PROVE AllOK(g, b, u, m, e, A[e])
  <2>1. AllOK(h, a, t, l, e, A[e])  BY DEF Alls
  <2>2. A[e].promise \notin D  BY <2>1 DEF AllOK, Private
  <2> QED  BY <1>2, <1>3, <2>1, <2>2, AllStays
<1> QED  BY <1>3 DEF Alls

LEMMA CombinedStays ==
  ASSUME NEW h, Typed(h), NEW a, NEW t, NEW l, NEW g, NEW b, NEW u, NEW m, NEW D,
         Moves(h, a, t, l, g, b, u, m, D, {}),
         \A x \in h.made : ~Elsewhere(h, l, x) => x \notin D,
         NEW R, Reacted(h, R), NEW C, NEW A, Combined(h, a, t, l, R, C, A),
         DOMAIN g.enums = DOMAIN h.enums, \A e \in DOMAIN A : SameTurn(l, m, e), LoopMade(g, m)
  PROVE  Combined(g, b, u, m, R, C, A)
<1>1. \A x : Alone(h, l, x) => x \notin D  BY DEF Alone
<1>2. Finals(g, b, u, m, R, C)  BY <1>1, FinalsStay DEF Combined
<1>3. Alls(g, b, u, m, A)  BY AllsStay DEF Combined
<1> QED  BY <1>2, <1>3 DEF Combined, Moves

-----------------------------------------------------------------------------
(* A step of flush uses a hand up, and calls what it holds                 *)

\* A reaction has one hand.
LEMMA OneHand ==
  ASSUME NEW h, NEW a, NEW t, NEW R, NEW C, World(h, a, t, R, C), NEW n \in DOMAIN R
  PROVE  /\ \A q, r : OfJob(h, a, q, R[n]) /\ OfJob(h, a, r, R[n]) => q = r
         /\ \A p, y \in Promises : \A k, i : OfSub(h, p, k, R[n]) /\ OfSub(h, y, i, R[n]) => p = y /\ k = i
         /\ \A p \in Promises : \A k, q : ~(OfSub(h, p, k, R[n]) /\ OfJob(h, a, q, R[n]))
<1>1. Typed(h) /\ IsSeq(R)  BY WorldTyped
<1>2. n \in Nat
  <2>1. Len(R) \in Nat /\ DOMAIN R = 1 .. Len(R)  BY <1>1, SeqFacts
  <2> QED  BY <2>1
<1>3. ASSUME NEW q, NEW r, OfJob(h, a, q, R[n]), OfJob(h, a, r, R[n]) PROVE q = r
  <2>1. q \in DOMAIN h.queue /\ r \in DOMAIN h.queue  BY <1>3 DEF OfJob, Awaits
  <2>2. q \in Nat /\ r \in Nat  BY <1>1, <2>1, JobIndex
  <2>3. ~(q < r) /\ ~(r < q)  BY <1>2, <1>3 DEF World, JobsOrdered
  <2> QED  BY <2>2, <2>3
<1>4. ASSUME NEW p \in Promises, NEW y \in Promises, NEW k, NEW i,
             OfSub(h, p, k, R[n]), OfSub(h, y, i, R[n])
      PROVE  p = y /\ k = i
  <2>1. p = y /\ k \in DOMAIN h.subscribers[p] /\ i \in DOMAIN h.subscribers[p]
    BY <1>4 DEF OfSub
  <2>2. k \in Nat /\ i \in Nat  BY <1>1, <2>1, SubIndex
  <2>3. ~(k < i) /\ ~(i < k)  BY <1>2, <1>4, <2>1 DEF World, SubsOrdered
  <2> QED  BY <2>1, <2>2, <2>3
<1>5. ASSUME NEW p \in Promises, NEW k, NEW q, OfSub(h, p, k, R[n]), OfJob(h, a, q, R[n])
      PROVE  FALSE
  <2>1. R[n].parent = p  BY <1>5 DEF OfSub
  <2> QED  BY <1>2, <1>5, <2>1 DEF World, SubsFirst
<1> QED  BY <1>3, <1>4, <1>5

LEMMA FinalRuns ==
  ASSUME NEW h, NEW a, NEW t, NEW l, NEW g, NEW b, NEW u, NEW m, NEW D, NEW U,
         Moves(h, a, t, l, g, b, u, m, D, U), LinksRun(h, a, t, l, g, D), RepeatsRun(h, a, t, l, g, D),
         NEW r, r.parent \in Promises, r.child \in Promises, NEW C, NEW E,
         OwnRuns(h, a, t, l, g, b, u, m, D, r, C, E), Called(C, r.child) => Called(E, r.child),
         FinallyOK(h, a, t, l, r, C)
  PROVE  FinallyOK(g, b, u, m, r, E)
<1>1. Kept(h, g)  BY DEF Moves
<1>2. CASE ~Called(C, r.child) /\ OwnHand(h, a, t, l, r)
  <2>1. CASE r.child \in D  BY <1>2, <2>1 DEF OwnRuns
  <2>2. CASE r.child \notin D
    <3>1. ~Called(E, r.child)  BY <1>2, <2>2 DEF OwnRuns
    <3>2. OwnHand(g, b, u, m, r)  BY <1>2, <2>2, OwnHandStays
    <3> QED  BY <3>1, <3>2 DEF FinallyOK
  <2> QED  BY <2>1, <2>2
<1>3. CASE Foreign(h, r.parent)  BY <1>1, <1>3, RepeatsStays DEF FinallyOK
<1>4. CASE Called(C, r.child) /\ Repeats(h, r.child, r.parent)
  BY <1>1, <1>4, RepeatsStays DEF FinallyOK
<1>5. CASE /\ Called(C, r.child)
           /\ \E q \in Promises : /\ q # r.child /\ OnlyLink(h, a, t, l, r.child, q)
                                  /\ Repeater(h, a, t, l, q, r.parent)
  <2> SUFFICES ASSUME ~Foreign(h, r.parent) PROVE FinallyOK(g, b, u, m, r, E)
    BY <1>3
  <2>1. PICK q \in Promises : /\ q # r.child /\ OnlyLink(h, a, t, l, r.child, q)
                              /\ Repeater(h, a, t, l, q, r.parent)
    BY <1>5
  <2>2. CASE r.child \in D
    <3>1. h.state[q] # PENDING /\ (Foreign(h, q) \/ Same(g, r.child, q))
      BY <2>1, <2>2 DEF LinksRun
    <3>2. Repeats(h, q, r.parent)  BY <2>1, <3>1 DEF Repeater
    <3>3. ~Foreign(h, q)  BY <3>2 DEF Foreign, Repeats, FULFILLED, REJECTED
    <3>4. Repeats(g, q, r.parent)  BY <1>1, <3>2, RepeatsStays
    <3>5. Repeats(g, r.child, r.parent)  BY <3>1, <3>3, <3>4 DEF Repeats, Same
    <3> QED  BY <1>5, <3>5 DEF FinallyOK
  <2>3. CASE r.child \notin D
    <3>1. OnlyLink(g, b, u, m, r.child, q)  BY <2>1, <2>3, OnlyLinkStays
    <3>2. Repeater(g, b, u, m, q, r.parent)
      <4>1. CASE h.state[q] = PENDING /\ q \in D  BY <2>1, <4>1 DEF RepeatsRun, Repeater
      <4>2. CASE ~(h.state[q] = PENDING /\ q \in D)  BY <2>1, <4>2, RepeaterStays
      <4> QED  BY <4>1, <4>2
    <3> QED  BY <1>5, <2>1, <3>1, <3>2 DEF FinallyOK
  <2> QED  BY <2>2, <2>3
<1> QED  BY <1>2, <1>3, <1>4, <1>5 DEF FinallyOK

LEMMA FinalsRun ==
  ASSUME NEW h, Typed(h), NEW a, NEW t, NEW l, NEW g, NEW b, NEW u, NEW m, NEW D, NEW U,
         Moves(h, a, t, l, g, b, u, m, D, U), LinksRun(h, a, t, l, g, D), RepeatsRun(h, a, t, l, g, D),
         NEW R, Reacted(h, R), NEW C, NEW E, \A x : Called(C, x) => Called(E, x),
         \A n \in DOMAIN R : R[n].ok.k = "finally" =>
            OwnRuns(h, a, t, l, g, b, u, m, D, R[n], C, E),
         Finals(h, a, t, l, R, C)
  PROVE  Finals(g, b, u, m, R, E)
<1> SUFFICES ASSUME NEW n \in DOMAIN R, R[n].ok.k = "finally"
             PROVE  FinallyOK(g, b, u, m, R[n], E)
  BY DEF Finals
<1>1. R[n].parent \in Promises /\ R[n].child \in Promises  BY DEF Reacted, Typed, Made
<1>2. FinallyOK(h, a, t, l, R[n], C)  BY DEF Finals
<1> QED  BY <1>1, <1>2, FinalRuns

\* Whoever follows the subscriber's promise is settled by the call.
LEMMA MirrorsRun ==
  ASSUME NEW h, NEW a, NEW t, NEW l, NEW g, NEW b, NEW u, NEW m, NEW D, NEW U,
         Moves(h, a, t, l, g, b, u, m, D, U), LinksRun(h, a, t, l, g, D),
         \A y, x \in Promises : \A k : <<y, k>> \in U /\ h.subscribers[y][k] = Link(x) => x \in D
  PROVE  \A y \in Promises : \A v : Mirror(h, a, t, l, y, v) => Mirror(g, b, u, m, y, v)
<1> SUFFICES ASSUME NEW y \in Promises, NEW v, Mirror(h, a, t, l, y, v)
             PROVE  Mirror(g, b, u, m, y, v)
  OBVIOUS
<1>0. Kept(h, g)  BY DEF Moves
<1>1. ASSUME v \in Promises, Follows(h, a, t, l, y, v), y \in D
      PROVE  Mirror(g, b, u, m, y, v)
  <2>1. Foreign(h, v) \/ Same(g, y, v)  BY <1>1 DEF LinksRun, Follows
  <2>2. Foreign(h, v) => Foreign(g, v)  BY <1>0, <1>1, RepeatsStays
  <2> QED  BY <1>1, <2>1, <2>2 DEF Mirror, Gave
<1>2. ASSUME v \in Promises, y \notin D
      PROVE  \A k : Unserved(h, a, t, v, k) /\ h.subscribers[v][k] = Link(y) => <<v, k>> \notin U
  BY <1>2
<1> QED  BY <1>1, <1>2, MirrorStays

LEMMA AwaitsSame ==
  ASSUME NEW h, NEW a, NEW t, NEW l, NEW e, NEW g,
         \A i, k : \A x \in Promises : AwaitAt(g, a, t, e, i, x, k) <=> AwaitAt(h, a, t, e, i, x, k)
  PROVE  /\ Lefts(g, a, t, l, e) = Lefts(h, a, t, l, e)
         /\ Placing(h, a, t, l, e) => Placing(g, a, t, l, e)
<1>1. \A i : Await(g, a, t, e, i) <=> Await(h, a, t, e, i)  BY DEF Await
<1>2. Lefts(g, a, t, l, e) = Lefts(h, a, t, l, e)  BY <1>1 DEF Lefts
<1> QED  BY <1>1, <1>2 DEF Placing

\* The place i, which is left, is filled, and what waited for it does no longer.
LEMMA PlaceFills ==
  ASSUME NEW h, Typed(h), Sane(h), ArraysApart, NEW a, NEW t, Flow(h, a, t), NEW l,
         NEW e \in DOMAIN h.enums, NEW state, NEW i \in {1, 2}, NEW v, NEW x,
         Serves(h, l, e, x), Private(h, a, t, l, e, x.promise), Placing(h, a, t, l, e),
         Mirrors(h, a, t, l, e, x.entries), NEW L, i \in L, L \ {i} = Lefts(h, a, t, l, e),
         Summed(h, l, e, x.entries, L), Ended(h, x.entries[i], state, v)
  PROVE  AllOK(settledAt(h, e, state, i, v), a, t, l, e, x)
<1> DEFINE g == settledAt(h, e, state, i, v)
           P == h.enums[e].promise
           M == L \ {i}
<1>1. DOMAIN h.enums[e].result = {1, 2} /\ P = x.promise  BY DEF Serves
<1>2. Spares(h, g, {P}) /\ Hushed(h, g)  BY settledAtSpares, settledAtHushed
<1>3. Summed(g, l, e, x.entries, M) /\ DOMAIN g.enums[e].result = {1, 2} /\ g.enums[e].promise = P
  <2>1. DOMAIN h.enums[e].result = {1, 2}  BY <1>1
  <2>2. SumsTo(g, e, x.entries, M, P)  BY <2>1, settledAtSums
  <2> QED  BY <2>2 DEF SumsTo
<1> HIDE DEF g
<1>4. Serves(g, l, e, x)
  <2>1. e \in DOMAIN g.enums  BY <1>2 DEF Hushed
  <2> QED  BY <1>1, <1>3, <2>1 DEF Serves
<1>5. Extends(h.queue, g.queue)  BY <1>2 DEF Spares, Grows
<1>6. /\ Private(g, a, t, l, e, x.promise)
      /\ \A j, k : \A y \in Promises : AwaitAt(g, a, t, e, j, y, k) <=> AwaitAt(h, a, t, e, j, y, k)
  BY <1>2, <1>5, HushedStays
<1>7. Lefts(g, a, t, l, e) = M /\ Placing(g, a, t, l, e)  BY <1>6, AwaitsSame
<1>8. Moves(h, a, t, l, g, a, t, l, {P}, {})  BY <1>2, CallMoves
<1>9. \A y : Alone(h, l, y) => y \notin {P}  BY DEF Alone
<1>10. \A y \in Promises : \A w : Mirror(h, a, t, l, y, w) => Mirror(g, a, t, l, y, w)
  BY <1>8, <1>9, MirrorsStay
<1>11. Mirrors(g, a, t, l, e, x.entries)  BY <1>6, <1>10 DEF Mirrors
<1> HIDE DEF P, M
<1>12. AllOK(g, a, t, l, e, x)  BY <1>3, <1>4, <1>6, <1>7, <1>11 DEF AllOK
<1> QED  BY <1>12 DEF g

\* After the turn t of publish.
LEMMA TurnServes ==
  ASSUME NEW h, Typed(h), NEW a, NEW t \in Nat \ {0}, NEW p \in Promises, h.queue[a] = Publish(p),
         NEW x \in Promises, NEW k
  PROVE  Unserved(h, a, t + 1, x, k) <=> Unserved(h, a, t, x, k) /\ ~(x = p /\ k = t)
<1>1. k \in DOMAIN h.subscribers[x] => k \in Nat  BY SubIndex
<1>2. Publish(x) = Publish(p) <=> x = p  BY DEF Publish
<1> QED  BY <1>1, <1>2 DEF Unserved, Served

\* publish calls what fills a place.
LEMMA CollectRun ==
  ASSUME NEW h, Typed(h), Sane(h), ArraysApart, NEW a, NEW t, Flow(h, a, t), NEW l,
         NEW p \in Promises, h.queue[a] = Publish(p), a \in DOMAIN h.queue, h.state[p] # PENDING,
         t \in DOMAIN h.subscribers[p], NEW e \in DOMAIN h.enums, NEW i \in {1, 2},
         h.subscribers[p][t] = Collect(e, i), NEW x, AllOK(h, a, t, l, e, x)
  PROVE  AllOK(settledAt(h, e, h.state[p], i, h.result[p]), a, t + 1, l, e, x)
<1> DEFINE L == Lefts(h, a, t, l, e)
<1>0. t \in Nat \ {0}  BY DEF Flow
<1>1. /\ Serves(h, l, e, x) /\ Private(h, a, t, l, e, x.promise) /\ Placing(h, a, t, l, e)
      /\ Mirrors(h, a, t, l, e, x.entries) /\ Summed(h, l, e, x.entries, L)
  BY DEF AllOK
<1>2. Moves(h, a, t, l, h, a, t + 1, l, {}, {<<p, t>>})  BY <1>0, ServeMoves
<1>3. Flow(h, a, t + 1)
  <2>1. Publish(p).promise = p /\ Publish(p).k = "publish"  BY DEF Publish
  <2>2. Len(h.subscribers[p]) \in Nat /\ DOMAIN h.subscribers[p] = 1 .. Len(h.subscribers[p])
    BY SeqFacts DEF Typed, Subscribers
  <2> QED  BY <1>0, <2>1, <2>2 DEF Flow
<1>4. AwaitAt(h, a, t, e, i, p, t)  BY <1>0 DEF AwaitAt, Unserved, Served
<1>5. Ended(h, x.entries[i], h.state[p], h.result[p])
  <2>1. Mirror(h, a, t, l, p, x.entries[i])  BY <1>1, <1>4 DEF Mirrors
  <2>2. ~Follows(h, a, t, l, p, x.entries[i])  BY DEF Follows, OnlyLink
  <2>3. h.state[p] \in {FULFILLED, REJECTED}  BY DEF Typed
  <2> QED  BY <2>1, <2>2, <2>3 DEF Mirror, Ended, Blamed, Item, Same
<1>6. \A j, k : \A y \in Promises :
         AwaitAt(h, a, t + 1, e, j, y, k) <=> AwaitAt(h, a, t, e, j, y, k) /\ ~(y = p /\ k = t)
  BY <1>0, TurnServes DEF AwaitAt
<1>7. Placing(h, a, t + 1, l, e)
  <2>1. \A j : Await(h, a, t + 1, e, j) => Await(h, a, t, e, j)  BY <1>6 DEF Await
  <2> QED  BY <1>1, <1>6, <2>1 DEF Placing
<1>8. L \ {i} = Lefts(h, a, t + 1, l, e) /\ i \in L
  <2>1. \A j : AwaitAt(h, a, t, e, j, p, t) => j = i
    <3>1. \A j : Collect(e, i) = Collect(e, j) => j = i
      <4>1. \A j : Collect(e, j).ok.i = j  BY DEF Collect
      <4> QED  BY <4>1
    <3> QED  BY <3>1 DEF AwaitAt
  <2>2. ~Await(h, a, t + 1, e, i)
    BY <1>1, <1>4, <1>6 DEF Await, Placing
  <2>3. Await(h, a, t, e, i)  BY <1>4 DEF Await
  <2>4. ~Todo(l, e, i)  BY <1>1, <2>3 DEF Placing
  <2>5. \A j : j # i => (Await(h, a, t + 1, e, j) <=> Await(h, a, t, e, j))
    BY <1>6, <2>1 DEF Await
  <2> QED  BY <2>2, <2>3, <2>4, <2>5 DEF Lefts
<1>9. Private(h, a, t + 1, l, e, x.promise)  BY <1>1, <1>2, PrivateStays
<1>10. Mirrors(h, a, t + 1, l, e, x.entries)
  <2>1. LinksRun(h, a, t, l, h, {})  BY DEF LinksRun
  <2>2. \A y, z \in Promises : \A k : <<y, k>> \in {<<p, t>>} /\ h.subscribers[y][k] = Link(z) => z \in {}
    BY LinkFacts
  <2>3. \A y \in Promises : \A v : Mirror(h, a, t, l, y, v) => Mirror(h, a, t + 1, l, y, v)
    BY <1>2, <2>1, <2>2, MirrorsRun
  <2> QED  BY <1>1, <1>6, <2>3 DEF Mirrors
<1> HIDE DEF L
<1> QED  BY <1>1, <1>3, <1>5, <1>7, <1>8, <1>9, <1>10, PlaceFills

-----------------------------------------------------------------------------
(* A turn of the loop of `all'                                             *)

LEMMA TurnLefts ==
  ASSUME NEW l, NEW m, NEW e, NEW i, i \in {1, 2}, NextTurn(l, m, e, i)
  PROVE  \A j \in {1, 2} : Todo(m, e, j) <=> Todo(l, e, j) /\ j # i
BY DEF NextTurn, Todo

\* Nothing but the turn has changed.
LEMMA TurnPasses ==
  ASSUME NEW h, Typed(h), Sane(h), NEW a \in Nat, NEW l, NEW m, NEW e, NEW i, i \in {1, 2},
         NextTurn(l, m, e, i), NEW x, AllOK(h, a, 1, l, e, x)
  PROVE  /\ Serves(h, m, e, x) /\ Private(h, a, 1, m, e, x.promise) /\ Placing(h, a, 1, m, e)
         /\ Mirrors(h, a, 1, m, e, x.entries)
         /\ Summed(h, m, e, x.entries, Lefts(h, a, 1, l, e))
         /\ i \in Lefts(h, a, 1, l, e)
         /\ Lefts(h, a, 1, l, e) \ {i} = Lefts(h, a, 1, m, e)
         /\ ~Await(h, a, 1, e, i)
<1>1. /\ Serves(h, l, e, x) /\ Private(h, a, 1, l, e, x.promise) /\ Placing(h, a, 1, l, e)
      /\ Mirrors(h, a, 1, l, e, x.entries) /\ Summed(h, l, e, x.entries, Lefts(h, a, 1, l, e))
  BY DEF AllOK
<1>2. l.k = "all" /\ m.k = "all" /\ OnTurn(l, e) /\ OnTurn(m, e) /\ m.entries = l.entries
  BY DEF NextTurn, OnTurn
<1>3. Moves(h, a, 1, l, h, a, 1, m, {}, {})
  <2>1. m.k # "race"  BY <1>2
  <2> QED  BY <2>1, PassMoves
<1>4. \A j \in {1, 2} : Todo(m, e, j) <=> Todo(l, e, j) /\ j # i  BY TurnLefts
<1>5. Todo(l, e, i) /\ ~Await(h, a, 1, e, i)
  <2>1. i >= l.i  BY DEF NextTurn
  <2> QED  BY <1>1, <1>2, <2>1 DEF Todo, Placing
<1>6. Serves(h, m, e, x) /\ Summed(h, m, e, x.entries, Lefts(h, a, 1, l, e))
  BY <1>1, <1>2 DEF Serves, Summed
<1>7. Private(h, a, 1, m, e, x.promise)  BY <1>1, <1>2 DEF Private, Elsewhere
<1>8. Placing(h, a, 1, m, e)  BY <1>1, <1>4 DEF Placing
<1>9. \A y : Alone(h, l, y) => y \notin {}  OBVIOUS
<1>10. Mirrors(h, a, 1, m, e, x.entries)
  <2>1. \A y \in Promises : \A v : Mirror(h, a, 1, l, y, v) => Mirror(h, a, 1, m, y, v)
    BY <1>3, <1>9, MirrorsStay
  <2> QED  BY <1>1, <2>1 DEF Mirrors
<1>11. i \in Lefts(h, a, 1, l, e) /\ Lefts(h, a, 1, l, e) \ {i} = Lefts(h, a, 1, m, e)
  BY <1>4, <1>5 DEF Lefts
<1> QED  BY <1>5, <1>6, <1>7, <1>8, <1>10, <1>11

\* The entry is settled.
LEMMA TurnSettled ==
  ASSUME NEW h, Typed(h), Sane(h), ArraysApart, NEW a \in Nat, Flow(h, a, 1), NEW l, NEW m, NEW e,
         NEW i, i \in {1, 2}, NextTurn(l, m, e, i), NEW x, AllOK(h, a, 1, l, e, x),
         x.entries[i] \in Promises, h.state[x.entries[i]] # PENDING
  PROVE  AllOK(settledAt(h, e, h.state[x.entries[i]], i, h.result[x.entries[i]]), a, 1, m, e, x)
<1> DEFINE v == x.entries[i]
           L == Lefts(h, a, 1, l, e)
<1>1. /\ Serves(h, m, e, x) /\ Private(h, a, 1, m, e, x.promise) /\ Placing(h, a, 1, m, e)
      /\ Mirrors(h, a, 1, m, e, x.entries) /\ Summed(h, m, e, x.entries, L)
      /\ i \in L /\ L \ {i} = Lefts(h, a, 1, m, e)
  BY TurnPasses
<1>2. e \in DOMAIN h.enums  BY <1>1 DEF Serves
<1>3. Ended(h, v, h.state[v], h.result[v])  BY DEF Typed, Ended, Blamed, Item
<1> HIDE DEF v, L
<1>4. AllOK(settledAt(h, e, h.state[v], i, h.result[v]), a, 1, m, e, x)
  BY <1>1, <1>2, <1>3, PlaceFills DEF v
<1> QED  BY <1>4 DEF v

\* The entry is a plain value.
LEMMA TurnPlain ==
  ASSUME NEW h, Typed(h), Sane(h), NEW a \in Nat, Flow(h, a, 1), NEW l, NEW m, NEW e,
         NEW i, i \in {1, 2}, NextTurn(l, m, e, i), NEW x, AllOK(h, a, 1, l, e, x),
         x.entries[i] \notin Promises
  PROVE  AllOK(Filled(h, e, h.enums[e].remaining - 1, Placed(h.enums[e].result, i, x.entries[i])),
               a, 1, m, e, x)
<1> DEFINE N == h.enums[e]
           P == N.promise
           v == x.entries[i]
           f == Placed(N.result, i, v)
           g == Filled(h, e, N.remaining - 1, f)
           L == Lefts(h, a, 1, l, e)
<1>1. /\ Serves(h, m, e, x) /\ Private(h, a, 1, m, e, x.promise) /\ Placing(h, a, 1, m, e)
      /\ Mirrors(h, a, 1, m, e, x.entries) /\ Summed(h, m, e, x.entries, L)
      /\ i \in L /\ L \ {i} = Lefts(h, a, 1, m, e)
  BY TurnPasses
<1>2. e \in DOMAIN h.enums /\ P = x.promise /\ DOMAIN N.result = {1, 2}  BY <1>1 DEF Serves
<1>3. IsSeq(f) /\ DOMAIN f = {1, 2}
  <2>1. IsSeq(N.result)  BY <1>2 DEF Sane, SaneEnum
  <2>2. IsSeq(f)  BY <2>1, SeqExcept DEF Placed
  <2> QED  BY <1>2, <2>2 DEF Placed
<1>4. h.state[P] = PENDING =>
         /\ N.remaining - 1 = Count(L \ {i})
         /\ \A j \in {1, 2} : j \notin L \ {i} => Item(h, x.entries[j], f[j])
  <2>1. Item(h, x.entries[i], v)  BY DEF Item
  <2> HIDE DEF v, L
  <2>2. h.state[P] = PENDING => PlaceSummed(h, e, x.entries, L, i, f)  BY <1>1, <1>2, <2>1, PlaceSums
  <2> QED  BY <2>2 DEF PlaceSummed
<1> HIDE DEF f
<1>5. FilledBy(h, g, e, N.remaining - 1, f) /\ Hushed(h, g)
  BY <1>2, <1>3, FilledFacts, FilledHushed
<1> HIDE DEF g
<1>6. /\ Spares(h, g, {P}) /\ Kept(h, g) /\ g.state = h.state /\ g.result = h.result
      /\ DOMAIN g.enums = DOMAIN h.enums /\ g.enums[e].promise = P
      /\ g.enums[e].remaining = N.remaining - 1 /\ g.enums[e].result = f
      /\ Extends(h.queue, g.queue)
  BY <1>5 DEF FilledBy, Spares, Grows
<1>7. Serves(g, m, e, x)  BY <1>1, <1>3, <1>6 DEF Serves
<1>8. /\ Private(g, a, 1, m, e, x.promise)
      /\ \A j, k : \A y \in Promises : AwaitAt(g, a, 1, e, j, y, k) <=> AwaitAt(h, a, 1, e, j, y, k)
  BY <1>1, <1>5, <1>6, HushedStays
<1>9. Lefts(g, a, 1, m, e) = L \ {i} /\ Placing(g, a, 1, m, e)
  BY <1>1, <1>8, AwaitsSame
<1>10. Moves(h, a, 1, m, g, a, 1, m, {P}, {})  BY <1>6, CallMoves
<1>11. \A y : Alone(h, m, y) => y \notin {P}  BY <1>2 DEF Alone
<1>12. \A y \in Promises : \A w : Mirror(h, a, 1, m, y, w) => Mirror(g, a, 1, m, y, w)
  BY <1>10, <1>11, MirrorsStay
<1>13. Mirrors(g, a, 1, m, e, x.entries)  BY <1>1, <1>8, <1>12 DEF Mirrors
<1>14. Summed(g, m, e, x.entries, L \ {i})
  <2>1. /\ \A w, y : Item(h, w, y) => Item(g, w, y)
        /\ \A en, w : Failing(h, en, w) => Failing(g, en, w)
    BY <1>6, ItemStays
  <2>2. OnTurn(m, e)  BY DEF NextTurn
  <2> HIDE DEF L, v
  <2> QED  BY <1>1, <1>4, <1>6, <2>1, <2>2 DEF Summed
<1>15. AllOK(g, a, 1, m, e, x)  BY <1>7, <1>8, <1>9, <1>13, <1>14 DEF AllOK
<1> QED  BY <1>15 DEF g, f

\* The same places.
LEMMA SamePlaces ==
  ASSUME NEW L, NEW M, L \subseteq {1, 2}, M \subseteq {1, 2}, \A j \in {1, 2} : j \in L <=> j \in M
  PROVE  L = M
<1>1. \A j : j \in L <=> j \in M  OBVIOUS
<1> QED  BY <1>1

\* What a subscriber more of c leaves and adds, when no list is half served.
LEMMA SubscribedAwaits ==
  ASSUME NEW h, Typed(h), NEW a, NEW c \in Promises, NEW s, SubscriberOK(h, s), NEW g,
         Subscribed(h, g, c, s)
  PROVE  OneMore(h, g, a, c, s)
<1> DEFINE z == Len(h.subscribers[c]) + 1
<1>1. /\ Typed(g)
      /\ \A q \in Promises : Extends(h.subscribers[q], g.subscribers[q])
      /\ \A q \in Promises : q # c => g.subscribers[q] = h.subscribers[q]
      /\ DOMAIN g.subscribers[c] \ DOMAIN h.subscribers[c] = {z}
      /\ g.subscribers[c][z] = s
  BY SubscribedFacts
<1>2. \A y \in Promises : \A n : Unserved(h, a, 1, y, n) <=> n \in DOMAIN h.subscribers[y]
  BY FirstTurnServed
<1>3. \A y \in Promises : \A n : Unserved(g, a, 1, y, n) <=> n \in DOMAIN g.subscribers[y]
  BY <1>1, FirstTurnServed
<1> HIDE DEF z
<1>4. \A y \in Promises : \A n : n \in DOMAIN g.subscribers[y] <=>
         n \in DOMAIN h.subscribers[y] \/ (y = c /\ n = z)
  BY <1>1 DEF Extends
<1>5. z \in DOMAIN g.subscribers[c] /\ z \notin DOMAIN h.subscribers[c]  BY <1>1
<1>6. \A y \in Promises : \A n \in DOMAIN h.subscribers[y] :
         ~(y = c /\ n = z) /\ g.subscribers[y][n] = h.subscribers[y][n]
  BY <1>1, <1>5 DEF Extends
<1> QED  BY <1>1, <1>2, <1>3, <1>4, <1>5, <1>6 DEF OneMore

\* The enumerator waits for c, which is settled as the entry is.
LEMMA PlaceWaits ==
  ASSUME NEW h, Typed(h), Sane(h), NEW a \in Nat, Flow(h, a, 1), NEW l, NEW m, NEW e,
         NEW i, i \in {1, 2}, NextTurn(l, m, e, i), NEW x, AllOK(h, a, 1, l, e, x),
         NEW c \in Promises, h.state[c] = PENDING, Mirror(h, a, 1, l, c, x.entries[i]),
         NEW g, Subscribed(h, g, c, Collect(e, i)), Spares(h, g, {x.promise})
  PROVE  AllOK(g, a, 1, m, e, x)
<1> DEFINE P == x.promise
           L == Lefts(h, a, 1, l, e)
<1>1. /\ Serves(h, m, e, x) /\ Private(h, a, 1, m, e, P) /\ Placing(h, a, 1, m, e)
      /\ Mirrors(h, a, 1, m, e, x.entries) /\ Summed(h, m, e, x.entries, L)
      /\ i \in L /\ L \ {i} = Lefts(h, a, 1, m, e) /\ ~Await(h, a, 1, e, i)
  BY TurnPasses
<1>2. e \in DOMAIN h.enums /\ h.enums[e].promise = P /\ P \in Promises
  BY <1>1 DEF Serves, Private
<1>3. /\ SubscriberOK(h, Collect(e, i)) /\ ~SubHand(Collect(e, i), P)
      /\ \A d, j : Collect(e, i) = Collect(d, j) => d = e /\ j = i
  BY <1>2, CollectFacts
<1>0. OneMore(h, g, a, c, Collect(e, i))  BY <1>3, SubscribedAwaits
<1>4. PICK z :
      /\ \A y \in Promises : \A n : Unserved(g, a, 1, y, n) <=>
            Unserved(h, a, 1, y, n) \/ (y = c /\ n = z)
      /\ \A y \in Promises : \A n : Unserved(h, a, 1, y, n) =>
            ~(y = c /\ n = z) /\ g.subscribers[y][n] = h.subscribers[y][n]
      /\ g.subscribers[c][z] = Collect(e, i)
  BY <1>0 DEF OneMore
<1> HIDE DEF L, P
<1>5. \A j, n : \A y \in Promises :
         AwaitAt(g, a, 1, e, j, y, n) <=>
            AwaitAt(h, a, 1, e, j, y, n) \/ (y = c /\ n = z /\ j = i)
  BY <1>3, <1>4 DEF AwaitAt
<1>6. /\ g.made = h.made /\ g.deferred = h.deferred /\ g.foreign = h.foreign /\ g.enums = h.enums
      /\ g.state = h.state /\ g.result = h.result /\ QueueSame(h, g)
  BY DEF Subscribed, OthersSame
<1>7. Serves(g, m, e, x)  BY <1>1, <1>6 DEF Serves
<1>8. Private(g, a, 1, m, e, P)
  <2>1. \A y \in Promises : \A k : Unserved(g, a, 1, y, k) => ~SubHand(g.subscribers[y][k], P)
    BY <1>1, <1>3, <1>4 DEF Private
  <2> QED  BY <1>1, <1>6, <2>1 DEF Private, Elsewhere, Unrun, QueueSame
<1>9. \A j \in {1, 2} : Await(g, a, 1, e, j) <=> Await(h, a, 1, e, j) \/ j = i
  BY <1>5 DEF Await
<1>10. \A j \in {1, 2} : Todo(m, e, j) <=> Todo(l, e, j) /\ j # i  BY TurnLefts
<1>11. Placing(g, a, 1, m, e)
  <2>1. \A j \in {1, 2} : Todo(m, e, j) => ~Await(g, a, 1, e, j)
    BY <1>1, <1>9, <1>10 DEF Placing
  <2>2. ASSUME NEW j \in {1, 2}, NEW y \in Promises, NEW w \in Promises, NEW k, NEW n,
               AwaitAt(g, a, 1, e, j, y, k), AwaitAt(g, a, 1, e, j, w, n)
        PROVE  y = w /\ k = n
    <3>1. CASE j = i
      <4>1. ~AwaitAt(h, a, 1, e, i, y, k) /\ ~AwaitAt(h, a, 1, e, i, w, n)  BY <1>1 DEF Await
      <4> QED  BY <1>5, <2>2, <3>1, <4>1
    <3>2. CASE j # i  BY <1>1, <1>5, <2>2, <3>2 DEF Placing
    <3> QED  BY <3>1, <3>2
  <2> QED  BY <2>1, <2>2 DEF Placing
<1>12. Lefts(g, a, 1, m, e) = L
  <2>1. \A j \in {1, 2} : j \in Lefts(g, a, 1, m, e) <=> j \in Lefts(h, a, 1, m, e) \/ j = i
    BY <1>9 DEF Lefts
  <2>2. L \subseteq {1, 2} /\ Lefts(g, a, 1, m, e) \subseteq {1, 2}  BY DEF L, Lefts
  <2>3. Lefts(h, a, 1, m, e) = L \ {i} /\ i \in L  BY <1>1
  <2>4. \A j \in {1, 2} : j \in Lefts(g, a, 1, m, e) <=> j \in L  BY <2>1, <2>3
  <2> DEFINE M == Lefts(g, a, 1, m, e)
  <2>5. L \subseteq {1, 2} /\ M \subseteq {1, 2} /\ \A j \in {1, 2} : j \in M <=> j \in L
    BY <2>2, <2>4
  <2> HIDE DEF M
  <2>6. \A j : j \in M <=> j \in L  BY <2>5
  <2>7. M = L  BY <2>6
  <2> QED  BY <2>7 DEF M
<1>13. Moves(h, a, 1, l, g, a, 1, m, {P}, {})
  <2>1. Moves(h, a, 1, l, g, a, 1, l, {P}, {})  BY CallMoves DEF P
  <2>2. Typed(g) /\ Sane(g)  BY DEF Spares, Grows
  <2>3. m.k # "race"  BY DEF NextTurn, OnTurn
  <2>4. Moves(g, a, 1, l, g, a, 1, m, {}, {})  BY <2>2, <2>3, PassMoves
  <2>5. Moves(g, a, 1, l, g, a, 1, m, {P}, {})  BY <2>4, MovesMore
  <2> QED  BY <2>1, <2>5, MovesTrans
<1>14. \A y : Alone(h, l, y) => y \notin {P}  BY <1>2 DEF Alone
<1>15. \A y \in Promises : \A w : Mirror(h, a, 1, l, y, w) => Mirror(g, a, 1, m, y, w)
  BY <1>13, <1>14, MirrorsStay
<1>16. Mirrors(g, a, 1, m, e, x.entries)
  <2>1. Mirrors(h, a, 1, l, e, x.entries)  BY DEF AllOK
  <2> QED  BY <1>5, <1>15, <2>1 DEF Mirrors
<1>17. Summed(g, m, e, x.entries, L)
  <2>1. Kept(h, g)  BY DEF Spares, Grows
  <2>2. /\ \A w, y : Item(h, w, y) => Item(g, w, y)
        /\ \A en, w : Failing(h, en, w) => Failing(g, en, w)
    BY <2>1, ItemStays
  <2> QED  BY <1>1, <1>6, <2>2 DEF Summed
<1> QED  BY <1>7, <1>8, <1>11, <1>12, <1>16, <1>17 DEF AllOK, P

LEMMA CalmFlow ==
  ASSUME NEW h, Typed(h), NEW a, Flow(h, a, 1), NEW g, Calm(h, g)
  PROVE  Flow(g, a, 1)
<1>1. /\ Len(h.queue) \in Nat /\ DOMAIN h.queue = 1 .. Len(h.queue)
      /\ Len(g.queue) \in Nat /\ DOMAIN g.queue = 1 .. Len(g.queue)
  BY SeqFacts DEF Calm, Typed, Jobs
<1>2. DOMAIN h.queue \subseteq DOMAIN g.queue  BY DEF Calm, NewJobs, Extends
<1>3. Len(h.queue) <= Len(g.queue)  BY <1>1, <1>2
<1> QED  BY <1>1, <1>3 DEF Flow, Calm, NewJobs

\* The promise that is made for an entry that is not settled follows it.
LEMMA EntryFollowed ==
  ASSUME NEW h, Typed(h), Sane(h), Room(h, 1), NEW a \in Nat, Flow(h, a, 1),
         NEW l, l.k # "race", NEW v,
         \/ v \in Promises /\ h.state[v] = PENDING /\ v \in h.made
         \/ v \notin Promises /\ v \in Thenables,
         NEW c, c = NewPromise(h), NEW k, k = handleMaybeThenable(makePromise(h), c, v)
  PROVE  /\ Spares(h, k, {}) /\ Flow(k, a, 1) /\ c \in Promises /\ k.state[c] = PENDING
         /\ Mirror(k, a, 1, l, c, v)
<1> DEFINE f == makePromise(h)
<1>1. /\ c \in Promises /\ c \notin h.made /\ c \in f.made /\ Typed(f) /\ Sane(f)
      /\ h.state[c] = PENDING
  BY NewIsSpare
<1>2. Spares(h, f, {})  BY makeSpares
<1>3. Quietly(h, f, 1)  BY makeCalm
<1>4. /\ HeapFields \subseteq DOMAIN f
      /\ f.made = h.made \cup {c} /\ f.deferred = h.deferred
      /\ f.foreign = h.foreign /\ f.enums = h.enums /\ f.state = h.state
      /\ f.result = h.result /\ f.subscribers = h.subscribers /\ QueueSame(h, f)
  BY makeFields
<1> HIDE DEF f
<1>5. Spares(f, k, {c})  BY <1>1, resolveSpares DEF f
<1>6. Spares(h, k, {})
  <2>1. \A x \in h.made : x \in {c} => x \in {}  BY <1>1
  <2> QED  BY <1>2, <1>5, <2>1, SparesTrans
<1>7. Quietly(f, k, 0)  BY <1>1, resolveCalm DEF f
<1>8. Calm(h, k)  BY <1>3, <1>7, CalmTrans DEF Quietly
<1>9. Flow(k, a, 1) /\ Flow(f, a, 1)  BY <1>3, <1>8, CalmFlow DEF Quietly
<1>10. CASE v \in Promises
  <2>1. h.state[v] = PENDING /\ v \in h.made /\ v # c  BY <1>1, <1>10, ValuesApart DEF Values
  <2>2. k = resolve(f, c, v)  BY <1>10, <2>1 DEF resolve, f
  <2>3. Free(f, a, 1, l, c)
    <3>1. Alone(f, l, c)  BY <1>1, <1>4, NewAlone
    <3>2. \A q : Unrun(f, a, q) => ~JobHand(f.queue[q], c)
      BY <1>1, <1>4 DEF Unrun, QueueSame, Sane, SaneJob
    <3>3. \A y \in Promises : \A n : Unserved(f, a, 1, y, n) => ~SubHand(f.subscribers[y][n], c)
      BY <1>1, <1>4 DEF Unserved, Sane, SaneSub
    <3> QED  BY <1>1, <1>4, <3>1, <3>2, <3>3 DEF Free
  <2>4. f.state[v] = PENDING  BY <1>4, <2>1
  <2>5. Subscribed(f, k, v, Link(c)) /\ OnlyLink(k, a, 1, l, c, v)
    BY <1>1, <1>10, <2>1, <2>2, <2>3, <2>4, LinkAdded
  <2>6. SubscriberOK(f, Link(c))  BY <1>1, LinkFacts
  <2>7. OneMore(f, k, a, v, Link(c))  BY <1>1, <1>10, <2>5, <2>6, SubscribedAwaits
  <2>8. LinkedTo(k, a, 1, c, v)  BY <1>10, <2>7 DEF OneMore, LinkedTo
  <2>9. k.state[c] = PENDING  BY <2>5 DEF OnlyLink
  <2> QED  BY <1>1, <1>6, <1>9, <1>10, <2>5, <2>8, <2>9 DEF Mirror, Follows
<1>11. CASE v \notin Promises
  <2>1. v \in Thenables /\ v \notin BadThens  BY <1>11, ValuesApart
  <2>2. k = asap(f, [k |-> "foreign", promise |-> c, thenable |-> v])
    BY <1>11, <2>1 DEF handleMaybeThenable, handleForeignThenable, f
  <2>3. IsSeq(f.queue) /\ f.scheduled \in BOOLEAN  BY <1>1 DEF Typed, Jobs
  <2>4. k.state = f.state  BY <1>4, <2>2, <2>3, asapFields
  <2>5. Mirror(k, a, 1, l, c, v)  BY <1>11, <2>1 DEF Mirror, Gave
  <2> QED  BY <1>1, <1>4, <1>6, <1>9, <2>4, <2>5
<1> QED  BY <1>10, <1>11

\* The entry is awaited.
LEMMA TurnWatched ==
  ASSUME NEW h, Typed(h), Sane(h), Room(h, 1), NEW a \in Nat, Flow(h, a, 1),
         NEW l, NEW m, NEW e, NEW i, i \in {1, 2}, NextTurn(l, m, e, i), NEW x, AllOK(h, a, 1, l, e, x),
         NEW v, v = x.entries[i],
         \/ v \in Promises /\ h.state[v] = PENDING /\ v \in h.made
         \/ v \notin Promises /\ v \in Thenables
  PROVE  AllOK(Watched(h, e, v, i), a, 1, m, e, x)
<1> DEFINE c == NewPromise(h)
           k == handleMaybeThenable(makePromise(h), c, v)
           P == x.promise
           g == Watched(h, e, v, i)
<1>1. l.k # "race"  BY DEF NextTurn, OnTurn
<1>2. /\ Spares(h, k, {}) /\ Flow(k, a, 1) /\ c \in Promises /\ k.state[c] = PENDING
      /\ Mirror(k, a, 1, l, c, v)
  BY <1>1, EntryFollowed
<1>3. g = subscribe(k, c, NoChild, Collect(e, i).ok, Collect(e, i).err)
  BY DEF Watched, willSettleAt, Collect
<1> HIDE DEF k, c, g
<1>4. Typed(k) /\ Sane(k)  BY <1>2 DEF Spares, Grows
<1>5. Moves(h, a, 1, l, k, a, 1, l, {}, {})  BY <1>2, CallMoves
<1>6. \A y \in Promises : \A w : Mirror(h, a, 1, l, y, w) => Mirror(k, a, 1, l, y, w)
  BY <1>5, MirrorsStay
<1>7. AllOK(k, a, 1, l, e, x)
  <2>1. SameTurn(l, l, e)  BY DEF SameTurn
  <2>2. \A y \in Promises : \A n, j : AwaitAt(h, a, 1, e, j, y, n) => <<y, n>> \notin {}  OBVIOUS
  <2> QED  BY <1>5, <1>6, <2>1, <2>2, AllStays
<1>8. e \in DOMAIN k.enums /\ k.enums[e].promise = P /\ i \in {1, 2}  BY <1>7 DEF AllOK, Serves
<1>9. /\ SubscriberOK(k, Collect(e, i)) /\ SaneSub(k, Collect(e, i))
      /\ \A y \in Promises : ~SubHand(Collect(e, i), y)
      /\ \A d, j : Collect(e, i) = Collect(d, j) => d = e /\ j = i
  BY <1>8, CollectFacts
<1>10. Collect(e, i) = [child |-> NoChild, ok |-> Collect(e, i).ok, err |-> Collect(e, i).err]
  BY DEF Collect
<1>11. Subscribed(k, g, c, Collect(e, i))
  BY <1>2, <1>3, <1>4, <1>9, <1>10, subscribeFields
<1>12. Spares(k, g, {P})
  <2>1. k.made \subseteq Promises  BY <1>4 DEF Typed, Made
  <2>2. \A y \in k.made : SubHand(Collect(e, i), y) => y \in {P}  BY <1>9, <2>1
  <2>3. \A d \in DOMAIN k.enums : \A j : Collect(e, i) = Collect(d, j) => k.enums[d].promise \in {P}
    BY <1>8, <1>9
  <2> HIDE DEF P
  <2> QED  BY <1>2, <1>3, <1>4, <1>9, <1>10, <2>2, <2>3, subscribeSpares
<1>13. Mirror(k, a, 1, l, c, x.entries[i])  BY <1>2
<1> QED  BY <1>2, <1>4, <1>7, <1>11, <1>12, <1>13, PlaceWaits DEF g

-----------------------------------------------------------------------------
(* Only a call of `all' adds an enumerator                                 *)

LEMMA RecountTrans ==
  ASSUME NEW h, NEW g, NEW k, Recount(h, g), Recount(g, k)
  PROVE  Recount(h, k)
BY DEF Recount

LEMMA RecountFields ==
  ASSUME NEW h, Counted(h), NEW x
  PROVE  /\ Recount(h, h) /\ Recount(h, [h EXCEPT !.made = x])
         /\ Recount(h, [h EXCEPT !.deferred = x]) /\ Recount(h, [h EXCEPT !.foreign = x])
         /\ Recount(h, [h EXCEPT !.subscribers = x]) /\ Recount(h, [h EXCEPT !.queue = x])
         /\ Recount(h, [h EXCEPT !.scheduled = x])
         /\ \A p, s, v : Recount(h, [h EXCEPT !.state[p] = s, !.result[p] = v])
BY DEF Recount, Counted

LEMMA asapCounts ==
  ASSUME NEW h, Counted(h), NEW job
  PROVE  Recount(h, asap(h, job))
<1> DEFINE g == [h EXCEPT !.queue = Append(@, job)]
<1>1. Recount(h, g)  BY RecountFields, Zenon
<1> HIDE DEF g
<1>2. Recount(g, ScheduleFlush(g))  BY <1>1, RecountFields, Zenon DEF Recount, ScheduleFlush
<1> QED  BY <1>1, <1>2, RecountTrans DEF asap, g

LEMMA settleCounts ==
  ASSUME NEW h, Counted(h), NEW p, NEW v
  PROVE  Recount(h, fulfill(h, p, v)) /\ Recount(h, reject(h, p, v))
<1>1. ASSUME NEW s
      PROVE  LET g == [h EXCEPT !.state[p] = s, !.result[p] = v]
             IN  Recount(h, g) /\ Recount(h, asap(g, Publish(p)))
  <2> DEFINE g == [h EXCEPT !.state[p] = s, !.result[p] = v]
  <2>1. Recount(h, g)  BY RecountFields, Zenon
  <2> HIDE DEF g
  <2>2. Recount(g, asap(g, Publish(p)))  BY <2>1, asapCounts DEF Recount
  <2> QED  BY <2>1, <2>2, RecountTrans DEF g
<1>2. Recount(h, h)  BY RecountFields, Zenon
<1> QED  BY <1>1, <1>2, Zenon DEF fulfill, reject

LEMMA subscribeCounts ==
  ASSUME NEW h, Counted(h), NEW parent, NEW child, NEW ok, NEW err
  PROVE  Recount(h, subscribe(h, parent, child, ok, err))
<1> DEFINE s == [child |-> child, ok |-> ok, err |-> err]
           g == [h EXCEPT !.subscribers[parent] = Append(@, s)]
<1>1. Recount(h, g)  BY RecountFields, Zenon
<1> HIDE DEF g
<1>2. Recount(g, asap(g, Publish(parent)))  BY <1>1, asapCounts DEF Recount
<1> QED  BY <1>1, <1>2, RecountTrans DEF subscribe, g

LEMMA resolveCounts ==
  ASSUME NEW h, Counted(h), NEW p, NEW v
  PROVE  Recount(h, handleMaybeThenable(h, p, v)) /\ Recount(h, resolve(h, p, v))
<1>1. \A q : Recount(h, handleOwnThenable(h, p, q))
  BY settleCounts, subscribeCounts DEF handleOwnThenable
<1>2. Recount(h, handleForeignThenable(h, p, v))  BY asapCounts DEF handleForeignThenable
<1>3. Recount(h, handleMaybeThenable(h, p, v))
  BY <1>1, <1>2, settleCounts DEF handleMaybeThenable
<1> QED  BY <1>3, settleCounts DEF resolve

LEMMA thenCounts ==
  ASSUME NEW h, Counted(h), NEW parent, NEW ok, NEW err
  PROVE  Recount(h, makePromise(h)) /\ Recount(h, then(h, parent, ok, err))
<1> DEFINE g == makePromise(h)
<1>1. Recount(h, g)  BY RecountFields, Zenon DEF makePromise
<1> HIDE DEF g
<1>2. \A job : Recount(g, asap(g, job))  BY <1>1, asapCounts DEF Recount
<1>3. \A child : Recount(g, subscribe(g, parent, child, ok, err))
  BY <1>1, subscribeCounts DEF Recount
<1> QED  BY <1>1, <1>2, <1>3, RecountTrans DEF then, g

LEMMA StaticCounts ==
  ASSUME NEW h, Counted(h), NEW v
  PROVE  Recount(h, resolveStatic(h, v)) /\ Recount(h, rejectStatic(h, v))
<1> DEFINE g == makePromise(h)
<1>1. Recount(h, g) /\ Recount(h, h)  BY thenCounts, RecountFields, Zenon
<1> HIDE DEF g
<1>2. \A p : Recount(g, resolve(g, p, v)) /\ Recount(g, reject(g, p, v))
  BY <1>1, resolveCounts, settleCounts DEF Recount
<1> QED  BY <1>1, <1>2, RecountTrans DEF resolveStatic, rejectStatic, g

LEMMA settledAtCounts ==
  ASSUME NEW h, Typed(h), Sane(h), NEW e \in DOMAIN h.enums, NEW state, NEW i, NEW v
  PROVE  Recount(h, settledAt(h, e, state, i, v))
<1>1. Hushed(h, settledAt(h, e, state, i, v))  BY settledAtHushed
<1>2. Typed(settledAt(h, e, state, i, v))
  <2>1. Quietly(h, settledAt(h, e, state, i, v), 0)  BY settledAtCalm
  <2> QED  BY <2>1 DEF Quietly, Calm
<1> QED  BY <1>1, <1>2 DEF Hushed, Recount, Counted, Typed, HeapFields

LEMMA WatchedCounts ==
  ASSUME NEW h, Counted(h), NEW e, NEW v, NEW i
  PROVE  Recount(h, Watched(h, e, v, i))
<1> DEFINE c == NewPromise(h)
           g == makePromise(h)
           k == handleMaybeThenable(g, c, v)
<1>1. Recount(h, g)  BY thenCounts
<1> HIDE DEF g, c
<1>2. Recount(g, k)  BY <1>1, resolveCounts DEF Recount
<1> HIDE DEF k
<1>3. Recount(k, willSettleAt(k, c, e, i))  BY <1>2, subscribeCounts DEF Recount, willSettleAt
<1> QED  BY <1>1, <1>2, <1>3, RecountTrans DEF Watched, c, g, k

LEMMA tryCatchCounts ==
  ASSUME NEW h, Typed(h), Sane(h), NEW cb, CallbackOK(h, cb), NEW detail, NEW o
  PROVE  Recount(h, tryCatch(h, cb, detail, o).heap)
<1> DEFINE x == Effect(h, o)
           g == resolveStatic(x, o.value)
           repeat == [k |-> cb.then, v |-> detail]
<1>0. Counted(h)  BY DEF Counted, Typed, HeapFields
<1>1. Recount(h, x)  BY <1>0, RecountFields, resolveCounts, Zenon DEF Effect
<1> HIDE DEF x
<1>2. Recount(x, g)  BY <1>1, StaticCounts DEF Recount
<1> HIDE DEF g, repeat
<1>3. \A p : Recount(g, then(g, p, repeat, NoCallback))  BY <1>2, thenCounts DEF Recount
<1>4. \A p : Recount(h, then(g, p, repeat, NoCallback))
  BY <1>1, <1>2, <1>3, RecountTrans
<1>5. Recount(h, finally(x, o, repeat).heap)  BY <1>4 DEF finally, g
<1>6. Recount(h, resolve(h, cb.promise, detail)) /\ Recount(h, reject(h, cb.promise, detail))
  BY <1>0, resolveCounts, settleCounts
<1>7. cb.k = "settledAt" => Recount(h, settledAt(h, cb.enum, cb.state, cb.i, detail))
  BY settledAtCounts DEF CallbackOK
<1>8. Recount(h, h)  BY <1>0, RecountFields, Zenon
<1> QED  BY <1>1, <1>5, <1>6, <1>7, <1>8 DEF tryCatch, x, repeat

LEMMA invokeCallbackCounts ==
  ASSUME NEW h, Typed(h), Sane(h), NEW settled, NEW child, NEW cb, CallbackOK(h, cb), NEW detail, NEW o
  PROVE  Recount(h, invokeCallback(h, settled, child, cb, detail, o))
<1> DEFINE r == tryCatch(h, cb, detail, o)
<1>0. Counted(h)  BY DEF Counted, Typed, HeapFields
<1>1. Recount(h, r.heap)  BY tryCatchCounts
<1> HIDE DEF r
<1>2. \A v : Recount(r.heap, reject(r.heap, child, v)) /\ Recount(r.heap, resolve(r.heap, child, v))
  BY <1>1, settleCounts, resolveCounts DEF Recount
<1>3. \A v : Recount(h, reject(r.heap, child, v)) /\ Recount(h, resolve(r.heap, child, v))
  BY <1>1, <1>2, RecountTrans
<1>4. Recount(h, fulfill(h, child, detail)) /\ Recount(h, reject(h, child, detail))
  BY <1>0, settleCounts
<1> QED  BY <1>1, <1>3, <1>4 DEF invokeCallback, r

LEMMA foreignCallCounts ==
  ASSUME NEW h, Counted(h), NEW f, NEW c
  PROVE  Recount(h, foreignCall(h, f, c))
<1> DEFINE g == [h EXCEPT !.foreign[f].sealed = TRUE]
<1>1. Recount(h, g) /\ Recount(h, h)  BY RecountFields, Zenon
<1> HIDE DEF g
<1>2. \A p, v : /\ Recount(g, reject(g, p, v)) /\ Recount(g, fulfill(g, p, v))
                /\ Recount(g, resolve(g, p, v))
  BY <1>1, settleCounts, resolveCounts DEF Recount
<1> QED  BY <1>1, <1>2, RecountTrans DEF foreignCall, g

\* A step that settles the promise of the enumerator e at most.
LEMMA CombinedOne ==
  ASSUME NEW h, Typed(h), NEW a, NEW t, NEW l, NEW g, NEW b, NEW u, NEW m, NEW e, e \in DOMAIN h.enums,
         NEW D, D = {h.enums[e].promise}, Moves(h, a, t, l, g, b, u, m, D, {}),
         NEW R, Reacted(h, R), NEW C, NEW A, Combined(h, a, t, l, R, C, A),
         DOMAIN g.enums = DOMAIN h.enums, \A d \in DOMAIN A : d # e => SameTurn(l, m, d),
         LoopMade(g, m), AllOK(g, b, u, m, e, A[e])
  PROVE  Combined(g, b, u, m, R, C, A)
<1> DEFINE P == h.enums[e].promise
<1>1. Sane(g)  BY DEF Moves
<1>2. \A x : Alone(h, l, x) => x \notin D  BY DEF Alone
<1>3. Finals(g, b, u, m, R, C)  BY <1>2, FinalsStay DEF Combined
<1>4. \A y \in Promises : \A v : Mirror(h, a, t, l, y, v) => Mirror(g, b, u, m, y, v)
  BY <1>2, MirrorsStay
<1>5. Alls(g, b, u, m, A)
  <2>1. IsSeq(A) /\ DOMAIN A = DOMAIN g.enums  BY DEF Combined, Alls
  <2>2. ASSUME NEW d \in DOMAIN A, d # e PROVE AllOK(g, b, u, m, d, A[d])
    <3>1. AllOK(h, a, t, l, d, A[d])  BY DEF Combined, Alls
    <3>2. Private(h, a, t, l, d, A[d].promise)  BY <3>1 DEF AllOK
    <3>3. A[d].promise \notin D  BY <2>2, <3>2 DEF Private
    <3>4. \A y \in Promises : \A k, i : AwaitAt(h, a, t, d, i, y, k) => <<y, k>> \notin {}  OBVIOUS
    <3> HIDE DEF P
    <3> QED  BY <1>4, <2>2, <3>1, <3>3, <3>4, AllStays DEF P
  <2> QED  BY <2>1, <2>2 DEF Alls
<1> QED  BY <1>1, <1>3, <1>5 DEF Combined

\* The loop has ended: the values are there, or somebody is awaited.
LEMMA TurnEnds ==
  ASSUME NEW h, Typed(h), Sane(h), ArraysApart, NEW a \in Nat, Flow(h, a, 1), NEW l, NEW e,
         OnTurn(l, e), l.i = 3, NEW x, AllOK(h, a, 1, l, e, x), NEW g,
         g = IF h.enums[e].remaining = 0 THEN fulfill(h, x.promise, h.enums[e].result) ELSE h
  PROVE  /\ AllOK(g, a, 1, Idle, e, x) /\ Spares(h, g, {x.promise}) /\ Hushed(h, g)
<1> DEFINE N == h.enums[e]
           P == x.promise
           L == Lefts(h, a, 1, l, e)
<1>1. /\ Serves(h, l, e, x) /\ Private(h, a, 1, l, e, P) /\ Placing(h, a, 1, l, e)
      /\ Mirrors(h, a, 1, l, e, x.entries) /\ Summed(h, l, e, x.entries, L)
  BY DEF AllOK
<1>2. /\ e \in DOMAIN h.enums /\ N.promise = P /\ DOMAIN N.result = {1, 2} /\ DOMAIN x.entries = {1, 2}
      /\ P \in h.made /\ P \in Promises
  BY <1>1 DEF Serves, Private
<1>3. Flat(N.result)  BY <1>2 DEF Sane, SaneEnum, ArraysApart
<1>4. Hushed(h, h) /\ Spares(h, h, {P})  BY SparesSame DEF Hushed
<1>5. Spares(h, g, {P}) /\ Hushed(h, g)
  BY <1>2, <1>3, <1>4, fulfillSpares, SettleHushed
<1>6. Kept(h, g) /\ Extends(h.queue, g.queue)  BY <1>5 DEF Spares, Grows
<1>7. Idle.k = "idle"  BY DEF Idle
<1>8. \A j : ~OnTurn(Idle, j)  BY <1>7 DEF OnTurn
<1>9. \A j \in {1, 2} : ~Todo(l, e, j) /\ ~Todo(Idle, e, j)  BY <1>8 DEF Todo
<1>10. Moves(h, a, 1, l, g, a, 1, Idle, {P}, {})
  <2>1. Moves(h, a, 1, l, h, a, 1, Idle, {}, {})  BY <1>7, PassMoves
  <2>2. Moves(h, a, 1, l, h, a, 1, Idle, {P}, {})  BY <2>1, MovesMore
  <2>3. Moves(h, a, 1, Idle, g, a, 1, Idle, {P}, {})  BY <1>5, CallMoves
  <2> HIDE DEF P
  <2> QED  BY <2>2, <2>3, MovesTrans
<1>11. \A y : Alone(h, l, y) => y \notin {P}  BY <1>2 DEF Alone
<1>12. \A y \in Promises : \A w : Mirror(h, a, 1, l, y, w) => Mirror(g, a, 1, Idle, y, w)
  BY <1>10, <1>11, MirrorsStay
<1>13. /\ Private(g, a, 1, l, e, P)
       /\ \A j, k : \A y \in Promises : AwaitAt(g, a, 1, e, j, y, k) <=> AwaitAt(h, a, 1, e, j, y, k)
  BY <1>1, <1>5, <1>6, HushedStays
<1>14. Private(g, a, 1, Idle, e, P)  BY <1>7, <1>13, Zenon DEF Private, Elsewhere
<1>15. Placing(g, a, 1, Idle, e)  BY <1>1, <1>9, <1>13 DEF Placing
<1>16. Mirrors(g, a, 1, Idle, e, x.entries)  BY <1>1, <1>12, <1>13 DEF Mirrors
<1>17. Lefts(g, a, 1, Idle, e) = L
  <2>1. \A j \in {1, 2} : j \in Lefts(g, a, 1, Idle, e) <=> j \in L
    BY <1>9, <1>13 DEF Lefts, Await
  <2>2. L \subseteq {1, 2} /\ Lefts(g, a, 1, Idle, e) \subseteq {1, 2}  BY DEF Lefts
  <2> HIDE DEF L
  <2> QED  BY <2>1, <2>2, SamePlaces
<1>18. Serves(g, Idle, e, x) /\ Summed(g, Idle, e, x.entries, L)
  <2>1. CASE N.remaining = 0 /\ h.state[P] = PENDING
    <3>1. N.remaining = Count(L) /\ \A i \in {1, 2} : i \notin L => Item(h, x.entries[i], N.result[i])
      BY <1>1, <1>2, <2>1 DEF Summed, PENDING, REJECTED, FULFILLED
    <3>2. 1 \notin L /\ 2 \notin L
      <4> HIDE DEF L
      <4> QED  BY <2>1, <3>1, CountFacts
    <3>3. g.state[P] = FULFILLED /\ g.result[P] = N.result  BY <1>2, <2>1, SettleIs
    <3>4. \A i \in {1, 2} : Item(g, x.entries[i], N.result[i])  BY <1>6, <3>1, <3>2, ItemStays
    <3>5. g.enums = h.enums
      <4>1. Settled(h, g, P, FULFILLED, N.result)  BY <1>2, <2>1, fulfillFields
      <4> QED  BY <4>1 DEF Settled, OthersSame
    <3> HIDE DEF N, P, L
    <3> QED  BY <1>1, <1>2, <1>8, <3>3, <3>4, <3>5, Zenon DEF Serves, Summed, N
  <2>2. CASE ~(N.remaining = 0 /\ h.state[P] = PENDING)
    <3>1. g = h  BY <2>2 DEF fulfill
    <3> HIDE DEF L
    <3> QED  BY <1>1, <1>2, <1>8, <2>2, <3>1, Zenon DEF Serves, Summed
  <2> QED  BY <2>1, <2>2
<1> HIDE DEF P, L
<1>19. AllOK(g, a, 1, Idle, e, x)  BY <1>14, <1>15, <1>16, <1>17, <1>18 DEF AllOK, P
<1> QED  BY <1>5, <1>19 DEF P

-----------------------------------------------------------------------------
(* The steps                                                               *)

\* Where a loop that runs is.
LEMMA LoopNow ==
  ASSUME PInv, loop # Idle
  PROVE  /\ at = 0 /\ turn = 1 /\ Typed(heap) /\ Flow(heap, 0, 1) /\ Reacted(heap, reactions)
         /\ loop = [k |-> loop.k, e |-> loop.e, entries |-> loop.entries, i |-> loop.i]
         /\ loop.i \in 1 .. 3 /\ Len(loop.entries) = 2
         /\ \/ loop.k = "all" /\ loop.e \in DOMAIN heap.enums
            \/ loop.k = "race" /\ loop.e \in Promises
<1>1. World(heap, at, turn, reactions, calls) /\ LoopOK(heap, at, loop)  BY DEF PInv, Stand
<1>2. /\ at = 0
      /\ loop = [k |-> loop.k, e |-> loop.e, entries |-> loop.entries, i |-> loop.i]
      /\ loop.i \in 1 .. 3 /\ Len(loop.entries) = 2
      /\ \/ loop.k = "all" /\ loop.e \in DOMAIN heap.enums
         \/ loop.k = "race" /\ loop.e \in Promises
  BY <1>1 DEF LoopOK
<1>3. Typed(heap) /\ Flow(heap, at, turn) /\ turn = 1  BY <1>1, <1>2, WorldTyped
<1>4. Reacted(heap, reactions)  BY <1>1 DEF World
<1> QED  BY <1>2, <1>3, <1>4

LEMMA NextIndex ==
  ASSUME NEW l, l = [k |-> l.k, e |-> l.e, entries |-> l.entries, i |-> l.i], NEW m,
         m = [l EXCEPT !.i = @ + 1]
  PROVE  m.k = l.k /\ m.e = l.e /\ m.entries = l.entries /\ m.i = l.i + 1
OBVIOUS

LEMMA EnumerateStepCombined ==
  ASSUME ArraysApart, PInv, CInv, EnumerateStep
  PROVE  CInv'
<1> DEFINE e == loop.e
           i == loop.i
           x == alls[e]
           v == loop.entries[i]
           P == heap.enums[e].promise
<1>1. loop.k = "all" /\ loop # Idle  BY DEF EnumerateStep, Idle
<1>2. /\ at = 0 /\ turn = 1 /\ Typed(heap) /\ Flow(heap, 0, 1) /\ Reacted(heap, reactions)
      /\ loop = [k |-> loop.k, e |-> loop.e, entries |-> loop.entries, i |-> loop.i]
      /\ i \in 1 .. 3 /\ Len(loop.entries) = 2 /\ e \in DOMAIN heap.enums
  BY <1>1, LoopNow
<1>3. /\ i \in {1, 2} /\ heap' = eachEntry(heap, e, v, i) /\ loop' = [loop EXCEPT !.i = @ + 1]
      /\ UNCHANGED <<at, turn, reactions, alls, calls>>
  BY <1>2 DEF EnumerateStep
<1>4. loop'.k = "all" /\ loop'.e = e /\ loop'.entries = loop.entries /\ loop'.i = i + 1
  BY <1>1, <1>2, <1>3, NextIndex
<1>5. NextTurn(loop, loop', e, i)  BY <1>1, <1>4 DEF NextTurn, OnTurn
<1>6. /\ Sane(heap) /\ LoopMade(heap, loop) /\ Alls(heap, 0, 1, loop, alls)
      /\ Combined(heap, 0, 1, loop, reactions, calls, alls)
  BY <1>2 DEF CInv, Combined
<1>7. AllOK(heap, 0, 1, loop, e, x) /\ DOMAIN alls = DOMAIN heap.enums  BY <1>2, <1>6 DEF Alls
<1>8. v = x.entries[i] /\ x.promise = P
  <2>1. Serves(heap, loop, e, x)  BY <1>7 DEF AllOK
  <2> QED  BY <1>1, <2>1 DEF Serves, OnTurn
<1>9. Room(heap, 1)
  <2>1. 1 \in Nat /\ 1 <= Needs(loop)  BY <1>1, <1>3 DEF Needs
  <2> QED  BY <2>1, StandRoom
<1> HIDE DEF e, i, v, P, x
<1>10. AllOK(heap', 0, 1, loop', e, x) /\ Recount(heap, heap')
  <2> DEFINE N == heap.enums[e]
             f == Placed(N.result, i, v)
             g == Filled(heap, e, N.remaining - 1, f)
  <2>1. heap' = IF v \in Promises /\ heap.state[v] # PENDING
                THEN settledAt(heap, e, heap.state[v], i, heap.result[v])
                ELSE IF v \in Promises \cup Thenables THEN Watched(heap, e, v, i) ELSE g
    BY <1>2, <1>3, <1>6, eachEntryIs
  <2>2. Counted(heap)  BY <1>2 DEF Counted, Typed, HeapFields
  <2> HIDE DEF g
  <2>3. CASE v \in Promises /\ heap.state[v] # PENDING
    <3>1. heap' = settledAt(heap, e, heap.state[v], i, heap.result[v])  BY <2>1, <2>3
    <3>2. AllOK(heap', 0, 1, loop', e, x)
      BY <1>2, <1>3, <1>5, <1>6, <1>7, <1>8, <2>3, <3>1, TurnSettled
    <3> QED  BY <1>2, <1>6, <3>1, <3>2, settledAtCounts
  <2>4. CASE v \in Promises \cup Thenables /\ ~(v \in Promises /\ heap.state[v] # PENDING)
    <3>1. heap' = Watched(heap, e, v, i)  BY <2>1, <2>4
    <3>2. v \in Promises => v \in heap.made
      BY <1>1, <1>3, <1>6 DEF LoopMade, v
    <3>3. AllOK(heap', 0, 1, loop', e, x)
      BY <1>2, <1>3, <1>5, <1>6, <1>7, <1>8, <1>9, <2>4, <3>1, <3>2, TurnWatched
    <3> QED  BY <2>2, <3>1, <3>3, WatchedCounts
  <2>5. CASE v \notin Promises \cup Thenables
    <3>1. heap' = g  BY <2>1, <2>5
    <3>2. AllOK(g, 0, 1, loop', e, x)
      BY <1>2, <1>3, <1>5, <1>6, <1>7, <1>8, <2>5, TurnPlain DEF g
    <3>3. IsSeq(f)
      <4>1. IsSeq(N.result)  BY <1>2, <1>6 DEF Sane, SaneEnum
      <4> QED  BY <4>1, SeqExcept DEF Placed
    <3>4. FilledBy(heap, g, e, N.remaining - 1, f)  BY <1>2, <1>6, <3>3, FilledFacts DEF g
    <3>5. Recount(heap, g)  BY <3>4 DEF FilledBy, Recount, Counted, Typed, HeapFields
    <3> QED  BY <3>1, <3>2, <3>5
  <2> QED  BY <2>3, <2>4, <2>5
<1>11. Spares(heap, heap', {P})  BY <1>2, <1>3, <1>6, <1>9, eachEntrySpares DEF P
<1>12. Moves(heap, 0, 1, loop, heap', 0, 1, loop', {P}, {})
  <2>1. Moves(heap, 0, 1, loop, heap, 0, 1, loop', {}, {})
    <3>1. loop'.k # "race" /\ 0 \in Nat /\ 0 <= 0  BY <1>4
    <3> QED  BY <1>2, <1>6, <3>1, PassMoves
  <2>2. Moves(heap, 0, 1, loop, heap, 0, 1, loop', {P}, {})  BY <2>1, MovesMore
  <2>3. Moves(heap, 0, 1, loop', heap', 0, 1, loop', {P}, {})  BY <1>2, <1>11, CallMoves
  <2> QED  BY <2>2, <2>3, MovesTrans
<1>13. \A d \in DOMAIN alls : d # e => SameTurn(loop, loop', d)
  BY <1>4 DEF SameTurn, OnTurn, e
<1>14. LoopMade(heap', loop')
  <2>1. heap.made \subseteq heap'.made  BY <1>12 DEF Moves
  <2> QED  BY <1>1, <1>4, <1>6, <2>1 DEF LoopMade
<1>15. Combined(heap', 0, 1, loop', reactions, calls, alls)
  BY <1>2, <1>6, <1>7, <1>10, <1>12, <1>13, <1>14, CombinedOne DEF P, x, Recount
<1> QED  BY <1>2, <1>3, <1>15 DEF CInv

LEMMA EnumerateEndCombined ==
  ASSUME ArraysApart, PInv, CInv, EnumerateEnd
  PROVE  CInv'
<1> DEFINE e == loop.e
           x == alls[e]
           P == heap.enums[e].promise
<1>1. loop.k = "all" /\ loop # Idle  BY DEF EnumerateEnd, Idle
<1>2. /\ at = 0 /\ turn = 1 /\ Typed(heap) /\ Flow(heap, 0, 1) /\ Reacted(heap, reactions)
      /\ loop.i \in 1 .. 3 /\ Len(loop.entries) = 2 /\ e \in DOMAIN heap.enums
  BY <1>1, LoopNow
<1>3. /\ loop.i = 3 /\ loop' = Idle /\ UNCHANGED <<at, turn, reactions, alls, calls>>
      /\ heap' = IF heap.enums[e].remaining = 0 THEN fulfill(heap, P, heap.enums[e].result) ELSE heap
  BY <1>2 DEF EnumerateEnd
<1>4. /\ Sane(heap) /\ Alls(heap, 0, 1, loop, alls)
      /\ Combined(heap, 0, 1, loop, reactions, calls, alls)
  BY <1>2 DEF CInv, Combined
<1>5. AllOK(heap, 0, 1, loop, e, x) /\ DOMAIN alls = DOMAIN heap.enums  BY <1>2, <1>4 DEF Alls
<1>6. x.promise = P /\ OnTurn(loop, e)
  <2>1. Serves(heap, loop, e, x)  BY <1>5 DEF AllOK
  <2> QED  BY <1>1, <2>1 DEF Serves, OnTurn
<1> HIDE DEF e, P, x
<1>7. AllOK(heap', 0, 1, Idle, e, x) /\ Spares(heap, heap', {P}) /\ Hushed(heap, heap')
  BY <1>2, <1>3, <1>4, <1>5, <1>6, TurnEnds
<1>8. Idle.k = "idle"  BY DEF Idle
<1>9. Moves(heap, 0, 1, loop, heap', 0, 1, Idle, {P}, {})
  <2>1. Moves(heap, 0, 1, loop, heap, 0, 1, Idle, {}, {})
    <3>1. Idle.k # "race" /\ 0 \in Nat /\ 0 <= 0  BY <1>8
    <3> QED  BY <1>2, <1>4, <3>1, PassMoves
  <2>2. Moves(heap, 0, 1, loop, heap, 0, 1, Idle, {P}, {})  BY <2>1, MovesMore
  <2>3. Moves(heap, 0, 1, Idle, heap', 0, 1, Idle, {P}, {})  BY <1>2, <1>7, CallMoves
  <2> QED  BY <2>2, <2>3, MovesTrans
<1>10. \A d \in DOMAIN alls : d # e => SameTurn(loop, Idle, d)
  BY <1>8 DEF SameTurn, OnTurn, e
<1>11. LoopMade(heap', Idle)  BY <1>8 DEF LoopMade
<1>12. DOMAIN heap'.enums = DOMAIN heap.enums  BY <1>7 DEF Hushed
<1>13. /\ AllOK(heap', 0, 1, loop', e, x)
       /\ Moves(heap, 0, 1, loop, heap', 0, 1, loop', {P}, {})
       /\ \A d \in DOMAIN alls : d # e => SameTurn(loop, loop', d)
       /\ LoopMade(heap', loop') /\ Recount(heap, heap')
  BY <1>3, <1>7, <1>9, <1>10, <1>11, Zenon DEF Hushed, Recount, Counted, Spares, Grows, Typed, HeapFields
<1>14. Combined(heap', 0, 1, loop', reactions, calls, alls)
  BY <1>2, <1>4, <1>5, <1>13, CombinedOne DEF P, x, Recount
<1> QED  BY <1>2, <1>3, <1>14 DEF CInv

LEMMA RaceStepCombined ==
  ASSUME PInv, PInv', CInv, RaceStep
  PROVE  CInv'
<1>1. loop.k = "race" /\ loop # Idle  BY DEF RaceStep, Idle
<1>2. /\ at = 0 /\ turn = 1 /\ Typed(heap) /\ Flow(heap, 0, 1) /\ Reacted(heap, reactions)
      /\ loop = [k |-> loop.k, e |-> loop.e, entries |-> loop.entries, i |-> loop.i]
      /\ loop.i \in 1 .. 3 /\ Len(loop.entries) = 2 /\ loop.e \in Promises
  BY <1>1, LoopNow
<1>3. /\ Sane(heap) /\ LoopMade(heap, loop)
      /\ Combined(heap, 0, 1, loop, reactions, calls, alls)
  BY <1>2 DEF CInv, Combined
<1>4. UNCHANGED <<at, turn, reactions, alls, calls>>  BY DEF RaceStep
<1>5. Typed(heap')
  <2>1. World(heap, at, turn, reactions, calls)'  BY DEF PInv, Stand
  <2> QED  BY <2>1, WorldTyped
<1>6. loop.e \in heap.made  BY <1>1, <1>3 DEF LoopMade
<1> DEFINE D == {loop.e}
<1>7. \A x \in heap.made : ~Elsewhere(heap, loop, x) => x \notin D  BY <1>1 DEF Elsewhere
<1> HIDE DEF D
<1>8. CASE loop.i > Len(loop.entries)
  <2>1. heap' = heap /\ loop' = Idle  BY <1>8 DEF RaceStep
  <2>2. loop'.k = "idle"  BY <2>1 DEF Idle
  <2>3. Moves(heap, 0, 1, loop, heap, 0, 1, loop', {}, {})
    <3>1. loop'.k # "race" /\ 0 \in Nat /\ 0 <= 0  BY <2>2
    <3> QED  BY <1>2, <1>3, <3>1, PassMoves
  <2>4. Moves(heap, 0, 1, loop, heap', 0, 1, loop', D, {})  BY <2>1, <2>3, MovesMore
  <2>5. \A d \in DOMAIN alls : SameTurn(loop, loop', d)  BY <1>1, <2>2 DEF SameTurn, OnTurn
  <2>6. LoopMade(heap', loop')  BY <2>2 DEF LoopMade
  <2>7. Combined(heap', 0, 1, loop', reactions, calls, alls)
    BY <1>2, <1>3, <1>7, <2>1, <2>4, <2>5, <2>6, CombinedStays
  <2> QED  BY <1>2, <1>4, <2>7 DEF CInv
<1>9. CASE ~(loop.i > Len(loop.entries))
  <2> DEFINE v == loop.entries[loop.i]
             ok == [k |-> "resolve", promise |-> loop.e]
             err == [k |-> "reject", promise |-> loop.e]
             g == resolveStatic(heap, v)
             x == IF v \in Promises THEN 0 ELSE 1
  <2>1. heap' = then(g, resolved(heap, v), ok, err) /\ loop' = [loop EXCEPT !.i = @ + 1]
    BY <1>9 DEF RaceStep
  <2>2. /\ loop'.k = "race" /\ loop'.e = loop.e  BY <1>1, <1>2, <2>1, NextIndex
  <2>3. loop.i \in {1, 2} /\ loop.entries[1] \in Promises
    <3>1. LoopOK(heap, at, loop)  BY DEF PInv, Stand
    <3> QED  BY <1>1, <1>2, <1>9, <3>1 DEF LoopOK
  <2>4. x \in {0, 1} /\ (loop.i = 1 => x = 0) /\ Needs(loop) = 4 - loop.i
    BY <1>1, <2>3 DEF Needs
  <2>5. Room(heap, 1) /\ Room(heap, x + 1)
    <3>1. x + 1 \in Nat /\ x + 1 <= Needs(loop) /\ 1 <= Needs(loop)  BY <2>3, <2>4
    <3> QED  BY <3>1, StandRoom
  <2>6. /\ CallbackOK(g, ok) /\ CallbackOK(g, err) /\ ~Collects(ok) /\ ~Collects(err)
        /\ \A y \in Promises : Names(ok, y) \/ Names(err, y) => y = loop.e
    BY <1>2, SettlingCallbacks DEF Collects, Names
  <2> HIDE DEF ok, err, g, x
  <2>7. Quietly(heap, g, x) /\ resolved(heap, v) \in Promises
    BY <1>2, <2>5, StaticCalm DEF g, x
  <2>8. Typed(g) /\ Makes(heap, g, x)  BY <2>7 DEF Quietly, Calm
  <2>9. Room(g, 1)  BY <1>2, <2>4, <2>5, <2>8, RoomLeft
  <2>10. Spares(heap, g, D)  BY <1>2, <1>3, <2>5, StaticSpares DEF g
  <2>11. Sane(g) /\ heap.made \subseteq g.made  BY <2>10 DEF Spares, Grows
  <2>12. Spares(g, heap', D)
    <3>1. \A y \in Promises : Names(ok, y) \/ Names(err, y) => y \in g.made /\ y \in D
      BY <1>6, <2>6, <2>11 DEF D
    <3>2. Typed(then(g, resolved(heap, v), ok, err))  BY <1>5, <2>1
    <3>3. Spares(g, then(g, resolved(heap, v), ok, err), D)
      BY <2>6, <2>7, <2>8, <2>9, <2>11, <3>1, <3>2, thenSpares
    <3> QED  BY <2>1, <3>3
  <2>13. Spares(heap, heap', D)  BY <2>10, <2>12, SparesTrans
  <2>14. Moves(heap, 0, 1, loop, heap', 0, 1, loop', D, {})
    <3>1. Moves(heap, 0, 1, loop, heap, 0, 1, loop', {}, {})
      <4>1. (loop'.k = "race" => (loop.k = "race" /\ loop'.e = loop.e) \/ loop'.e \notin heap.made)
            /\ 0 \in Nat /\ 0 <= 0
        BY <1>1, <2>2
      <4> QED  BY <1>2, <1>3, <4>1, PassMoves
    <3>2. Moves(heap, 0, 1, loop, heap, 0, 1, loop', D, {})  BY <3>1, MovesMore
    <3>3. Moves(heap, 0, 1, loop', heap', 0, 1, loop', D, {})  BY <1>2, <2>13, CallMoves
    <3> QED  BY <3>2, <3>3, MovesTrans
  <2>15. \A d \in DOMAIN alls : SameTurn(loop, loop', d)  BY <1>1, <2>2 DEF SameTurn, OnTurn
  <2>16. LoopMade(heap', loop')
    <3>1. heap.made \subseteq heap'.made  BY <2>13 DEF Spares, Grows
    <3> QED  BY <1>6, <2>2, <3>1 DEF LoopMade
  <2>17. DOMAIN heap'.enums = DOMAIN heap.enums
    <3>1. Counted(heap)  BY <1>2 DEF Counted, Typed, HeapFields
    <3>2. Recount(heap, g)  BY <3>1, StaticCounts DEF g
    <3>3. Recount(g, heap')  BY <2>1, <3>2, thenCounts DEF Recount
    <3> QED  BY <3>2, <3>3 DEF Recount
  <2>18. Combined(heap', 0, 1, loop', reactions, calls, alls)
    BY <1>2, <1>3, <1>7, <2>14, <2>15, <2>16, <2>17, CombinedStays
  <2> QED  BY <1>2, <1>4, <2>18 DEF CInv
<1> QED  BY <1>8, <1>9

\* What is known between the program's calls.
LEMMA StackNow ==
  ASSUME PInv, CInv, Stack
  PROVE  /\ at = 0 /\ turn = 1 /\ loop = Idle /\ loop.k = "idle" /\ Typed(heap) /\ Sane(heap)
         /\ Flow(heap, 0, 1) /\ Reacted(heap, reactions)
         /\ World(heap, 0, 1, reactions, calls)
         /\ Combined(heap, 0, 1, loop, reactions, calls, alls)
         /\ \A d : ~OnTurn(loop, d)
<1>1. World(heap, at, turn, reactions, calls) /\ at = 0 /\ loop = Idle  BY DEF PInv, Stand, Stack
<1>2. Typed(heap) /\ turn = 1 /\ Flow(heap, at, turn)  BY <1>1, WorldTyped
<1>3. Reacted(heap, reactions)  BY <1>1 DEF World
<1>4. loop.k = "idle"  BY <1>1 DEF Idle
<1>5. Combined(heap, 0, 1, loop, reactions, calls, alls)  BY <1>1, <1>2 DEF CInv
<1>6. Sane(heap)  BY <1>5 DEF Combined
<1>7. \A d : ~OnTurn(loop, d)  BY <1>4 DEF OnTurn
<1> QED  BY <1>1, <1>2, <1>3, <1>4, <1>5, <1>6, <1>7

LEMMA raceCombined ==
  ASSUME PInv, CInv, race
  PROVE  CInv'
<1>1. Stack /\ steps < MaxSteps /\ UNCHANGED <<at, turn, calls, reactions, alls>>
  BY DEF race, Call
<1>2. /\ at = 0 /\ turn = 1 /\ Typed(heap) /\ Sane(heap) /\ Flow(heap, 0, 1)
      /\ Reacted(heap, reactions) /\ Combined(heap, 0, 1, loop, reactions, calls, alls)
      /\ \A d : ~OnTurn(loop, d)
  BY <1>1, StackNow
<1>3. Room(heap, 1)  BY <1>1, StandRoom
<1>4. heap' = makePromise(heap) /\ loop'.k = "race" /\ loop'.e = NewPromise(heap)
  BY DEF race
<1>5. NewPromise(heap) \in heap'.made /\ NewPromise(heap) \notin heap.made
  BY <1>2, <1>3, <1>4, NewIsSpare
<1>6. Spares(heap, heap', {})  BY <1>2, <1>3, <1>4, makeSpares
<1>7. Moves(heap, 0, 1, loop, heap', 0, 1, loop', {}, {})
  <2>1. (loop'.k = "race" => (loop.k = "race" /\ loop'.e = loop.e) \/ loop'.e \notin heap.made)
        /\ 0 \in Nat /\ 0 <= 0
    BY <1>4, <1>5
  <2>2. Moves(heap, 0, 1, loop, heap, 0, 1, loop', {}, {})  BY <1>2, <2>1, PassMoves
  <2>3. Moves(heap, 0, 1, loop', heap', 0, 1, loop', {}, {})  BY <1>2, <1>6, CallMoves
  <2> QED  BY <2>2, <2>3, MovesTrans
<1>8. \A d \in DOMAIN alls : SameTurn(loop, loop', d)  BY <1>2, <1>4 DEF SameTurn, OnTurn
<1>9. LoopMade(heap', loop')  BY <1>4, <1>5 DEF LoopMade
<1>10. DOMAIN heap'.enums = DOMAIN heap.enums
  BY <1>2, <1>4, thenCounts DEF Recount, Counted, Typed, HeapFields
<1>11. \A x \in heap.made : ~Elsewhere(heap, loop, x) => x \notin {}  OBVIOUS
<1>12. Combined(heap', 0, 1, loop', reactions, calls, alls)
  BY <1>2, <1>7, <1>8, <1>9, <1>10, <1>11, CombinedStays
<1> QED  BY <1>1, <1>2, <1>12 DEF CInv

\* A new enumerator waits for its loop.
LEMMA NewEnumerator ==
  ASSUME NEW h, Typed(h), Sane(h), Room(h, 1), NEW entries, Len(entries) = 2, DOMAIN entries = {1, 2},
         NEW g, g = Enumerator(h, entries), NEW e, e = Len(h.enums) + 1, NEW m,
         m = [k |-> "all", e |-> e, entries |-> entries, i |-> 1],
         NEW x, x = [promise |-> NewPromise(h), entries |-> entries]
  PROVE  AllOK(g, 0, 1, m, e, x)
<1> DEFINE c == NewPromise(h)
<1>1. /\ Spares(h, g, {}) /\ g.enums = Append(h.enums, Counter(h, entries))
      /\ g.made = h.made \cup {c} /\ g.deferred = h.deferred /\ g.foreign = h.foreign
      /\ g.state = h.state /\ g.result = h.result /\ g.subscribers = h.subscribers
      /\ QueueSame(h, g)
  BY EnumeratorIs
<1>2. c \in Promises /\ c \notin h.made /\ h.state[c] = PENDING  BY NewIsSpare
<1>3. IsSeq(h.enums)  BY DEF Typed, Stands
<1>4. /\ e \in DOMAIN g.enums /\ g.enums[e] = Counter(h, entries) /\ e \notin DOMAIN h.enums
      /\ \A d \in DOMAIN g.enums : d = e \/ (d \in DOMAIN h.enums /\ g.enums[d] = h.enums[d])
  BY <1>1, <1>3, AppendExtends DEF Extends
<1>5. /\ g.enums[e].promise = c /\ g.enums[e].remaining = 2 /\ DOMAIN g.enums[e].result = {1, 2}
  BY <1>4 DEF Counter
<1>6. x.promise = c /\ x.entries = entries  OBVIOUS
<1>7. m.k = "all" /\ m.e = e /\ m.entries = entries /\ m.i = 1  OBVIOUS
<1> HIDE DEF c
<1>8. Serves(g, m, e, x)  BY <1>4, <1>5, <1>6, <1>7 DEF Serves
<1>9. Private(g, 0, 1, m, e, c)
  <2>1. ~Elsewhere(g, m, c)
    BY <1>1, <1>2, <1>7 DEF Elsewhere, Typed, Made, Sane, SaneForeign
  <2>2. \A q : Unrun(g, 0, q) => ~JobHand(g.queue[q], c)
    BY <1>1, <1>2 DEF Unrun, QueueSame, Sane, SaneJob
  <2>3. \A y \in Promises : \A n : Unserved(g, 0, 1, y, n) => ~SubHand(g.subscribers[y][n], c)
    BY <1>1, <1>2 DEF Unserved, Sane, SaneSub
  <2>4. \A d \in DOMAIN g.enums : g.enums[d].promise = c => d = e
    <3>1. \A d \in DOMAIN h.enums : h.enums[d].promise \in h.made  BY DEF Sane, SaneEnum
    <3> QED  BY <1>2, <1>4, <3>1
  <2> QED  BY <1>1, <1>2, <2>1, <2>2, <2>3, <2>4 DEF Private
<1>10. \A i, n : \A y \in Promises : ~AwaitAt(g, 0, 1, e, i, y, n)
  <2> SUFFICES ASSUME NEW i, NEW n, NEW y \in Promises, AwaitAt(g, 0, 1, e, i, y, n)
               PROVE  FALSE
    OBVIOUS
  <2> DEFINE s == h.subscribers[y][n]
  <2>1. n \in DOMAIN h.subscribers[y] /\ s = Collect(e, i)
    BY <1>1 DEF AwaitAt, Unserved
  <2>2. Collects(s.ok)  BY <2>1 DEF Collects, Collect
  <2>3. PICK d \in DOMAIN h.enums : \E j \in {1, 2} : s = Collect(d, j)
    BY <2>1, <2>2 DEF Sane, SaneSub
  <2>4. PICK j \in {1, 2} : s = Collect(d, j)  BY <2>3
  <2>5. e = d  BY <2>1, <2>4, CollectFacts
  <2> QED  BY <1>4, <2>5
<1>11. Placing(g, 0, 1, m, e) /\ Mirrors(g, 0, 1, m, e, entries)
  BY <1>10 DEF Placing, Mirrors, Await
<1>12. Lefts(g, 0, 1, m, e) = {1, 2}
  <2>1. \A i \in {1, 2} : Todo(m, e, i)  BY <1>7 DEF Todo, OnTurn
  <2> QED  BY <2>1 DEF Lefts
<1>13. Summed(g, m, e, entries, {1, 2})
  <2>1. Count({1, 2}) = 2  BY DEF Count
  <2>2. g.state[c] = PENDING  BY <1>1, <1>2
  <2> HIDE DEF Count
  <2> QED  BY <1>5, <2>1, <2>2 DEF Summed
<1> QED  BY <1>6, <1>8, <1>9, <1>11, <1>12, <1>13 DEF AllOK

LEMMA allCombined ==
  ASSUME PInv, CInv, all
  PROVE  CInv'
<1>1. Stack /\ steps < MaxSteps /\ UNCHANGED <<at, turn, calls, reactions>>
  BY DEF all, Call
<1>2. /\ at = 0 /\ turn = 1 /\ Typed(heap) /\ Sane(heap) /\ Flow(heap, 0, 1)
      /\ Reacted(heap, reactions) /\ Combined(heap, 0, 1, loop, reactions, calls, alls)
      /\ \A d : ~OnTurn(loop, d)
  BY <1>1, StackNow
<1>3. Room(heap, 1)  BY <1>1, StandRoom
<1>4. PICK entries \in Entries(heap) :
         /\ heap' = Enumerator(heap, entries)
         /\ loop' = [k |-> "all", e |-> Len(heap.enums) + 1, entries |-> entries, i |-> 1]
         /\ alls' = Append(alls, [promise |-> NewPromise(heap), entries |-> entries])
  BY DEF all
<1>5. /\ Len(entries) = 2 /\ DOMAIN entries = {1, 2}
      /\ \A i \in {1, 2} : entries[i] \in Promises => entries[i] \in heap.made
  BY <1>2, ValuesApart DEF Entries, Typed, Made, Values
<1> DEFINE e == Len(heap.enums) + 1
           x == [promise |-> NewPromise(heap), entries |-> entries]
<1>6. /\ Spares(heap, heap', {}) /\ heap'.enums = Append(heap.enums, Counter(heap, entries))
  BY <1>2, <1>3, <1>4, <1>5, EnumeratorIs
<1>7. AllOK(heap', 0, 1, loop', e, x)  BY <1>2, <1>3, <1>4, <1>5, NewEnumerator
<1>8. loop'.k = "all" /\ loop'.e = e /\ loop'.entries = entries  BY <1>4
<1>9. IsSeq(heap.enums)  BY <1>2 DEF Typed, Stands
<1>10. /\ Alls(heap, 0, 1, loop, alls) /\ IsSeq(alls) /\ DOMAIN alls = DOMAIN heap.enums
       /\ Finals(heap, 0, 1, loop, reactions, calls)
  BY <1>2 DEF Combined, Alls
<1>11. /\ DOMAIN heap'.enums = DOMAIN heap.enums \cup {e} /\ e \notin DOMAIN heap.enums
       /\ IsSeq(alls') /\ DOMAIN alls' = DOMAIN alls \cup {e} /\ alls'[e] = x
       /\ \A d \in DOMAIN alls : alls'[d] = alls[d]
  <2>1. Len(alls) = Len(heap.enums) /\ Len(alls) \in Nat
    <3>1. /\ Len(alls) \in Nat /\ DOMAIN alls = 1 .. Len(alls)
          /\ Len(heap.enums) \in Nat /\ DOMAIN heap.enums = 1 .. Len(heap.enums)
      BY <1>9, <1>10, SeqFacts
    <3>2. \A i, j \in Nat : 1 .. i = 1 .. j => i = j
      <4> SUFFICES ASSUME NEW i \in Nat, NEW j \in Nat, 1 .. i = 1 .. j PROVE i = j  OBVIOUS
      <4>1. \A n : n \in 1 .. i <=> n \in 1 .. j  OBVIOUS
      <4>2. i \in Nat \ {0} => i <= j  BY <4>1
      <4>3. j \in Nat \ {0} => j <= i  BY <4>1
      <4> QED  BY <4>2, <4>3
    <3> QED  BY <1>10, <3>1, <3>2
  <2> HIDE DEF x
  <2>2. /\ DOMAIN heap.enums = 1 .. Len(heap.enums)
        /\ DOMAIN heap'.enums = 1 .. Len(heap.enums) + 1
    BY <1>6, <1>9, SeqAppend
  <2>3. /\ IsSeq(alls') /\ DOMAIN alls = 1 .. Len(alls) /\ DOMAIN alls' = 1 .. Len(alls) + 1
        /\ \A i \in 1 .. Len(alls) : alls'[i] = alls[i]
        /\ alls'[Len(alls) + 1] = x
    BY <1>4, <1>10, SeqAppend DEF x
  <2> QED  BY <2>1, <2>2, <2>3
<1> HIDE DEF e, x
<1>12. Moves(heap, 0, 1, loop, heap', 0, 1, loop', {}, {})
  <2>1. (loop'.k = "race" => (loop.k = "race" /\ loop'.e = loop.e) \/ loop'.e \notin heap.made)
        /\ 0 \in Nat /\ 0 <= 0
    BY <1>8
  <2>2. Moves(heap, 0, 1, loop, heap, 0, 1, loop', {}, {})  BY <1>2, <2>1, PassMoves
  <2>3. Moves(heap, 0, 1, loop', heap', 0, 1, loop', {}, {})  BY <1>2, <1>6, CallMoves
  <2> QED  BY <2>2, <2>3, MovesTrans
<1>13. \A y : Alone(heap, loop, y) => y \notin {}  OBVIOUS
<1>14. Finals(heap', 0, 1, loop', reactions, calls)  BY <1>2, <1>10, <1>12, <1>13, FinalsStay
<1>15. \A y \in Promises : \A v : Mirror(heap, 0, 1, loop, y, v) => Mirror(heap', 0, 1, loop', y, v)
  BY <1>12, <1>13, MirrorsStay
<1>16. Alls(heap', 0, 1, loop', alls')
  <2>1. ASSUME NEW d \in DOMAIN alls PROVE AllOK(heap', 0, 1, loop', d, alls'[d])
    <3>1. AllOK(heap, 0, 1, loop, d, alls[d])  BY <1>10 DEF Alls
    <3>2. SameTurn(loop, loop', d)  BY <1>2, <1>8, <1>10, <1>11 DEF SameTurn, OnTurn
    <3>3. \A y \in Promises : \A k, i : AwaitAt(heap, 0, 1, d, i, y, k) => <<y, k>> \notin {}  OBVIOUS
    <3>4. alls[d].promise \notin {}  OBVIOUS
    <3>5. AllOK(heap', 0, 1, loop', d, alls[d])  BY <1>12, <1>15, <3>1, <3>2, <3>3, <3>4, AllStays
    <3> QED  BY <1>11, <3>5
  <2> QED  BY <1>7, <1>10, <1>11, <2>1 DEF Alls
<1>17. Sane(heap') /\ heap.made \subseteq heap'.made  BY <1>12 DEF Moves
<1>18. LoopMade(heap', loop')  BY <1>5, <1>8, <1>17 DEF LoopMade
<1> QED  BY <1>1, <1>2, <1>14, <1>16, <1>17, <1>18 DEF CInv, Combined

\* A call of the program, or of a foreign object, that settles only what it may.
LEMMA CallCombined ==
  ASSUME PInv, CInv, Stack, NEW D, \A x \in heap.made : ~Elsewhere(heap, loop, x) => x \notin D,
         Spares(heap, heap', D), Recount(heap, heap'),
         UNCHANGED <<at, turn, loop, reactions, alls, calls>>
  PROVE  CInv'
<1>1. /\ at = 0 /\ turn = 1 /\ Typed(heap) /\ Flow(heap, 0, 1) /\ Reacted(heap, reactions)
      /\ Combined(heap, 0, 1, loop, reactions, calls, alls) /\ loop.k = "idle"
  BY StackNow
<1>2. Moves(heap, 0, 1, loop, heap', 0, 1, loop, D, {})  BY <1>1, CallMoves
<1>3. \A d \in DOMAIN alls : SameTurn(loop, loop, d)  BY DEF SameTurn
<1>4. LoopMade(heap', loop)  BY <1>1 DEF LoopMade
<1>5. Combined(heap', 0, 1, loop, reactions, calls, alls)
  BY <1>1, <1>2, <1>3, <1>4, CombinedStays DEF Recount
<1> QED  BY <1>1, <1>5 DEF CInv

LEMMA PromiseCombined ==
  ASSUME PInv, CInv, Promise
  PROVE  CInv'
<1> DEFINE p == NewPromise(heap)
           k == makePromise(heap)
           g == [k EXCEPT !.deferred = @ \cup {p}]
           D == {p}
<1>1. /\ Stack /\ steps = 0 /\ Cardinality(heap.deferred) < MaxDeferred
      /\ heap' = g \/ \E r \in Reasons : heap' = reject(g, p, r)
      /\ UNCHANGED <<at, turn, loop, reactions, alls, calls>>
  BY DEF Promise
<1>2. Typed(heap) /\ Sane(heap) /\ Room(heap, 1)
  BY <1>1, StackNow, StandRoom
<1>3. /\ p \in Promises /\ p \notin heap.made /\ p \in k.made /\ Typed(k) /\ Sane(k)
  BY <1>2, NewIsSpare
<1>4. Spares(heap, k, D)  BY <1>2, makeSpares
<1>5. Recount(heap, k)  BY <1>2, thenCounts DEF Counted, Typed, HeapFields
<1> HIDE DEF k
<1>6. /\ HeapFields \subseteq DOMAIN g /\ g.made = k.made /\ g.deferred = k.deferred \cup {p}
      /\ g.foreign = k.foreign /\ g.enums = k.enums /\ g.state = k.state
      /\ g.result = k.result /\ g.subscribers = k.subscribers /\ QueueSame(k, g)
  BY <1>3 DEF Typed, HeapFields, QueueSame
<1> HIDE DEF g, p
<1>7. Calm(k, g)
  <2>1. Made(g)  BY <1>3, <1>6 DEF Typed, Made
  <2>2. Stands(g.foreign) /\ Stands(g.enums)  BY <1>3, <1>6 DEF Typed
  <2> QED  BY <1>3, <1>6, <2>1, <2>2, SameCalm
<1>8. Spares(k, g, D)
  <2>1. \A x \in k.made \ D : x \in g.deferred => x \in k.deferred  BY <1>6
  <2> HIDE DEF D
  <2> QED  BY <1>3, <1>6, <1>7, <2>1, SameSpares
<1>9. p \in D /\ p \in g.made /\ Typed(g) /\ Sane(g)  BY <1>3, <1>6, <1>8 DEF Spares, Grows
<1>10. \A r : Spares(g, reject(g, p, r), D)  BY <1>9, rejectSpares DEF D
<1>11. Spares(g, heap', D)  BY <1>1, <1>9, <1>10, SparesSame
<1>12. Recount(heap, heap')
  <2>1. Recount(k, g)  BY <1>5, <1>6 DEF Recount, Counted, HeapFields
  <2>2. \A r : Recount(g, reject(g, p, r))  BY <2>1, settleCounts DEF Recount
  <2>3. Recount(heap, g)  BY <1>5, <2>1, RecountTrans
  <2> QED  BY <1>1, <2>2, <2>3, RecountTrans
<1>13. \A x \in heap.made : x \notin D  BY <1>3 DEF D
<1> HIDE DEF D
<1>14. Spares(heap, heap', D)
  <2>1. Spares(heap, g, D)  BY <1>4, <1>8, SparesTrans
  <2> QED  BY <1>11, <2>1, SparesTrans
<1> QED  BY <1>1, <1>12, <1>13, <1>14, CallCombined

LEMMA SettleCombined ==
  ASSUME PInv, CInv, Settle \/ Adopt
  PROVE  CInv'
<1>1. Stack /\ UNCHANGED <<at, turn, loop, reactions, alls, calls>>
  BY DEF Settle, Adopt, Call
<1>2. Typed(heap) /\ Sane(heap) /\ Counted(heap)
  BY <1>1, StackNow DEF Typed, HeapFields, Counted
<1>3. PICK p \in heap.deferred :
         (\E v : heap' = resolve(heap, p, v)) \/ (\E r : heap' = reject(heap, p, r))
  BY DEF Settle, Adopt
<1> DEFINE D == {p}
<1>4. p \in heap.made  BY <1>2 DEF Typed, Made
<1>5. Spares(heap, heap', D)  BY <1>2, <1>3, <1>4, resolveSpares, rejectSpares
<1>6. Recount(heap, heap')  BY <1>2, <1>3, resolveCounts, settleCounts
<1>7. \A x \in heap.made : ~Elsewhere(heap, loop, x) => x \notin D  BY DEF Elsewhere
<1> HIDE DEF D
<1> QED  BY <1>1, <1>5, <1>6, <1>7, CallCombined

LEMMA StaticCombined ==
  ASSUME PInv, CInv, Static
  PROVE  CInv'
<1>1. Stack /\ steps < MaxSteps /\ UNCHANGED <<at, turn, loop, reactions, alls, calls>>
  BY DEF Static, Call
<1>2. Typed(heap) /\ Sane(heap) /\ Counted(heap) /\ Room(heap, 1)
  BY <1>1, StackNow, StandRoom DEF Typed, HeapFields, Counted
<1>3. \E v : heap' = resolveStatic(heap, v) \/ heap' = rejectStatic(heap, v)
  BY DEF Static
<1>4. Spares(heap, heap', {})  BY <1>2, <1>3, StaticSpares
<1>5. Recount(heap, heap')  BY <1>2, <1>3, StaticCounts
<1>6. \A x \in heap.made : ~Elsewhere(heap, loop, x) => x \notin {}  OBVIOUS
<1> QED  BY <1>1, <1>4, <1>5, <1>6, CallCombined

LEMMA LateCombined ==
  ASSUME PInv, CInv, ForeignLate
  PROVE  CInv'
<1>1. Stack /\ UNCHANGED <<at, turn, loop, reactions, alls, calls>>
  BY DEF ForeignLate
<1>2. Typed(heap) /\ Sane(heap) /\ Counted(heap)
  BY <1>1, StackNow DEF Typed, HeapFields, Counted
<1>3. PICK f \in DOMAIN heap.foreign : \E c : heap' = foreignCall(heap, f, c)
  BY DEF ForeignLate
<1> DEFINE D == {heap.foreign[f].promise}
<1>4. Spares(heap, heap', D)  BY <1>2, <1>3, foreignCallSpares
<1>5. Recount(heap, heap')  BY <1>2, <1>3, foreignCallCounts
<1>6. \A x \in heap.made : ~Elsewhere(heap, loop, x) => x \notin D  BY DEF Elsewhere
<1> HIDE DEF D
<1> QED  BY <1>1, <1>4, <1>5, <1>6, CallCombined

\* flush begins or ends.
LEMMA FlushCombined ==
  ASSUME PInv, PInv', CInv, FlushStart \/ FlushEnd
  PROVE  CInv'
<1>1. World(heap, at, turn, reactions, calls) /\ World(heap, at, turn, reactions, calls)'
  BY DEF PInv, Stand
<1>2. Typed(heap) /\ Typed(heap') /\ Flow(heap, at, turn)  BY <1>1, WorldTyped
<1>3. /\ Reacted(heap, reactions) /\ Combined(heap, at, turn, loop, reactions, calls, alls)
      /\ Sane(heap) /\ at \in Nat
  BY <1>1, <1>2 DEF World, CInv, Combined, Flow
<1>4. UNCHANGED <<turn, loop, reactions, alls, calls>> /\ loop = Idle
  BY DEF FlushStart, FlushEnd, Stack
<1>5. /\ turn = 1 /\ at' \in Nat
      /\ \/ heap' = [heap EXCEPT !.scheduled = FALSE] /\ at <= at'
         \/ heap' = [heap EXCEPT !.queue = <<>>]
  <2>1. CASE FlushStart
    <3>1. at = 0  BY <2>1 DEF FlushStart, Stack
    <3> QED  BY <1>1, <2>1, <3>1, WorldTyped DEF FlushStart
  <2>2. CASE FlushEnd
    <3>1. at > Len(heap.queue)  BY <2>2 DEF FlushEnd
    <3> QED  BY <1>1, <2>2, <3>1, EndWorld DEF FlushEnd
  <2> QED  BY <2>1, <2>2
<1>6. Moves(heap, at, 1, loop, heap', at', 1, loop, {}, {})
  BY <1>2, <1>3, <1>5, QueueMoves
<1>7. DOMAIN heap'.enums = DOMAIN heap.enums
  BY <1>2, <1>5, RecountFields DEF Recount, Counted, Typed, HeapFields
<1>8. \A d \in DOMAIN alls : SameTurn(loop, loop, d)  BY DEF SameTurn
<1>9. LoopMade(heap', loop)  BY <1>4 DEF LoopMade, Idle
<1>10. \A x \in heap.made : ~Elsewhere(heap, loop, x) => x \notin {}  OBVIOUS
<1>11. Combined(heap', at', 1, loop, reactions, calls, alls)
  BY <1>2, <1>3, <1>5, <1>6, <1>7, <1>8, <1>9, <1>10, CombinedStays
<1> QED  BY <1>4, <1>5, <1>11 DEF CInv

\* The promise of a new call of `finally' waits for its callback.
LEMMA NewFinally ==
  ASSUME NEW h, Typed(h), Sane(h), Room(h, 1), NEW a, NEW t, NEW l, l.k # "race", NEW p \in Promises,
         NEW ok, NEW err, Mine(ok), Mine(err), NEW c, c = NewPromise(h), NEW r,
         r.parent = p, r.child = c, r.ok = ok, r.err = err, NEW g, g = then(h, p, ok, err)
  PROVE  OwnHand(g, a, t, l, r)
<1>1. Handed(h, g, p, c, ok, err)  BY ThenHands
<1>2. c \in Promises /\ c \notin h.made /\ h.state[c] = PENDING  BY NewIsSpare
<1>3. g.state = h.state /\ g.result = h.result /\ c \in g.made  BY <1>1 DEF Handed
<1>4. Alone(g, l, c)  BY <1>1, <1>2, <1>3, NewAlone DEF Handed
<1>5. ASSUME NEW q, Unrun(g, a, q), JobHand(g.queue[q], c)
      PROVE  OfJob(g, a, q, r)
  <2>1. h.state[p] # PENDING /\ g.queue[q] = Invoke(h, p, c, ok, err)
    BY <1>1, <1>5 DEF Handed, Unrun
  <2>2. /\ g.queue[q].k = "invoke" /\ g.queue[q].child = c /\ g.queue[q].detail = h.result[p]
        /\ g.queue[q].callback = IF h.state[p] = FULFILLED THEN ok ELSE err
    BY <2>1 DEF Invoke
  <2>3. g.queue[q].callback = CalledFor(g, r) /\ Mine(g.queue[q].callback)
    BY <1>3, <2>2 DEF CalledFor
  <2> QED  BY <1>3, <1>5, <2>1, <2>2, <2>3 DEF OfJob, Awaits, Unrun
<1>6. ASSUME NEW y \in Promises, NEW k, Unserved(g, a, t, y, k), SubHand(g.subscribers[y][k], c)
      PROVE  OfSub(g, y, k, r)
  BY <1>1, <1>6 DEF Handed, Unserved, OfSub
<1> QED  BY <1>2, <1>3, <1>4, <1>5, <1>6 DEF OwnHand

LEMMA ReactCombined ==
  ASSUME PInv, PInv', CInv, Then \/ Finally
  PROVE  CInv'
<1>1. loop = Idle /\ steps < MaxSteps /\ UNCHANGED <<at, turn, loop, alls, calls>>
  BY DEF Then, Finally, CallAnywhere, Stack, InCallback
<1>2. /\ loop.k = "idle" /\ Typed(heap) /\ Sane(heap) /\ Flow(heap, at, turn)
      /\ Reacted(heap, reactions) /\ World(heap, at, turn, reactions, calls)
      /\ Combined(heap, at, turn, loop, reactions, calls, alls)
  <2>1. World(heap, at, turn, reactions, calls)  BY DEF PInv, Stand
  <2> QED  BY <1>1, <2>1, WorldTyped DEF CInv, Combined, World, Idle
<1>3. Room(heap, 1)  BY <1>1, StandRoom
<1>4. Typed(heap')
  <2>1. World(heap, at, turn, reactions, calls)'  BY DEF PInv, Stand
  <2> QED  BY <2>1, WorldTyped
<1>5. PICK p, ok, err :
         /\ p \in heap.made
         /\ heap' = then(heap, p, ok, err)
         /\ reactions' = Append(reactions, [parent |-> p, child |-> NewPromise(heap),
                                            ok |-> ok, err |-> err])
         /\ CallbackOK(heap, ok) /\ CallbackOK(heap, err)
         /\ ok.k \in {"none", "user", "finally"} /\ err.k \in {"none", "user", "finally"}
         /\ ok.k = "finally" => ok.then = "return" /\ err.then = "throw" /\ Mine(ok) /\ Mine(err)
  <2>1. CASE Then
    BY <2>1 DEF Then, CallbackOK, User, NoCallback
  <2>2. CASE Finally
    BY <2>2 DEF Finally, CallbackOK, Mine
  <2> QED  BY <2>1, <2>2
<1> DEFINE c == NewPromise(heap)
           r == [parent |-> p, child |-> c, ok |-> ok, err |-> err]
<1>6. p \in Promises  BY <1>2, <1>5 DEF Typed, Made
<1>7. c \in Promises /\ c \notin heap.made  BY <1>2, <1>3, NewIsSpare
<1>8. Spares(heap, heap', {})
  <2>1. ~Collects(ok) /\ ~Collects(err)  BY <1>5 DEF Collects
  <2>2. \A x \in Promises : Names(ok, x) \/ Names(err, x) => x \in heap.made /\ x \in {}
    BY <1>5 DEF Names
  <2> QED  BY <1>2, <1>3, <1>4, <1>5, <1>6, <2>1, <2>2, thenSpares
<1>9. Moves(heap, at, turn, loop, heap', at, turn, loop, {}, {})  BY <1>2, <1>8, CallMoves
<1>10. DOMAIN heap'.enums = DOMAIN heap.enums
  <2>1. Counted(heap)  BY <1>2 DEF Counted, Typed, HeapFields
  <2>2. Recount(heap, then(heap, p, ok, err))  BY <2>1, thenCounts
  <2>3. heap' = then(heap, p, ok, err)  BY <1>5
  <2> QED  BY <2>2, <2>3 DEF Recount
<1>11. Combined(heap', at, turn, loop, reactions, calls, alls)
  <2>1. \A d \in DOMAIN alls : SameTurn(loop, loop, d)  BY DEF SameTurn
  <2>2. LoopMade(heap', loop)  BY <1>2 DEF LoopMade
  <2>3. \A x \in heap.made : ~Elsewhere(heap, loop, x) => x \notin {}  OBVIOUS
  <2> QED  BY <1>2, <1>9, <1>10, <2>1, <2>2, <2>3, CombinedStays
<1>12. r.parent = p /\ r.child = c /\ r.ok = ok /\ r.err = err  OBVIOUS
<1>13. reactions' = Append(reactions, r)  BY <1>5
<1> HIDE DEF r, c
<1>14. ok.k = "finally" => FinallyOK(heap', at, turn, loop, r, calls)
  <2>1. ~Called(calls, r.child)
    BY <1>2, <1>7, <1>12 DEF Called, World, CallsRight
  <2> HAVE ok.k = "finally"
  <2>2. OwnHand(heap', at, turn, loop, r)
    BY <1>2, <1>3, <1>5, <1>6, <1>12, NewFinally DEF c
  <2> QED  BY <2>1, <2>2 DEF FinallyOK
<1>15. Finals(heap', at, turn, loop, reactions', calls)
  <2>1. IsSeq(reactions)  BY <1>2 DEF Reacted
  <2>2. \A n \in DOMAIN reactions' :
           (n \in DOMAIN reactions /\ reactions'[n] = reactions[n]) \/ reactions'[n] = r
    BY <1>13, <2>1, SeqAppend
  <2>3. Finals(heap', at, turn, loop, reactions, calls)  BY <1>11 DEF Combined
  <2> QED  BY <1>5, <1>12, <1>14, <2>2, <2>3 DEF Finals
<1> QED  BY <1>1, <1>2, <1>11, <1>15 DEF CInv, Combined

-----------------------------------------------------------------------------
(* The jobs of flush                                                       *)

LEMMA CalledMore ==
  ASSUME NEW C, IsSeq(C), NEW c, NEW x
  PROVE  Called(Append(C, c), x) <=> Called(C, x) \/ c.child = x
<1>1. /\ DOMAIN Append(C, c) = 1 .. Len(C) + 1 /\ DOMAIN C = 1 .. Len(C) /\ Len(C) \in Nat
      /\ \A i \in 1 .. Len(C) : Append(C, c)[i] = C[i]
      /\ Append(C, c)[Len(C) + 1] = c
  BY SeqAppend
<1>2. \A i : i \in DOMAIN Append(C, c) <=> i \in DOMAIN C \/ i = Len(C) + 1  BY <1>1
<1> QED  BY <1>1, <1>2 DEF Called

LEMMA RecordedCalls ==
  ASSUME NEW C, IsSeq(C), NEW cb, NEW c, NEW E, Recorded(C, cb, c, E)
  PROVE  /\ \A x : Called(C, x) => Called(E, x)
         /\ \A x : Called(E, x) => Called(C, x) \/ x = c
         /\ Mine(cb) => Called(E, c)
<1>1. CASE Mine(cb)
  <2>1. PICK d : E = Append(C, d) /\ d.child = c  BY <1>1 DEF Recorded
  <2>2. \A x : Called(E, x) <=> Called(C, x) \/ d.child = x  BY <2>1, CalledMore
  <2> QED  BY <2>1, <2>2
<1>2. CASE ~Mine(cb)  BY <1>2 DEF Recorded
<1> QED  BY <1>1, <1>2

\* The job calls the callback of `finally' for the reaction r.
LEMMA JobOwn ==
  ASSUME NEW h, NEW a, NEW R, NEW C, World(h, a, 1, R, C), Sane(h), NEW l, l.k = "idle",
         a \in DOMAIN h.queue, NEW j, j = h.queue[a], NEW D, JobOf(h, l, j, D),
         NEW g, NEW E, NEW o, o.d = NoChild \/ o.d \in h.deferred,
         IF j.k = "invoke"
         THEN /\ g = invokeCallback(h, j.settled, j.child, j.callback, j.detail, o)
              /\ Recorded(C, j.callback, j.child, E) /\ j.child \in D
              /\ j.callback.k = "finally" => Room(h, 2)
         ELSE E = C,
         NEW n \in DOMAIN R, R[n].ok.k = "finally", R[n].ok.then = "return", R[n].err.then = "throw"
  PROVE  OwnRuns(h, a, 1, l, g, a + 1, 1, l, D, R[n], C, E)
<1> DEFINE r == R[n]
           c == r.child
<1> SUFFICES ASSUME ~Called(C, c), OwnHand(h, a, 1, l, r)
             PROVE  IF c \in D THEN FinallyOK(g, a + 1, 1, l, r, E) ELSE ~Called(E, c)
  BY DEF OwnRuns
<1>1. /\ Typed(h) /\ Flow(h, a, 1) /\ Reacted(h, R) /\ IsSeq(C) /\ a \in Nat
  BY WorldTyped DEF World, Flow
<1>2. r.parent \in Promises /\ c \in Promises /\ Mine(r.err) /\ r.err.k = "finally"
  <2>1. c \in h.made /\ r.parent \in Promises /\ r.err.k = "finally"  BY <1>1 DEF Reacted
  <2> QED  BY <1>1, <2>1 DEF Typed, Made, Mine
<1>3. h.state[c] = PENDING /\ Alone(h, l, c) /\ ~Elsewhere(h, l, c)  BY DEF OwnHand, Alone
<1>4. Unrun(h, a, a)  BY <1>1 DEF Unrun
<1>5. CASE c \in D
  <2>1. JobHand(j, c)  BY <1>2, <1>3, <1>5 DEF JobOf
  <2>2. OfJob(h, a, a, r)  BY <1>4, <2>1 DEF OwnHand
  <2>3. /\ j.k = "invoke" /\ Mine(j.callback) /\ h.state[r.parent] # PENDING /\ j.child = c
        /\ j.callback = CalledFor(h, r) /\ j.detail = h.result[r.parent]
    BY <2>2 DEF OfJob, Awaits
  <2>4. /\ j.callback.k = "finally"
        /\ j.callback.then = IF h.state[r.parent] = FULFILLED THEN "return" ELSE "throw"
    BY <1>2, <2>3 DEF CalledFor
  <2>5. Room(h, 2) /\ g = invokeCallback(h, j.settled, c, j.callback, j.detail, o)
    BY <2>3, <2>4
  <2>6. Called(E, c)  BY <1>1, <2>3, RecordedCalls
  <2>7. Flow(h, a + 1, 1)
    <3>1. a + 1 <= Len(h.queue) + 1 /\ a + 1 \in Nat /\ a + 1 > 0  BY <1>1, JobIndex
    <3> QED  BY <1>1, <3>1 DEF Flow
  <2>8. Free(h, a + 1, 1, l, c)
    <3>1. ASSUME NEW q, Unrun(h, a + 1, q), JobHand(h.queue[q], c)  PROVE FALSE
      <4>1. q \in Nat  BY <1>1, <3>1, JobIndex DEF Unrun
      <4>2. Unrun(h, a, q) /\ q # a  BY <1>1, <3>1, <4>1 DEF Unrun
      <4>3. OfJob(h, a, q, r)  BY <3>1, <4>2 DEF OwnHand
      <4> QED  BY <2>2, <4>2, <4>3, OneHand
    <3>2. ASSUME NEW y \in Promises, NEW k, Unserved(h, a + 1, 1, y, k), SubHand(h.subscribers[y][k], c)
          PROVE  FALSE
      <4>1. Unserved(h, a, 1, y, k)
        <5>1. k \in DOMAIN h.subscribers[y]  BY <3>2 DEF Unserved
        <5> QED  BY <1>1, <5>1, FirstTurnServed
      <4>2. OfSub(h, y, k, r)  BY <3>2, <4>1 DEF OwnHand
      <4> QED  BY <2>2, <4>2, OneHand
    <3> QED  BY <1>3, <3>1, <3>2 DEF Free
  <2>9. \/ Repeats(g, c, r.parent)
        \/ \E q \in Promises : /\ q # c /\ OnlyLink(g, a + 1, 1, l, c, q)
                               /\ Repeater(g, a + 1, 1, l, q, r.parent)
    <3> DEFINE b == a + 1
    <3> HIDE DEF r, c, b
    <3>1. Flow(h, b, 1) /\ Free(h, b, 1, l, c) /\ l.k # "race"  BY <2>7, <2>8 DEF b
    <3>2. \/ Repeats(g, c, r.parent)
          \/ \E q \in Promises : /\ q # c /\ OnlyLink(g, b, 1, l, c, q)
                                 /\ Repeater(g, b, 1, l, q, r.parent)
      BY <1>1, <1>2, <2>3, <2>4, <2>5, <3>1, FinallyRun
    <3> QED  BY <3>2 DEF b
  <2> QED  BY <1>5, <2>6, <2>9 DEF FinallyOK
<1>6. CASE c \notin D
  <2>1. ~Called(E, c)  BY <1>1, <1>6, RecordedCalls
  <2> QED  BY <1>6, <2>1
<1> QED  BY <1>5, <1>6

\* Every place of `all' that no step fills is as it was.
LEMMA AllsRun ==
  ASSUME NEW h, NEW a, NEW t, NEW l, NEW g, NEW b, NEW u, NEW D, NEW U,
         Moves(h, a, t, l, g, b, u, l, D, U), LinksRun(h, a, t, l, g, D),
         \A y, x \in Promises : \A k : <<y, k>> \in U /\ h.subscribers[y][k] = Link(x) => x \in D,
         NEW A, Alls(h, a, t, l, A), DOMAIN g.enums = DOMAIN h.enums,
         \A e \in DOMAIN A :
            \/ AllOK(g, b, u, l, e, A[e])
            \/ /\ A[e].promise \notin D
               /\ \A y \in Promises : \A k, i : AwaitAt(h, a, t, e, i, y, k) => <<y, k>> \notin U
  PROVE  Alls(g, b, u, l, A)
<1>1. \A y \in Promises : \A v : Mirror(h, a, t, l, y, v) => Mirror(g, b, u, l, y, v)
  BY MirrorsRun
<1>2. \A e : SameTurn(l, l, e)  BY DEF SameTurn
<1>3. ASSUME NEW e \in DOMAIN A PROVE AllOK(g, b, u, l, e, A[e])
  <2>1. AllOK(h, a, t, l, e, A[e])  BY DEF Alls
  <2>2. CASE AllOK(g, b, u, l, e, A[e])  BY <2>2
  <2>3. CASE /\ A[e].promise \notin D
             /\ \A y \in Promises : \A k, i : AwaitAt(h, a, t, e, i, y, k) => <<y, k>> \notin U
    BY <1>1, <1>2, <2>1, <2>3, AllStays
  <2> QED  BY <2>2, <2>3
<1> QED  BY <1>3 DEF Alls

\* A job is run.
LEMMA JobRun ==
  ASSUME NEW h, NEW a, NEW R, NEW C, World(h, a, 1, R, C), NEW l, l.k = "idle", NEW A,
         Combined(h, a, 1, l, R, C, A), a \in DOMAIN h.queue, NEW j, j = h.queue[a],
         NEW D, JobOf(h, l, j, D), NEW g, Spares(h, g, D), Recount(h, g),
         NEW E, NEW o, o.d = NoChild \/ o.d \in h.deferred,
         IF j.k = "invoke"
         THEN /\ g = invokeCallback(h, j.settled, j.child, j.callback, j.detail, o)
              /\ Recorded(C, j.callback, j.child, E) /\ j.child \in D
              /\ j.callback.k = "finally" => Room(h, 2)
         ELSE E = C
  PROVE  Combined(g, a + 1, 1, l, R, E, A)
<1>1. /\ Typed(h) /\ Flow(h, a, 1) /\ Reacted(h, R) /\ IsSeq(C) /\ a \in Nat
  BY WorldTyped DEF World, Flow
<1>2. Sane(h) /\ Finals(h, a, 1, l, R, C) /\ Alls(h, a, 1, l, A)  BY DEF Combined
<1>3. Unrun(h, a, a)  BY <1>1 DEF Unrun
<1> DEFINE b == a + 1
<1>4. Moves(h, a, 1, l, g, b, 1, l, D, {})
  <2>1. b \in Nat /\ a <= b /\ b > 0 /\ b <= Len(h.queue) + 1  BY <1>1, JobIndex
  <2> HIDE DEF b
  <2>2. Flow(h, b, 1)  BY <1>1, <2>1 DEF Flow
  <2>3. Moves(h, a, 1, l, h, b, 1, l, {}, {})  BY <1>1, <1>2, <2>1, PassMoves
  <2>4. Moves(h, a, 1, l, h, b, 1, l, D, {})  BY <2>3, MovesMore
  <2>5. Moves(h, b, 1, l, g, b, 1, l, D, {})  BY <1>1, <2>2, CallMoves
  <2> QED  BY <2>4, <2>5, MovesTrans
<1>5. LinksRun(h, a, 1, l, g, D)
  <2> SUFFICES ASSUME NEW x \in Promises, NEW p \in Promises, OnlyLink(h, a, 1, l, x, p), x \in D
               PROVE  FALSE
    BY DEF LinksRun
  <2>1. ~Elsewhere(h, l, x)  BY DEF OnlyLink, Alone
  <2>2. JobHand(j, x)  BY <2>1 DEF JobOf
  <2> QED  BY <1>3, <2>2 DEF OnlyLink
<1>6. RepeatsRun(h, a, 1, l, g, D)
  <2> SUFFICES ASSUME NEW q \in Promises, NEW p \in Promises, Repeater(h, a, 1, l, q, p),
                      h.state[q] = PENDING, q \in D, ~Foreign(h, p)
               PROVE  Repeats(g, q, p)
    BY DEF RepeatsRun
  <2>1. ~Repeats(h, q, p)  BY DEF Repeats, PENDING, FULFILLED, REJECTED
  <2>2. ~Elsewhere(h, l, q)  BY <2>1 DEF Repeater, Alone
  <2>3. JobHand(j, q)  BY <2>2 DEF JobOf
  <2>4. RepeatJob(h, p, j, q)  BY <1>3, <2>1, <2>3 DEF Repeater
  <2>5. /\ g = invokeCallback(h, j.settled, q, j.callback, j.detail, o)
        /\ Repeat(h, p, j.callback) \/ (j.callback = NoCallback /\ j.settled = REJECTED)
    BY <2>4 DEF RepeatJob
  <2> QED  BY <1>1, <1>2, <2>5, RepeatRun
<1>7. \A n \in DOMAIN R : R[n].ok.k = "finally" => OwnRuns(h, a, 1, l, g, b, 1, l, D, R[n], C, E)
  <2> SUFFICES ASSUME NEW n \in DOMAIN R, R[n].ok.k = "finally"
               PROVE  OwnRuns(h, a, 1, l, g, b, 1, l, D, R[n], C, E)
    OBVIOUS
  <2>1. R[n].ok.then = "return" /\ R[n].err.then = "throw"  BY <1>2 DEF Finals
  <2> QED  BY <1>2, <2>1, JobOwn
<1> HIDE DEF b
<1>8. \A x : Called(C, x) => Called(E, x)  BY <1>1, RecordedCalls
<1>9. Finals(g, b, 1, l, R, E)  BY <1>1, <1>2, <1>4, <1>5, <1>6, <1>7, <1>8, FinalsRun
<1>10. Alls(g, b, 1, l, A)
  <2>1. \A e \in DOMAIN A : A[e].promise \notin D
    <3> SUFFICES ASSUME NEW e \in DOMAIN A, A[e].promise \in D PROVE FALSE  OBVIOUS
    <3>1. Private(h, a, 1, l, e, A[e].promise)  BY <1>2 DEF Alls, AllOK
    <3>2. A[e].promise \in Promises /\ ~Elsewhere(h, l, A[e].promise)  BY <3>1 DEF Private
    <3>3. JobHand(j, A[e].promise)  BY <3>2 DEF JobOf
    <3> QED  BY <1>3, <3>1, <3>3 DEF Private
  <2> QED  BY <1>2, <1>4, <1>5, <2>1, AllsRun DEF Recount
<1>11. Sane(g) /\ LoopMade(g, l)  BY <1>4 DEF Moves, LoopMade
<1> QED  BY <1>9, <1>10, <1>11 DEF Combined, b

LEMMA InvokeCombined ==
  ASSUME ArraysApart, PInv, CInv, RunInvoke
  PROVE  CInv'
<1> DEFINE j == heap.queue[at]
           D == {x \in Promises : JobHand(j, x) \/ Elsewhere(heap, loop, x)}
<1>1. /\ at \in DOMAIN heap.queue /\ loop = Idle /\ j.k = "invoke"
      /\ at' = at + 1 /\ UNCHANGED <<turn, loop, reactions, alls>>
      /\ Recorded(calls, j.callback, j.child, calls')
  BY DEF RunInvoke, Job, Record, Recorded, Mine
<1>2. PICK o \in OutcomesOf(heap, j.callback) :
         heap' = invokeCallback(heap, j.settled, j.child, j.callback, j.detail, o)
  BY DEF RunInvoke
<1>3. World(heap, at, turn, reactions, calls)  BY DEF PInv, Stand
<1>4. Typed(heap) /\ Flow(heap, at, turn)  BY <1>3, WorldTyped
<1>5. turn = 1 /\ at \in Nat  BY <1>1, <1>4 DEF Flow
<1>6. Combined(heap, at, 1, loop, reactions, calls, alls) /\ Sane(heap)
  BY <1>5 DEF CInv, Combined
<1>7. j.child \in Promises /\ CallbackOK(heap, j.callback) /\ SaneJob(heap, j)
  BY <1>1, <1>4, <1>6 DEF Typed, Jobs, JobOK, Sane
<1>8. o.d = NoChild \/ o.d \in heap.deferred
  <2>1. CASE o = NoOutcome  BY <2>1 DEF NoOutcome
  <2>2. CASE o \in Outcomes(heap)  BY <2>2 DEF Outcomes
  <2> QED  BY <1>2, <2>1, <2>2 DEF OutcomesOf
<1>9. j.callback.k = "finally" => Room(heap, 2)
  <2> HAVE j.callback.k = "finally"
  <2>1. Awaits(heap, at, at)  BY <1>1, <1>5 DEF Awaits, Mine
  <2>2. PICK n \in DOMAIN reactions : OfJob(heap, at, at, reactions[n])
    BY <1>3, <2>1 DEF World, Known
  <2>3. j.callback = CalledFor(heap, reactions[n])  BY <2>2 DEF OfJob
  <2>4. reactions[n].ok.k = "finally"
    BY <1>3, <2>3 DEF World, Reacted, CalledFor
  <2>5. n \in Waiting(reactions, calls)  BY <1>3, <2>2, <2>4, NotCalled
  <2> QED  BY <2>5, StandRoom
<1> HIDE DEF j
<1>10. \A x \in Promises : x \in D <=> JobHand(j, x) \/ Elsewhere(heap, loop, x)  OBVIOUS
<1> HIDE DEF D
<1>11. JobOf(heap, loop, j, D)  BY <1>10 DEF JobOf
<1>12. j.child \in D /\ j.child \in heap.made
  BY <1>1, <1>7, <1>10 DEF JobHand, SaneJob
<1>13. Within(heap, j.callback, o, D)
  <2>1. \A x \in Promises : Names(j.callback, x) => x \in heap.made /\ x \in D
    BY <1>1, <1>7, <1>10 DEF JobHand, SaneJob
  <2>2. ~Collects(j.callback)  BY <1>1, <1>7 DEF SaneJob
  <2>3. o.d = NoChild \/ (o.d \in heap.made /\ o.d \in D)
    BY <1>4, <1>8, <1>10 DEF Elsewhere, Typed, Made
  <2> QED  BY <2>1, <2>2, <2>3 DEF Within
<1>14. Spares(heap, heap', D)
  <2>1. j.settled = FULFILLED => Flat(j.detail)  BY <1>1, <1>7 DEF SaneJob
  <2> QED  BY <1>2, <1>4, <1>6, <1>7, <1>9, <1>12, <1>13, <2>1, invokeCallbackSpares
<1>15. Recount(heap, heap')  BY <1>2, <1>4, <1>6, <1>7, invokeCallbackCounts
<1>16. loop.k = "idle"  BY <1>1 DEF Idle
<1>17. Combined(heap', at + 1, 1, loop, reactions, calls', alls)
  <2>1. j = heap.queue[at]  BY DEF j
  <2>2. World(heap, at, 1, reactions, calls)  BY <1>3, <1>5
  <2> QED  BY <1>1, <1>2, <1>6, <1>8, <1>9, <1>11, <1>12, <1>14, <1>15, <1>16, <2>1, <2>2, JobRun
<1> QED  BY <1>1, <1>5, <1>17 DEF CInv

LEMMA ForeignCombined ==
  ASSUME PInv, CInv, RunForeign
  PROVE  CInv'
<1> DEFINE j == heap.queue[at]
           p == j.promise
           f == Len(heap.foreign) + 1
           g == Asked(heap, p, j.thenable)
           D == {p}
<1>1. /\ at \in DOMAIN heap.queue /\ loop = Idle /\ j.k = "foreign"
      /\ at' = at + 1 /\ UNCHANGED <<turn, loop, reactions, alls, calls>>
      /\ heap' = g \/ \E c : heap' = foreignCall(g, f, c)
  BY DEF RunForeign, Job, Asked
<1>2. World(heap, at, turn, reactions, calls)  BY DEF PInv, Stand
<1>3. Typed(heap) /\ Flow(heap, at, turn)  BY <1>2, WorldTyped
<1>4. turn = 1  BY <1>1, <1>3 DEF Flow
<1>5. Combined(heap, at, 1, loop, reactions, calls, alls) /\ Sane(heap)
  BY <1>4 DEF CInv, Combined
<1>6. p \in Promises /\ SaneJob(heap, j)
  BY <1>1, <1>3, <1>5 DEF Typed, Jobs, JobOK, Sane
<1>7. JobHand(j, p) /\ p \in heap.made /\ Flat(j.thenable)
  BY <1>1, <1>6 DEF JobHand, SaneJob
<1>8. Recount(heap, g)
  BY <1>3, RecountFields, Zenon DEF Counted, Typed, HeapFields, Asked
<1> HIDE DEF p
<1>9. Spares(heap, g, D) /\ f \in DOMAIN g.foreign /\ g.foreign[f].promise = p
  BY <1>3, <1>5, <1>7, AskedSpares
<1> HIDE DEF g, f
<1>10. Typed(g) /\ Sane(g)  BY <1>9 DEF Spares, Grows
<1>11. \A c : Spares(g, foreignCall(g, f, c), D)
  BY <1>9, <1>10, foreignCallSpares
<1>12. JobOf(heap, loop, j, D)  BY <1>7 DEF JobOf
<1> HIDE DEF D
<1>13. Spares(heap, heap', D)
  <2>1. \A c : Spares(heap, foreignCall(g, f, c), D)  BY <1>9, <1>11, SparesTrans
  <2> QED  BY <1>1, <1>9, <2>1
<1>14. Recount(heap, heap')
  <2>1. Counted(g)  BY <1>8 DEF Recount
  <2>2. \A c : Recount(g, foreignCall(g, f, c))  BY <2>1, foreignCallCounts
  <2> QED  BY <1>1, <1>8, <2>2, RecountTrans
<1>15. loop.k = "idle" /\ NoOutcome.d = NoChild  BY <1>1 DEF Idle, NoOutcome
<1>16. Combined(heap', at + 1, 1, loop, reactions, calls, alls)
  <2>1. World(heap, at, 1, reactions, calls) /\ j.k # "invoke"  BY <1>1, <1>2, <1>4
  <2> QED  BY <1>1, <1>5, <1>12, <1>13, <1>14, <1>15, <2>1, JobRun
<1> QED  BY <1>1, <1>4, <1>16 DEF CInv

-----------------------------------------------------------------------------
(* The turns of publish                                                    *)

LEMMA ServingFacts ==
  ASSUME NEW h, Typed(h), NEW a, NEW t, Flow(h, a, t), NEW p \in Promises, NEW s,
         Serving(h, a, t, p, s)
  PROVE  /\ t \in Nat \ {0} /\ Unserved(h, a, t, p, t) /\ Flow(h, a, t + 1)
<1>1. t \in Nat \ {0} /\ t <= Len(h.subscribers[p]) /\ Len(h.subscribers[p]) \in Nat
  BY SubIndex DEF Serving
<1>2. Unserved(h, a, t, p, t)  BY <1>1 DEF Unserved, Served, Serving
<1>3. h.queue[a].k = "publish" /\ h.queue[a].promise = p  BY DEF Serving, Publish
<1>4. t + 1 \in Nat \ {0} /\ t + 1 <= Len(h.subscribers[p]) + 1  BY <1>1
<1>5. Flow(h, a, t + 1)  BY <1>3, <1>4 DEF Flow, Serving
<1> QED  BY <1>1, <1>2, <1>5

\* Who follows p is settled as it is.
LEMMA SubLinks ==
  ASSUME NEW h, Typed(h), Sane(h), NEW a, NEW t, Flow(h, a, t), NEW l, NEW p \in Promises, NEW s,
         Serving(h, a, t, p, s), NEW D, SubOf(h, l, s, D), NEW cb, ChosenBy(h, p, s, cb), NEW o,
         NEW g, Turned(h, p, s, cb, o, g), Kept(h, g)
  PROVE  LinksRun(h, a, t, l, g, D)
<1> SUFFICES ASSUME NEW x \in Promises, NEW y \in Promises, OnlyLink(h, a, t, l, x, y), x \in D
             PROVE  h.state[y] # PENDING /\ (Foreign(h, y) \/ Same(g, x, y))
  BY DEF LinksRun
<1>1. h.state[x] = PENDING /\ ~Elsewhere(h, l, x) /\ ~Assigns(h, s, x)
  BY DEF OnlyLink, Alone, Assigns
<1>2. SubHand(s, x)  BY <1>1 DEF SubOf
<1>3. h.subscribers[p][t] = s /\ Unserved(h, a, t, p, t)  BY ServingFacts DEF Serving
<1>4. p = y /\ s = Link(x)  BY <1>2, <1>3 DEF OnlyLink
<1>5. h.state[p] # PENDING  BY DEF Serving
<1>6. ASSUME ~Foreign(h, p) PROVE Same(g, x, p)
  <2>1. s.child = NoChild  BY <1>4 DEF Link
  <2>2. g = tryCatch(h, cb, h.result[p], o).heap  BY <2>1 DEF Turned
  <2>3. cb = IF h.state[p] = FULFILLED THEN Link(x).ok ELSE Link(x).err
    BY <1>4 DEF ChosenBy
  <2>4. g.state[x] = h.state[p] /\ g.result[x] = h.result[p]
    BY <1>1, <1>5, <1>6, <2>2, <2>3, LinkRun
  <2>5. g.state[p] = h.state[p] /\ g.result[p] = h.result[p]  BY <1>5 DEF Kept
  <2> QED  BY <1>5, <2>4, <2>5 DEF Same
<1> QED  BY <1>4, <1>5, <1>6

\* Who repeats an outcome does.
LEMMA SubRepeats ==
  ASSUME NEW h, Typed(h), Sane(h), NEW a, NEW t, Flow(h, a, t), NEW l, NEW p \in Promises, NEW s,
         Serving(h, a, t, p, s), NEW D, SubOf(h, l, s, D), NEW cb, ChosenBy(h, p, s, cb), NEW o,
         NEW g, Turned(h, p, s, cb, o, g)
  PROVE  RepeatsRun(h, a, t, l, g, D)
<1> SUFFICES ASSUME NEW q \in Promises, NEW y \in Promises, Repeater(h, a, t, l, q, y),
                    h.state[q] = PENDING, q \in D, ~Foreign(h, y)
             PROVE  Repeats(g, q, y)
  BY DEF RepeatsRun
<1>1. ~Repeats(h, q, y)  BY DEF Repeats, PENDING, FULFILLED, REJECTED
<1>2. ~Elsewhere(h, l, q) /\ ~Assigns(h, s, q)  BY <1>1 DEF Repeater, Alone, Assigns
<1>3. SubHand(s, q)  BY <1>2 DEF SubOf
<1>4. h.subscribers[p][t] = s /\ Unserved(h, a, t, p, t)  BY ServingFacts DEF Serving
<1>5. s.child = q /\ Repeat(h, y, s.ok) /\ s.err = NoCallback
  BY <1>1, <1>3, <1>4 DEF Repeater, RepeatSub
<1>6. q # NoChild  BY ValuesApart DEF NoChild, Values
<1>7. g = invokeCallback(h, h.state[p], q, cb, h.result[p], o)  BY <1>5, <1>6 DEF Turned
<1>8. h.state[p] \in {FULFILLED, REJECTED}  BY DEF Serving, Typed
<1>9. Repeat(h, y, cb) \/ (cb = NoCallback /\ h.state[p] = REJECTED)
  BY <1>5, <1>8 DEF ChosenBy
<1> QED  BY <1>7, <1>9, RepeatRun

\* The subscriber is the callback of `finally' for the reaction r.
LEMMA SubOwn ==
  ASSUME NEW h, NEW a, NEW t, NEW R, NEW C, World(h, a, t, R, C), Sane(h), NEW l, l.k = "idle",
         NEW p \in Promises, NEW s, Serving(h, a, t, p, s), NEW D, SubOf(h, l, s, D),
         NEW cb, ChosenBy(h, p, s, cb), NEW o, o.d = NoChild \/ o.d \in h.deferred,
         NEW g, Turned(h, p, s, cb, o, g), NEW E, Recorded(C, cb, s.child, E),
         cb.k = "finally" => Room(h, 2),
         NEW n \in DOMAIN R, R[n].ok.k = "finally", R[n].ok.then = "return", R[n].err.then = "throw"
  PROVE  OwnRuns(h, a, t, l, g, a, t + 1, l, D, R[n], C, E)
<1> DEFINE r == R[n]
           c == r.child
           u == t + 1
<1> SUFFICES ASSUME ~Called(C, c), OwnHand(h, a, t, l, r)
             PROVE  IF c \in D THEN FinallyOK(g, a, u, l, r, E) ELSE ~Called(E, c)
  BY DEF OwnRuns
<1>1. /\ Typed(h) /\ Flow(h, a, t) /\ Reacted(h, R) /\ IsSeq(C)
  BY WorldTyped DEF World
<1>2. r.parent \in Promises /\ c \in Promises /\ c # NoChild /\ Mine(r.err) /\ r.err.k = "finally"
  <2>1. c \in h.made /\ r.parent \in Promises /\ r.err.k = "finally"  BY <1>1 DEF Reacted
  <2> QED  BY <1>1, <2>1, ValuesApart DEF Typed, Made, Mine, NoChild, Values
<1>3. /\ h.state[c] = PENDING /\ Alone(h, l, c) /\ ~Elsewhere(h, l, c) /\ ~Assigns(h, s, c)
  BY DEF OwnHand, Alone, Assigns
<1>4. /\ h.subscribers[p][t] = s /\ Unserved(h, a, t, p, t) /\ Flow(h, a, u) /\ t \in Nat \ {0}
      /\ h.queue[a] = Publish(p)
  BY <1>1, ServingFacts, Zenon DEF Serving
<1>5. CASE c \in D
  <2>1. SubHand(s, c)  BY <1>2, <1>3, <1>5 DEF SubOf
  <2>2. OfSub(h, p, t, r)  BY <1>4, <2>1 DEF OwnHand
  <2>3. r.parent = p /\ s.child = c /\ s.ok = r.ok /\ s.err = r.err
    BY <1>4, <2>2 DEF OfSub
  <2>4. /\ cb.k = "finally" /\ Mine(cb)
        /\ cb.then = IF h.state[p] = FULFILLED THEN "return" ELSE "throw"
    BY <1>2, <2>3 DEF ChosenBy, Mine
  <2>5. Room(h, 2) /\ g = invokeCallback(h, h.state[p], c, cb, h.result[p], o)
    BY <1>2, <2>3, <2>4 DEF Turned
  <2>6. Called(E, c)  BY <1>1, <2>3, <2>4, RecordedCalls
  <2>7. Free(h, a, u, l, c)
    <3>1. ASSUME NEW q, Unrun(h, a, q), JobHand(h.queue[q], c)  PROVE FALSE
      <4>1. OfJob(h, a, q, r)  BY <3>1 DEF OwnHand
      <4> QED  BY <2>2, <4>1, OneHand
    <3>2. ASSUME NEW y \in Promises, NEW k, Unserved(h, a, u, y, k), SubHand(h.subscribers[y][k], c)
          PROVE  FALSE
      <4>1. Unserved(h, a, t, y, k) /\ ~(y = p /\ k = t)  BY <1>1, <1>4, <3>2, TurnServes
      <4>2. OfSub(h, y, k, r)  BY <3>2, <4>1 DEF OwnHand
      <4> QED  BY <2>2, <4>1, <4>2, OneHand
    <3> QED  BY <1>3, <3>1, <3>2 DEF Free
  <2>8. \/ Repeats(g, c, r.parent)
        \/ \E q \in Promises : /\ q # c /\ OnlyLink(g, a, u, l, c, q)
                               /\ Repeater(g, a, u, l, q, r.parent)
    <3> HIDE DEF r, c, u
    <3>1. l.k # "race" /\ h.state[p] # PENDING  BY DEF Serving
    <3> QED  BY <1>1, <1>2, <1>4, <2>3, <2>4, <2>5, <2>7, <3>1, FinallyRun
  <2> QED  BY <1>5, <2>6, <2>8 DEF FinallyOK
<1>6. CASE c \notin D
  <2>1. s.child # c
    <3>1. s.child = c => SubHand(s, c)  BY DEF SubHand
    <3> QED  BY <1>2, <1>6, <3>1 DEF SubOf
  <2>2. ~Called(E, c)  BY <1>1, <2>1, RecordedCalls
  <2> QED  BY <1>6, <2>2
<1> QED  BY <1>5, <1>6

\* The place of an enumerator that the subscriber fills.
LEMMA SubFills ==
  ASSUME NEW h, Typed(h), Sane(h), ArraysApart, NEW a, NEW t, Flow(h, a, t), NEW l,
         NEW p \in Promises, NEW s, Serving(h, a, t, p, s), NEW cb, ChosenBy(h, p, s, cb), NEW o,
         NEW g, Turned(h, p, s, cb, o, g), NEW e \in DOMAIN h.enums, NEW i \in {1, 2},
         s = Collect(e, i), NEW x, AllOK(h, a, t, l, e, x)
  PROVE  AllOK(g, a, t + 1, l, e, x)
<1>1. h.state[p] \in {FULFILLED, REJECTED}  BY DEF Serving, Typed
<1>2. FULFILLED # REJECTED  BY DEF FULFILLED, REJECTED
<1>3. cb = [k |-> "settledAt", enum |-> e, state |-> h.state[p], i |-> i] /\ s.child = NoChild
  BY <1>1, <1>2 DEF ChosenBy, Collect
<1>4. cb.k = "settledAt" /\ cb.enum = e /\ cb.state = h.state[p] /\ cb.i = i  BY <1>3
<1>5. g = tryCatch(h, cb, h.result[p], o).heap  BY <1>3 DEF Turned
<1> HIDE DEF ChosenBy
<1>6. g = settledAt(h, e, h.state[p], i, h.result[p])
  <2>1. tryCatch(h, cb, h.result[p], o).heap = settledAt(h, cb.enum, cb.state, cb.i, h.result[p])
    BY <1>4 DEF tryCatch
  <2> QED  BY <1>4, <1>5, <2>1
<1> QED  BY <1>6, CollectRun DEF Serving

\* The places that the turn leaves.
LEMMA SubSpares ==
  ASSUME NEW h, Typed(h), Sane(h), NEW a, NEW t, Flow(h, a, t), NEW l, NEW p \in Promises, NEW s,
         Serving(h, a, t, p, s), NEW D, SubOf(h, l, s, D), NEW e, NEW x, AllOK(h, a, t, l, e, x),
         \A i \in {1, 2} : s # Collect(e, i)
  PROVE  /\ x.promise \notin D
         /\ \A y \in Promises : \A k, i : AwaitAt(h, a, t, e, i, y, k) => <<y, k>> \notin {<<p, t>>}
<1>1. Private(h, a, t, l, e, x.promise) /\ e \in DOMAIN h.enums  BY DEF AllOK, Serves
<1>2. h.subscribers[p][t] = s /\ Unserved(h, a, t, p, t) /\ t \in DOMAIN h.subscribers[p]
  BY ServingFacts DEF Serving
<1>3. x.promise \notin D
  <2>1. x.promise \in Promises /\ ~SubHand(s, x.promise) /\ ~Elsewhere(h, l, x.promise)
    BY <1>1, <1>2 DEF Private
  <2>2. ~Assigns(h, s, x.promise)  BY <1>1 DEF Assigns, Private
  <2> QED  BY <2>1, <2>2 DEF SubOf
<1>4. ASSUME NEW i, s = Collect(e, i) PROVE FALSE
  <2>1. Collects(s.ok)  BY <1>4 DEF Collects, Collect
  <2>2. PICK d \in DOMAIN h.enums, j \in {1, 2} : s = Collect(d, j)
    BY <1>2, <2>1 DEF Sane, SaneSub
  <2>3. Collect(d, j) = Collect(e, i)  BY <1>4, <2>2
  <2>4. e = d  BY <2>3, CollectFacts
  <2> QED  BY <2>2, <2>4
<1> QED  BY <1>2, <1>3, <1>4 DEF AwaitAt

\* A turn of publish.
LEMMA SubRun ==
  ASSUME ArraysApart, NEW h, NEW a, NEW t, NEW R, NEW C, World(h, a, t, R, C), NEW l, l.k = "idle",
         NEW A, Combined(h, a, t, l, R, C, A), NEW p \in Promises, NEW s, Serving(h, a, t, p, s),
         NEW D, SubOf(h, l, s, D), NEW cb, ChosenBy(h, p, s, cb),
         NEW o, o.d = NoChild \/ o.d \in h.deferred,
         NEW g, Turned(h, p, s, cb, o, g), Spares(h, g, D), Recount(h, g),
         NEW E, Recorded(C, cb, s.child, E), cb.k = "finally" => Room(h, 2)
  PROVE  Combined(g, a, t + 1, l, R, E, A)
<1> DEFINE u == t + 1
           U == {<<p, t>>}
<1>1. /\ Typed(h) /\ Flow(h, a, t) /\ Reacted(h, R) /\ IsSeq(C)
  BY WorldTyped DEF World
<1>2. Sane(h) /\ Finals(h, a, t, l, R, C) /\ Alls(h, a, t, l, A)  BY DEF Combined
<1>3. t \in Nat \ {0} /\ Flow(h, a, u)  BY <1>1, ServingFacts
<1>4. h.queue[a] = Publish(p) /\ t \in DOMAIN h.subscribers[p] /\ h.subscribers[p][t] = s
  BY DEF Serving
<1>5. Moves(h, a, t, l, g, a, u, l, D, U)
  <2>1. Moves(h, a, t, l, h, a, u, l, {}, U)  BY <1>1, <1>2, <1>3, <1>4, ServeMoves
  <2> HIDE DEF u, U
  <2>2. Moves(h, a, t, l, h, a, u, l, D, U)  BY <2>1, MovesMore
  <2>3. Moves(h, a, u, l, g, a, u, l, D, {})  BY <1>1, <1>3, CallMoves
  <2> QED  BY <2>2, <2>3, MovesTrans
<1>6. Kept(h, g) /\ Sane(g)  BY <1>5 DEF Moves
<1>7. LinksRun(h, a, t, l, g, D)  BY <1>1, <1>2, <1>6, SubLinks
<1>8. RepeatsRun(h, a, t, l, g, D)  BY <1>1, <1>2, SubRepeats
<1>9. \A n \in DOMAIN R : R[n].ok.k = "finally" => OwnRuns(h, a, t, l, g, a, u, l, D, R[n], C, E)
  <2> SUFFICES ASSUME NEW n \in DOMAIN R, R[n].ok.k = "finally"
               PROVE  OwnRuns(h, a, t, l, g, a, u, l, D, R[n], C, E)
    OBVIOUS
  <2>1. R[n].ok.then = "return" /\ R[n].err.then = "throw"  BY <1>2 DEF Finals
  <2> QED  BY <1>2, <2>1, SubOwn
<1>10. \A x : Called(C, x) => Called(E, x)  BY <1>1, RecordedCalls
<1>11. \A e \in DOMAIN A :
          \/ AllOK(g, a, u, l, e, A[e])
          \/ /\ A[e].promise \notin D
             /\ \A y \in Promises : \A k, i : AwaitAt(h, a, t, e, i, y, k) => <<y, k>> \notin U
  <2> SUFFICES ASSUME NEW e \in DOMAIN A
               PROVE  \/ AllOK(g, a, u, l, e, A[e])
                      \/ /\ A[e].promise \notin D
                         /\ \A y \in Promises : \A k, i :
                               AwaitAt(h, a, t, e, i, y, k) => <<y, k>> \notin U
    OBVIOUS
  <2>1. AllOK(h, a, t, l, e, A[e]) /\ e \in DOMAIN h.enums  BY <1>2 DEF Alls
  <2>2. CASE \E i \in {1, 2} : s = Collect(e, i)
    <3>1. PICK i \in {1, 2} : s = Collect(e, i)  BY <2>2
    <3>2. AllOK(g, a, u, l, e, A[e])  BY <1>1, <1>2, <2>1, <3>1, SubFills
    <3> QED  BY <3>2
  <2>3. CASE \A i \in {1, 2} : s # Collect(e, i)
    BY <1>1, <1>2, <2>1, <2>3, SubSpares
  <2> QED  BY <2>2, <2>3
<1>12. \A y, x \in Promises : \A k : <<y, k>> \in U /\ h.subscribers[y][k] = Link(x) => x \in D
  <2> SUFFICES ASSUME NEW y \in Promises, NEW x \in Promises, NEW k,
                      <<y, k>> \in U, h.subscribers[y][k] = Link(x)
               PROVE  x \in D
    OBVIOUS
  <2>1. y = p /\ k = t  OBVIOUS
  <2>2. s = Link(x)  BY <1>4, <2>1
  <2>3. SubHand(s, x)  BY <2>2, LinkFacts
  <2> QED  BY <2>3 DEF SubOf
<1> HIDE DEF u, U
<1>13. Finals(g, a, u, l, R, E)
  BY <1>1, <1>2, <1>5, <1>7, <1>8, <1>9, <1>10, FinalsRun
<1>14. Alls(g, a, u, l, A)
  BY <1>2, <1>5, <1>7, <1>11, <1>12, AllsRun DEF Recount
<1>15. LoopMade(g, l)  BY DEF LoopMade
<1> QED  BY <1>6, <1>13, <1>14, <1>15 DEF Combined, u

\* A step that settles nobody and gives nobody a hand.
LEMMA CombinedPasses ==
  ASSUME NEW h, Typed(h), NEW a, NEW t, NEW l, l.k = "idle", NEW g, NEW b, NEW u,
         Moves(h, a, t, l, g, b, u, l, {}, {}), NEW R, Reacted(h, R), NEW C, NEW A,
         Combined(h, a, t, l, R, C, A), DOMAIN g.enums = DOMAIN h.enums
  PROVE  Combined(g, b, u, l, R, C, A)
<1>1. \A d \in DOMAIN A : SameTurn(l, l, d)  BY DEF SameTurn
<1>2. LoopMade(g, l)  BY DEF LoopMade
<1>3. \A x \in h.made : ~Elsewhere(h, l, x) => x \notin {}  OBVIOUS
<1> QED  BY <1>1, <1>2, <1>3, CombinedStays

LEMMA EmptiedFacts ==
  ASSUME NEW h, Typed(h), Sane(h), NEW a \in Nat, NEW t, NEW l, NEW p \in Promises,
         h.queue[a] = Publish(p), \A k \in DOMAIN h.subscribers[p] : k < t, Typed(Emptied(h, p)),
         NEW b, b = a + 1
  PROVE  /\ Moves(h, a, t, l, Emptied(h, p), b, 1, l, {}, {})
         /\ DOMAIN Emptied(h, p).enums = DOMAIN h.enums
<1>1. Emptied(h, p) = [h EXCEPT !.subscribers[p] = <<>>]  BY DEF Emptied
<1>2. Moves(h, a, t, l, Emptied(h, p), a + 1, 1, l, {}, {})  BY <1>1, EndMoves
<1>3. DOMAIN Emptied(h, p).enums = DOMAIN h.enums  BY <1>1 DEF Typed, HeapFields
<1> QED  BY <1>2, <1>3

LEMMA PublishEnds ==
  ASSUME NEW h, Typed(h), NEW a \in Nat, NEW t, NEW l, l.k = "idle", NEW R, Reacted(h, R), NEW C,
         NEW A, Combined(h, a, t, l, R, C, A), NEW p \in Promises, h.queue[a] = Publish(p),
         \A k \in DOMAIN h.subscribers[p] : k < t, Typed(Emptied(h, p)), NEW b, b = a + 1
  PROVE  Combined(Emptied(h, p), b, 1, l, R, C, A)
<1>1. Sane(h)  BY DEF Combined
<1>2. /\ Moves(h, a, t, l, Emptied(h, p), b, 1, l, {}, {})
      /\ DOMAIN Emptied(h, p).enums = DOMAIN h.enums
  BY <1>1, EmptiedFacts
<1> QED  BY <1>2, CombinedPasses

\* Whom a turn of publish spares.
LEMMA TurnSpares ==
  ASSUME ArraysApart, NEW h, Typed(h), Sane(h), NEW a, NEW t, NEW l, NEW p \in Promises, NEW s,
         Serving(h, a, t, p, s), NEW D, SubOf(h, l, s, D), NEW cb, ChosenBy(h, p, s, cb),
         NEW o, o.d = NoChild \/ o.d \in h.deferred, NEW g, Turned(h, p, s, cb, o, g),
         cb.k = "finally" => Room(h, 2)
  PROVE  Spares(h, g, D) /\ Recount(h, g)
<1>1. SubscriberOK(h, s) /\ SaneSub(h, s)  BY DEF Serving, Typed, Subscribers, Sane
<1>2. cb = s.ok \/ cb = s.err  BY DEF ChosenBy
<1>3. CallbackOK(h, cb)  BY <1>1, <1>2 DEF SubscriberOK
<1>4. Within(h, cb, o, D)
  <2>1. ASSUME NEW x \in Promises, Names(cb, x) PROVE x \in h.made /\ x \in D
    <3>1. SubHand(s, x)  BY <1>2, <2>1 DEF SubHand
    <3> QED  BY <1>1, <3>1 DEF SaneSub, SubOf
  <2>2. ASSUME Collects(cb) PROVE h.enums[cb.enum].promise \in D
    <3>1. PICK e \in DOMAIN h.enums, i \in {1, 2} : s = Collect(e, i)
      BY <1>1, <1>2, <2>2 DEF SaneSub
    <3>2. cb.enum = e  BY <1>2, <3>1 DEF Collect
    <3>3. h.enums[e].promise \in Promises  BY DEF Typed, Stands
    <3>4. Assigns(h, s, h.enums[e].promise)  BY <3>1 DEF Assigns
    <3> QED  BY <3>2, <3>3, <3>4 DEF SubOf
  <2>3. o.d = NoChild \/ (o.d \in h.made /\ o.d \in D)
    <3>1. ASSUME o.d \in h.deferred PROVE o.d \in h.made /\ o.d \in D
      <4>1. o.d \in h.made /\ o.d \in Promises  BY <3>1 DEF Typed, Made
      <4>2. Elsewhere(h, l, o.d)  BY <3>1 DEF Elsewhere
      <4> QED  BY <4>1, <4>2 DEF SubOf
    <3> QED  BY <3>1
  <2> QED  BY <2>1, <2>2, <2>3 DEF Within
<1>5. CASE s.child = NoChild
  <2>1. g = tryCatch(h, cb, h.result[p], o).heap  BY <1>5 DEF Turned
  <2>2. cb # NoCallback
    <3>1. NoCallback.k = "none" /\ NoChild \notin Promises
      BY ValuesApart DEF NoCallback, NoChild, Values
    <3>2. cb.k \in {"resolve", "reject", "settledAt"}
      BY <1>1, <1>2, <1>5, <3>1 DEF SubscriberOK, Silent
    <3> QED  BY <3>1, <3>2
  <2> QED  BY <1>3, <1>4, <2>1, <2>2, tryCatchSpares, tryCatchCounts
<1>6. CASE s.child # NoChild
  <2>1. g = invokeCallback(h, h.state[p], s.child, cb, h.result[p], o)  BY <1>6 DEF Turned
  <2>2. s.child \in Promises  BY <1>1, <1>6 DEF SubscriberOK
  <2>3. s.child \in h.made /\ s.child \in D
    <3>1. SubHand(s, s.child)  BY DEF SubHand
    <3> QED  BY <1>1, <2>2, <3>1 DEF SaneSub, SubOf
  <2>4. h.state[p] = FULFILLED => Flat(h.result[p])  BY DEF Sane
  <2> QED  BY <1>3, <1>4, <2>1, <2>3, <2>4, invokeCallbackSpares, invokeCallbackCounts
<1> QED  BY <1>5, <1>6

\* The callback of `finally' has room for the promises it makes.
LEMMA TurnRoom ==
  ASSUME PInv, NEW p \in Promises, NEW s, Serving(heap, at, turn, p, s), NEW cb,
         ChosenBy(heap, p, s, cb), cb.k = "finally"
  PROVE  Room(heap, 2)
<1>1. World(heap, at, turn, reactions, calls)  BY DEF PInv, Stand
<1>2. turn \in Nat \ {0}  BY <1>1, WorldTyped DEF Flow
<1>3. Mine(s.ok) \/ Mine(s.err)  BY DEF Mine, ChosenBy
<1>4. PICK n \in DOMAIN reactions : OfSub(heap, p, turn, reactions[n])
  BY <1>1, <1>3 DEF World, Known, Serving
<1>5. /\ reactions[n].parent = p /\ reactions[n].ok = s.ok /\ reactions[n].err = s.err
  BY <1>4 DEF OfSub, Serving
<1>6. reactions[n].ok.k = "finally"  BY <1>1, <1>5 DEF World, Reacted, ChosenBy
<1>7. ~Served(heap, at, turn, p, turn)  BY <1>2 DEF Served
<1>8. n \in Waiting(reactions, calls)  BY <1>1, <1>4, <1>5, <1>6, <1>7, NotCalled
<1> QED  BY <1>8, StandRoom

\* A promise that is settled has no subscriber more.
LEMMA TurnSteady ==
  ASSUME NEW h, Typed(h), NEW a, NEW t, NEW p \in Promises, NEW s, Serving(h, a, t, p, s), NEW cb,
         ChosenBy(h, p, s, cb), NEW o, o.d = NoChild \/ o.d \in h.deferred, NEW g,
         Turned(h, p, s, cb, o, g), cb.k = "finally" => Room(h, 2)
  PROVE  g.subscribers[p] = h.subscribers[p]
<1>1. SubscriberOK(h, s)  BY DEF Serving, Typed, Subscribers
<1>2. cb = s.ok \/ cb = s.err  BY DEF ChosenBy
<1>3. CallbackOK(h, cb)  BY <1>1, <1>2 DEF SubscriberOK
<1>4. Settles(o)  BY DEF Settles, Typed, Made
<1>5. Quietly(h, g, 2)
  <2>1. CASE s.child = NoChild
    <3>1. g = tryCatch(h, cb, h.result[p], o).heap  BY <2>1 DEF Turned
    <3>2. cb # NoCallback
      <4>1. NoCallback.k = "none" /\ NoChild \notin Promises
        BY ValuesApart DEF NoCallback, NoChild, Values
      <4>2. cb.k \in {"resolve", "reject", "settledAt"}
        BY <1>1, <1>2, <2>1, <4>1 DEF SubscriberOK, Silent
      <4> QED  BY <4>1, <4>2
    <3> QED  BY <1>3, <1>4, <3>1, <3>2, tryCatchCalm
  <2>2. CASE s.child # NoChild
    <3>1. g = invokeCallback(h, h.state[p], s.child, cb, h.result[p], o)  BY <2>2 DEF Turned
    <3>2. s.child \in Promises  BY <1>1, <2>2 DEF SubscriberOK
    <3> QED  BY <1>3, <1>4, <3>1, <3>2, invokeCallbackCalm
  <2> QED  BY <2>1, <2>2
<1> QED  BY <1>5 DEF Quietly, Steady, Serving

LEMMA PublishCombined ==
  ASSUME ArraysApart, PInv, PInv', CInv, RunPublish
  PROVE  CInv'
<1> DEFINE p == heap.queue[at].promise
           subs == heap.subscribers[p]
           s == subs[turn]
           cb == IF heap.state[p] = FULFILLED THEN s.ok ELSE s.err
           last == turn >= Len(subs)
<1>1. /\ at \in DOMAIN heap.queue /\ loop = Idle /\ heap.queue[at].k = "publish"
      /\ turn' = IF last THEN 1 ELSE turn + 1
      /\ at' = IF last THEN at + 1 ELSE at
      /\ UNCHANGED <<loop, reactions, alls>>
  BY Zenon DEF RunPublish, Job
<1>2. World(heap, at, turn, reactions, calls) /\ TurnOK(heap, at, turn)
  BY DEF PInv, Stand
<1>3. Typed(heap) /\ Flow(heap, at, turn) /\ Reacted(heap, reactions)
  BY <1>2, WorldTyped DEF World
<1>4. Typed(heap')
  <2>1. World(heap, at, turn, reactions, calls)'  BY DEF PInv, Stand
  <2> QED  BY <2>1, WorldTyped
<1>5. p \in Promises /\ heap.queue[at] = Publish(p) /\ heap.state[p] # PENDING
  BY <1>1, <1>3 DEF Typed, Jobs, JobOK
<1>6. IsSeq(subs) /\ Len(subs) \in Nat /\ DOMAIN subs = 1 .. Len(subs)
  BY <1>3, <1>5, SeqFacts DEF Typed, Subscribers
<1>7. at \in Nat /\ turn \in Nat \ {0} /\ (turn > 1 => turn \in DOMAIN subs)
  BY <1>2, <1>3 DEF Flow, TurnOK
<1>8. /\ Combined(heap, at, turn, loop, reactions, calls, alls) /\ Sane(heap) /\ loop.k = "idle"
  BY <1>1 DEF CInv, Combined, Idle
<1>9. CASE subs = <<>>
  <2>1. UNCHANGED <<heap, calls>>  BY <1>9 DEF RunPublish
  <2>2. Len(subs) = 0 /\ DOMAIN subs = {}  BY <1>6, <1>9, SeqFacts
  <2>3. turn = 1 /\ last  BY <1>6, <1>7, <2>2
  <2>4. at' = at + 1 /\ turn' = 1  BY <1>1, <2>3
  <2> HIDE DEF p, subs, s, cb, last
  <2>5. at' \in Nat /\ at <= at'  BY <1>7, <2>4
  <2>6. Moves(heap, at, 1, loop, heap, at', 1, loop, {}, {})
    BY <1>3, <1>7, <1>8, <2>5, PassMoves
  <2>7. Combined(heap, at', 1, loop, reactions, calls, alls)
    BY <1>3, <1>8, <2>3, <2>6, CombinedPasses
  <2> QED  BY <1>1, <2>1, <2>4, <2>7 DEF CInv
<1>10. CASE subs # <<>>
  <2> DEFINE D == {x \in Promises : SubHand(s, x) \/ Elsewhere(heap, loop, x) \/ Assigns(heap, s, x)}
  <2>1. PICK o, g :
           /\ o \in OutcomesOf(heap, cb)
           /\ Turned(heap, p, s, cb, o, g)
           /\ heap' = IF last THEN Emptied(g, p) ELSE g
           /\ Recorded(calls, cb, s.child, calls')
    <3>1. PICK o, g :
             /\ o \in OutcomesOf(heap, cb)
             /\ g = IF s.child = NoChild
                    THEN tryCatch(heap, cb, heap.result[p], o).heap
                    ELSE invokeCallback(heap, heap.state[p], s.child, cb, heap.result[p], o)
             /\ heap' = IF last THEN [g EXCEPT !.subscribers[p] = <<>>] ELSE g
      BY <1>10, Zenon DEF RunPublish
    <3>2. Record(cb, s.child, heap.result[p])  BY <1>10, Zenon DEF RunPublish
    <3> HIDE DEF p, subs, s, cb, last
    <3>3. Recorded(calls, cb, s.child, calls')  BY <3>2 DEF Record, Recorded, Mine
    <3> QED  BY <3>1, <3>3, Zenon DEF Turned, Emptied
  <2>2. Serving(heap, at, turn, p, s)
    <3>1. Len(subs) # 0  BY <1>6, <1>10, SeqFacts
    <3>2. turn \in DOMAIN subs  BY <1>6, <1>7, <3>1
    <3> QED  BY <1>1, <1>5, <3>2 DEF Serving
  <2>3. ChosenBy(heap, p, s, cb)  BY DEF ChosenBy
  <2>4. o.d = NoChild \/ o.d \in heap.deferred
    <3>1. CASE o = NoOutcome  BY <3>1 DEF NoOutcome
    <3>2. CASE o \in Outcomes(heap)  BY <3>2 DEF Outcomes
    <3> QED  BY <2>1, <3>1, <3>2, Zenon DEF OutcomesOf
  <2>5. \A x \in Promises : x \in D <=> SubHand(s, x) \/ Elsewhere(heap, loop, x) \/ Assigns(heap, s, x)
    OBVIOUS
  <2>6. SubOf(heap, loop, s, D)  BY <2>5 DEF SubOf
  <2>7. last => \A k \in DOMAIN subs : k < turn + 1  BY <1>6, <1>7
  <2> HIDE DEF D, subs, s, cb, last
  <2>8. cb.k = "finally" => Room(heap, 2)  BY <1>5, <2>2, <2>3, TurnRoom
  <2> HIDE DEF p
  <2>9. Spares(heap, g, D) /\ Recount(heap, g)
    BY <1>3, <1>5, <1>8, <2>1, <2>2, <2>3, <2>4, <2>6, <2>8, TurnSpares
  <2>10. Combined(g, at, turn + 1, loop, reactions, calls', alls)
    BY <1>2, <1>5, <1>8, <2>1, <2>2, <2>3, <2>4, <2>6, <2>8, <2>9, SubRun
  <2>11. CASE ~last
    <3>1. heap' = g /\ at' = at /\ turn' = turn + 1  BY <1>1, <2>1, <2>11
    <3> QED  BY <1>1, <2>10, <3>1 DEF CInv
  <2>12. CASE last
    <3>1. heap' = Emptied(g, p) /\ at' = at + 1 /\ turn' = 1  BY <1>1, <2>1, <2>12
    <3>2. Typed(g) /\ Extends(heap.queue, g.queue) /\ heap.made \subseteq g.made
      BY <2>9 DEF Spares, Grows
    <3>3. Reacted(g, reactions)  BY <1>3, <3>2 DEF Reacted
    <3>4. g.queue[at] = Publish(p)  BY <1>1, <1>5, <3>2 DEF Extends
    <3>5. \A k \in DOMAIN g.subscribers[p] : k < turn + 1
      <4>1. g.subscribers[p] = subs
        BY <1>3, <1>5, <2>2, <2>3, <2>4, <2>1, <2>8, TurnSteady DEF subs
      <4> QED  BY <2>7, <2>12, <4>1
    <3> DEFINE u == turn + 1
    <3>6. \A k \in DOMAIN g.subscribers[p] : k < u  BY <3>5
    <3>7. Combined(g, at, u, loop, reactions, calls', alls)  BY <2>10
    <3> HIDE DEF u
    <3>8. Combined(Emptied(g, p), at', 1, loop, reactions, calls', alls)
      BY <1>4, <1>5, <1>7, <1>8, <3>1, <3>2, <3>3, <3>4, <3>6, <3>7, PublishEnds
    <3> QED  BY <1>1, <3>1, <3>8 DEF CInv
  <2> QED  BY <2>11, <2>12
<1> QED  BY <1>9, <1>10

-----------------------------------------------------------------------------
(* The theorem on `all' and `finally'                                      *)

LEMMA InitCInv ==
  ASSUME Init
  PROVE  CInv
<1>1. /\ heap.enums = <<>> /\ heap.queue = <<>> /\ heap.foreign = <<>>
      /\ \A p \in Promises : heap.state[p] = PENDING /\ heap.subscribers[p] = <<>>
      /\ reactions = <<>> /\ alls = <<>> /\ loop = Idle
  BY DEF Init
<1>2. DOMAIN <<>> = {} /\ IsSeq(<<>>)
  <2>1. <<>> \in Seq({})  OBVIOUS
  <2> QED  BY <2>1 DEF IsSeq
<1>3. PENDING # FULFILLED  BY DEF PENDING, FULFILLED
<1>4. Sane(heap)
  <2>1. DOMAIN heap.enums = {} /\ DOMAIN heap.queue = {} /\ DOMAIN heap.foreign = {}
    BY <1>1, <1>2
  <2>2. \A p \in Promises : DOMAIN heap.subscribers[p] = {}  BY <1>1, <1>2
  <2>3. \A p \in Promises : heap.state[p] = PENDING  BY <1>1
  <2> QED  BY <1>3, <2>1, <2>2, <2>3 DEF Sane
<1>5. LoopMade(heap, loop)  BY <1>1 DEF LoopMade, Idle
<1>6. Finals(heap, at, turn, loop, reactions, calls)  BY <1>1, <1>2 DEF Finals
<1>7. Alls(heap, at, turn, loop, alls)  BY <1>1, <1>2 DEF Alls
<1> QED  BY <1>4, <1>5, <1>6, <1>7 DEF CInv, Combined

LEMMA StepCInv ==
  ASSUME ArraysApart, PInv, CInv, [Next]_vars
  PROVE  CInv'
<1>1. PInv'  BY StepPInv
<1>2. CASE UNCHANGED vars  BY <1>2 DEF vars, CInv
<1>3. CASE Library
  <2>1. CASE FlushStart \/ FlushEnd  BY <1>1, <2>1, FlushCombined
  <2>2. CASE RunPublish  BY <1>1, <2>2, PublishCombined
  <2>3. CASE RunInvoke  BY <2>3, InvokeCombined
  <2>4. CASE RunForeign  BY <2>4, ForeignCombined
  <2>5. CASE EnumerateStep  BY <2>5, EnumerateStepCombined
  <2>6. CASE EnumerateEnd  BY <2>6, EnumerateEndCombined
  <2>7. CASE RaceStep  BY <1>1, <2>7, RaceStepCombined
  <2> QED  BY <1>3, <2>1, <2>2, <2>3, <2>4, <2>5, <2>6, <2>7 DEF Library
<1>4. CASE Program
  <2>1. CASE Promise  BY <2>1, PromiseCombined
  <2>2. CASE Settle \/ Adopt  BY <2>2, SettleCombined
  <2>3. CASE Static  BY <2>3, StaticCombined
  <2>4. CASE ForeignLate  BY <2>4, LateCombined
  <2>5. CASE Then \/ Finally  BY <1>1, <2>5, ReactCombined
  <2>6. CASE all  BY <2>6, allCombined
  <2>7. CASE race  BY <2>7, raceCombined
  <2> QED  BY <1>4, <2>1, <2>2, <2>3, <2>4, <2>5, <2>6, <2>7 DEF Program
<1> QED  BY <1>2, <1>3, <1>4 DEF Next

\* At rest nobody waits for a settled promise, and a place that is left belongs to
\* an entry that is pending, or gave a thenable.
LEMMA RestLefts ==
  ASSUME NEW h, \A p \in Promises : h.state[p] # PENDING => DOMAIN h.subscribers[p] = {},
         NEW e, NEW x, AllOK(h, 0, 1, Idle, e, x), NEW i, i \in Lefts(h, 0, 1, Idle, e)
  PROVE  \/ Gave(h, x.entries[i])
         \/ x.entries[i] \in Promises /\ h.state[x.entries[i]] = PENDING
<1>1. Idle.k # "all"  BY DEF Idle
<1>2. i \in {1, 2} /\ Await(h, 0, 1, e, i)  BY <1>1 DEF Lefts, Todo, OnTurn
<1>3. PICK y, k : y \in Promises /\ AwaitAt(h, 0, 1, e, i, y, k)  BY <1>2 DEF Await
<1>4. Mirror(h, 0, 1, Idle, y, x.entries[i])  BY <1>2, <1>3 DEF AllOK, Mirrors
<1>5. h.state[y] = PENDING  BY <1>3 DEF AwaitAt, Unserved
<1>6. ASSUME x.entries[i] \in Promises, Same(h, y, x.entries[i]) PROVE FALSE
  BY <1>5, <1>6 DEF Same
<1>7. ASSUME x.entries[i] \in Promises, Follows(h, 0, 1, Idle, y, x.entries[i])
      PROVE  h.state[x.entries[i]] = PENDING
  BY <1>7 DEF Follows, LinkedTo, Unserved
<1> QED  BY <1>4, <1>6, <1>7 DEF Mirror

\* What a call of `all' may count on at rest.
LEMMA RestAll ==
  ASSUME NEW h, \A p \in Promises : h.state[p] # PENDING => DOMAIN h.subscribers[p] = {},
         NEW e, NEW x, AllOK(h, 0, 1, Idle, e, x)
  PROVE  /\ DOMAIN x.entries = {1, 2}
         /\ \/ h.state[x.promise] = REJECTED /\ Failing(h, x.entries, h.result[x.promise])
            \/ /\ h.state[x.promise] = FULFILLED
               /\ \A i \in {1, 2} : Item(h, x.entries[i], h.result[x.promise][i])
            \/ /\ h.state[x.promise] = PENDING
               /\ \A i \in {1, 2} : x.entries[i] \in Promises => h.state[x.entries[i]] # REJECTED
               /\ \E i \in {1, 2} : \/ Gave(h, x.entries[i])
                                    \/ x.entries[i] \in Promises /\ h.state[x.entries[i]] = PENDING
<1> DEFINE L == Lefts(h, 0, 1, Idle, e)
           N == h.enums[e]
<1>1. /\ DOMAIN x.entries = {1, 2} /\ N.promise = x.promise /\ Summed(h, Idle, e, x.entries, L)
  BY DEF AllOK, Serves
<1>2. \A i : i \in L => \/ Gave(h, x.entries[i])
                        \/ x.entries[i] \in Promises /\ h.state[x.entries[i]] = PENDING
  BY RestLefts
<1>3. PENDING # REJECTED /\ FULFILLED # REJECTED  BY DEF PENDING, FULFILLED, REJECTED
<1>4. ASSUME NEW i \in {1, 2}, x.entries[i] \in Promises, h.state[x.entries[i]] = REJECTED
      PROVE  i \notin L /\ \A w : ~Item(h, x.entries[i], w)
  BY <1>2, <1>3, <1>4 DEF Item, Gave, Foreign
<1>5. ~OnTurn(Idle, e)  BY DEF OnTurn, Idle
<1>6. CASE /\ h.state[N.promise] = PENDING /\ N.remaining = Count(L) /\ (N.remaining = 0 => OnTurn(Idle, e))
           /\ \A i \in {1, 2} : i \notin L => Item(h, x.entries[i], N.result[i])
  <2>1. \E i \in {1, 2} : i \in L
    <3>1. Count(L) # 0  BY <1>5, <1>6
    <3>2. \A K : (K \subseteq {} => Count(K) = 0)  BY CountFacts
    <3>3. L \subseteq {1, 2}  BY DEF Lefts
    <3> HIDE DEF L
    <3> QED  BY <3>1, <3>2, <3>3
  <2> HIDE DEF L, N
  <2>2. \A i \in {1, 2} : x.entries[i] \in Promises => h.state[x.entries[i]] # REJECTED
    BY <1>4, <1>6
  <2> QED  BY <1>1, <1>2, <1>6, <2>1, <2>2
<1> HIDE DEF L
<1> QED  BY <1>1, <1>6 DEF Summed

LEMMA AllRight ==
  ASSUME NEW x, NEW D, D = DOMAIN x.entries, D = {1, 2},
         \/ heap.state[x.promise] = REJECTED /\ Failing(heap, x.entries, heap.result[x.promise])
         \/ /\ heap.state[x.promise] = FULFILLED
            /\ \A i \in {1, 2} : Item(heap, x.entries[i], heap.result[x.promise][i])
         \/ /\ heap.state[x.promise] = PENDING
            /\ \A i \in {1, 2} : x.entries[i] \in Promises => heap.state[x.entries[i]] # REJECTED
            /\ \E i \in {1, 2} : \/ Gave(heap, x.entries[i])
                                 \/ x.entries[i] \in Promises /\ heap.state[x.entries[i]] = PENDING
  PROVE  LET own == {i \in D : x.entries[i] \in Promises}
             bad == {i \in own : heap.state[x.entries[i]] = REJECTED}
         IN  /\ bad # {} => heap.state[x.promise] = REJECTED
             /\ heap.state[x.promise] = REJECTED =>
                   \E i \in D : \/ IsThenable(Outcome(x.entries[i]))
                              \/ (i \in bad /\ heap.result[x.promise] = heap.result[x.entries[i]])
             /\ heap.state[x.promise] = FULFILLED =>
                   \A i \in D : \/ IsThenable(Outcome(x.entries[i]))
                                \/ heap.result[x.promise][i] = Outcome(x.entries[i])
             /\ heap.state[x.promise] = PENDING =>
                   \E i \in D : \/ IsThenable(Outcome(x.entries[i]))
                                \/ (i \in own /\ heap.state[x.entries[i]] = PENDING)
<1> DEFINE own == {i \in D : x.entries[i] \in Promises}
           bad == {i \in own : heap.state[x.entries[i]] = REJECTED}
<1>1. PENDING # REJECTED /\ FULFILLED # REJECTED /\ PENDING # FULFILLED
  BY DEF PENDING, FULFILLED, REJECTED
<1>2. \A v : Gave(heap, v) => IsThenable(Outcome(v))
  BY DEF Gave, Foreign, IsThenable, Outcome
<1>3. \A v, w : Item(heap, v, w) => IsThenable(Outcome(v)) \/ w = Outcome(v)
  BY <1>2 DEF Item, Outcome
<1>4. \A v, w : Item(heap, v, w) /\ v \in Promises => heap.state[v] = FULFILLED
  BY DEF Item, Gave, Foreign
<1>5. heap.state[x.promise] # REJECTED => bad = {}
  BY <1>1, <1>4
<1>6. heap.state[x.promise] = FULFILLED =>
         \A i \in D : \/ IsThenable(Outcome(x.entries[i]))
                      \/ heap.result[x.promise][i] = Outcome(x.entries[i])
  BY <1>1, <1>3
<1>7. heap.state[x.promise] = PENDING =>
         \E i \in D : \/ IsThenable(Outcome(x.entries[i]))
                      \/ (i \in own /\ heap.state[x.entries[i]] = PENDING)
  BY <1>1, <1>2
<1>8. heap.state[x.promise] = REJECTED =>
         \E i \in D : \/ IsThenable(Outcome(x.entries[i]))
                    \/ (i \in bad /\ heap.result[x.promise] = heap.result[x.entries[i]])
  <2>1. \A v, w : Blamed(heap, v, w) =>
           \/ IsThenable(Outcome(v))
           \/ v \in Promises /\ heap.state[v] = REJECTED /\ heap.result[v] = w
    BY <1>2 DEF Blamed
  <2> QED  BY <1>1, <2>1 DEF Failing
<1> HIDE DEF own, bad
<1> QED  BY <1>5, <1>6, <1>7, <1>8 DEF own, bad

LEMMA FinallyRight ==
  ASSUME NEW r, NEW h, NEW a, NEW t, NEW l, NEW C, FinallyOK(h, a, t, l, r, C),
         h.state[r.child] = FULFILLED
  PROVE  /\ h.state[r.parent] = FULFILLED
         /\ h.result[r.parent] \in Thenables \/ h.result[r.child] = h.result[r.parent]
<1>1. PENDING # FULFILLED /\ REJECTED # FULFILLED  BY DEF PENDING, FULFILLED, REJECTED
<1> QED  BY <1>1 DEF FinallyOK, OwnHand, Foreign, Repeats, OnlyLink

LEMMA CombinedNow ==
  ASSUME PInv, CInv
  PROVE  CombinedRight
<1> SUFFICES ASSUME Quiet PROVE
      /\ \A n \in DOMAIN alls :
            LET e  == alls[n].promise
                en == alls[n].entries
                own == {i \in DOMAIN en : en[i] \in Promises}
                bad == {i \in own : heap.state[en[i]] = REJECTED}
            IN  /\ bad # {} => heap.state[e] = REJECTED
                /\ heap.state[e] = REJECTED =>
                      \E i \in DOMAIN en : \/ IsThenable(Outcome(en[i]))
                                          \/ (i \in bad /\ heap.result[e] = heap.result[en[i]])
                /\ heap.state[e] = FULFILLED =>
                      \A i \in DOMAIN en :
                         IsThenable(Outcome(en[i])) \/ heap.result[e][i] = Outcome(en[i])
                /\ heap.state[e] = PENDING =>
                      \E i \in DOMAIN en : \/ IsThenable(Outcome(en[i]))
                                          \/ (i \in own /\ heap.state[en[i]] = PENDING)
      /\ \A n \in DOMAIN reactions :
            LET c == reactions[n].child
                p == reactions[n].parent
            IN  reactions[n].ok.k = "finally" /\ heap.state[c] = FULFILLED =>
                   /\ heap.state[p] = FULFILLED
                   /\ IsThenable(heap.result[p]) \/ heap.result[c] = heap.result[p]
  BY DEF CombinedRight
<1>1. Stack /\ ~heap.scheduled  BY DEF Quiet
<1>2. /\ at = 0 /\ loop = Idle /\ Combined(heap, 0, 1, loop, reactions, calls, alls)
      /\ World(heap, 0, 1, reactions, calls) /\ Flow(heap, 0, 1)
  BY <1>1, StackNow
<1>3. DOMAIN heap.queue = {}  BY <1>1, <1>2 DEF Flow
<1>4. \A p \in Promises : heap.state[p] # PENDING => DOMAIN heap.subscribers[p] = {}
  BY <1>2, <1>3 DEF World, Published, Full
<1>5. ASSUME NEW n \in DOMAIN alls
      PROVE  LET e  == alls[n].promise
                 en == alls[n].entries
                 own == {i \in DOMAIN en : en[i] \in Promises}
                 bad == {i \in own : heap.state[en[i]] = REJECTED}
             IN  /\ bad # {} => heap.state[e] = REJECTED
                 /\ heap.state[e] = REJECTED =>
                       \E i \in DOMAIN en : \/ IsThenable(Outcome(en[i]))
                                           \/ (i \in bad /\ heap.result[e] = heap.result[en[i]])
                 /\ heap.state[e] = FULFILLED =>
                       \A i \in DOMAIN en :
                          IsThenable(Outcome(en[i])) \/ heap.result[e][i] = Outcome(en[i])
                 /\ heap.state[e] = PENDING =>
                       \E i \in DOMAIN en : \/ IsThenable(Outcome(en[i]))
                                           \/ (i \in own /\ heap.state[en[i]] = PENDING)
  <2>1. AllOK(heap, 0, 1, Idle, n, alls[n])  BY <1>2 DEF Combined, Alls
  <2> DEFINE x == alls[n]
  <2> HIDE DEF x
  <2>2. AllOK(heap, 0, 1, Idle, n, x)  BY <2>1 DEF x
  <2>3. /\ DOMAIN x.entries = {1, 2}
        /\ \/ heap.state[x.promise] = REJECTED /\ Failing(heap, x.entries, heap.result[x.promise])
           \/ /\ heap.state[x.promise] = FULFILLED
              /\ \A i \in {1, 2} : Item(heap, x.entries[i], heap.result[x.promise][i])
           \/ /\ heap.state[x.promise] = PENDING
              /\ \A i \in {1, 2} : x.entries[i] \in Promises => heap.state[x.entries[i]] # REJECTED
              /\ \E i \in {1, 2} : \/ Gave(heap, x.entries[i])
                                   \/ x.entries[i] \in Promises /\ heap.state[x.entries[i]] = PENDING
    BY <1>4, <2>2, RestAll
  <2> QED  BY <2>3, AllRight, Zenon DEF x
<1>6. ASSUME NEW n \in DOMAIN reactions, reactions[n].ok.k = "finally",
             heap.state[reactions[n].child] = FULFILLED
      PROVE  /\ heap.state[reactions[n].parent] = FULFILLED
             /\ \/ IsThenable(heap.result[reactions[n].parent])
                \/ heap.result[reactions[n].child] = heap.result[reactions[n].parent]
  <2>1. FinallyOK(heap, 0, 1, loop, reactions[n], calls)
    BY <1>2, <1>6 DEF Combined, Finals
  <2> QED  BY <1>6, <2>1, FinallyRight DEF IsThenable
<1> QED  BY <1>5, <1>6

\* When the queue has come to rest, the promise of `all' is fulfilled with the values
\* of the entries in their places if all of them are, and otherwise rejected
\* with the reason of one of them that is, or waits for one that waits; the promise
\* of finally is fulfilled only as its parent is, whatever the callback returns.
\* An array is neither a promise nor an object whose `then' cannot be read.
THEOREM CombinedRightHolds ==
  ASSUME ArraysApart
  PROVE  Spec => []CombinedRight
<1>1. Init => PInv /\ CInv  BY InitPInv, InitCInv
<1>2. PInv /\ CInv /\ [Next]_vars => PInv' /\ CInv'  BY StepPInv, StepCInv
<1>3. PInv /\ CInv => CombinedRight  BY CombinedNow
<1> QED  BY <1>1, <1>2, <1>3, PTL DEF Spec

=============================================================================
