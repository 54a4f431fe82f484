---------------------------- MODULE JqDeferred ----------------------------
(***************************************************************************)
(* jQuery.Callbacks, jQuery.Deferred, its then, and jQuery.when.  A        *)
(* callback that a list calls may use any list again, the one that calls   *)
(* it too, so the calls that are under way are a stack: the first item is  *)
(* what runs now.  Contexts (this) are left out; the arguments of a call   *)
(* are one value.                                                          *)
(***************************************************************************)
EXTENDS Integers, Sequences, SequencesExt, FiniteSets

CONSTANTS Values,         \* what a deferred is settled or notified with
          MaxDeferreds,   \* bound: deferreds the program makes, then and when included
          MaxCallbacks,   \* bound: callbacks of the program
          MaxOps,         \* bound: operations of a program that uses deferreds
          MaxRawOps,      \* bound: operations of one that uses a plain Callbacks list
          Options         \* the options of the plain Callbacks list

VARIABLE dfr   \* lists, states, thens and whens, the stack, and what was added and called

None == "none"
Plain == 0                \* an argument of when that is not a deferred
Raw == <<0, "list">>    \* the list the program makes with jQuery.Callbacks
Kinds == {"done", "fail", "progress"}
Final(kind) == IF kind = "done" THEN "resolved" ELSE "rejected"

NewList(options, cbs) ==
    [cbs |-> cbs, alive |-> TRUE, memory |-> <<>>, fired |-> FALSE, firing |-> FALSE,
     length |-> 0, index |-> 0, start |-> 0, open |-> "once" \notin options,
     queue |-> <<>>, options |-> options]

OnState(d, kind) == [do |-> "state", d |-> d, kind |-> kind]
OnDisable(l) == [do |-> "disable", l |-> l]
OnLock(l) == [do |-> "lock", l |-> l]
OnSettle(l) == [do |-> "settle", l |-> l]
User(c) == [do |-> "user", c |-> c]

(* The three lists of a new deferred; the callbacks they start with set    *)
(* the state, disable the other one and lock the progress.  The mutant     *)
(* forgets to disable the other one.                                       *)
Settling(d, kind, other) ==
    <<OnState(d, kind), OnDisable(<<d, other>>), OnLock(<<d, "progress">>)>>

DeferredLists(d) ==
    [l \in {<<d, k>> : k \in Kinds} |->
        CASE l[2] = "done" -> NewList({"once", "memory"}, Settling(d, "done", "fail"))
          [] l[2] = "fail" -> NewList({"once", "memory"}, Settling(d, "fail", "done"))
          [] OTHER -> NewList({"memory"}, <<>>)]

Then(S, items) == [S EXCEPT !.stack = items \o @]

----------------------------------------------------------------------------
(* Callbacks *)

disable(L) == [L EXCEPT !.alive = FALSE, !.cbs = <<>>, !.open = FALSE, !.queue = <<>>,
                        !.memory = <<>>]

lock(L) == LET M == [L EXCEPT !.open = FALSE, !.queue = <<>>]
           IN  IF M.memory = <<>> THEN disable(M) ELSE M

empty(L) == [L EXCEPT !.cbs = <<>>, !.length = 0]

fire(S, l, v) ==
    LET L == S.lists[l]
    IN  Then([S EXCEPT !.lists[l] =
                 [L EXCEPT !.memory = IF "memory" \in L.options THEN <<v>> ELSE <<>>,
                           !.fired = TRUE, !.index = L.start, !.start = 0,
                           !.length = Len(L.cbs), !.firing = TRUE],
                       !.round = IF l = Raw /\ L.start = 0 THEN <<>> ELSE @],
             <<[op |-> "loop", l |-> l, v |-> v]>>)

fireWith(S, l, v) ==
    LET L == S.lists[l]
    IN  IF ~L.alive \/ (L.fired /\ ~L.open) THEN S
        ELSE IF L.firing THEN [S EXCEPT !.lists[l].queue = Append(@, v)]
        ELSE fire(S, l, v)

\* Mutant: a callback added after the list has fired is not called
addMutant(S, l, c) ==
    LET L == S.lists[l]
    IN  IF ~L.alive THEN S
        ELSE [S EXCEPT !.lists[l].cbs = Append(@, c),
                       !.lists[l].length = IF L.firing THEN Len(L.cbs) + 1 ELSE @]

add(S, l, c) ==
    LET L == S.lists[l]
        new == IF "unique" \in L.options /\ c \in ToSet(L.cbs) THEN L.cbs
               ELSE Append(L.cbs, c)
        T == [S EXCEPT !.lists[l].cbs = new]
    IN  IF ~L.alive THEN S
        ELSE IF L.firing THEN [T EXCEPT !.lists[l].length = Len(new)]
        ELSE IF L.memory # <<>>
             THEN fire([T EXCEPT !.lists[l].start = Len(L.cbs)], l, L.memory[1])
        ELSE T

RECURSIVE removeFrom(_, _, _)
\* Mutant: the place of the firing is not moved
removeFromMutant(L, c, from) == [L EXCEPT !.cbs = Remove(@, c), !.length = Len(Remove(L.cbs, c))]
removeFrom(L, c, from) ==
    LET at == {i \in from .. Len(L.cbs) - 1 : L.cbs[i + 1] = c}
    IN  IF at = {} THEN L
        ELSE LET i == CHOOSE i \in at : \A j \in at : i <= j
             IN  removeFrom([L EXCEPT !.cbs = RemoveAt(@, i + 1),
                                      !.length = IF L.firing /\ i <= @ THEN @ - 1 ELSE @,
                                      !.index  = IF L.firing /\ i <= @ THEN @ - 1 ELSE @], c, i)

(* The end of a firing: what was fired meanwhile, or nothing more. *)
FiringEnds(S, l) ==
    LET L == S.lists[l]
        T == [S EXCEPT !.lists[l].firing = FALSE]
    IN  IF ~L.alive \/ (L.open /\ L.queue = <<>>) THEN T
        ELSE IF L.open THEN fire([T EXCEPT !.lists[l].queue = Tail(@)], l, Head(L.queue))
        ELSE IF L.memory # <<>> THEN [T EXCEPT !.lists[l].cbs = <<>>]
        ELSE [T EXCEPT !.lists[l] = disable(@)]

(* One round of the loop of fire: the callback at the index, and after it  *)
(* the next index.                                                         *)
FireLoop(S, l, v) ==
    LET L == S.lists[l]
    IN  IF L.alive /\ L.index < L.length
        THEN Then(S, <<[op |-> "call", l |-> l, cb |-> L.cbs[L.index + 1], v |-> v],
                       [op |-> "next", l |-> l], [op |-> "loop", l |-> l, v |-> v]>>)
        ELSE FiringEnds(S, l)

----------------------------------------------------------------------------
(* Deferred, then and when *)

(* What then adds to a list: the function's result, or the promise it      *)
(* returns, settles the new deferred.                                      *)
forward(S, n, kind, fn, v) ==
    CASE fn.t = "value"   -> fireWith(S, <<n, kind>>, fn.v)
      [] fn.t = "promise" -> Then(S, <<[op |-> "add", l |-> <<fn.d, "done">>, cb |-> OnSettle(<<n, "done">>)],
                                       [op |-> "add", l |-> <<fn.d, "fail">>, cb |-> OnSettle(<<n, "fail">>)],
                                       [op |-> "add", l |-> <<fn.d, "progress">>,
                                        cb |-> OnSettle(<<n, "progress">>)]>>)
      [] OTHER -> fireWith(S, <<n, kind>>, v)

\* Mutant: every value of a when is stored in the first place
updateFuncMutant(S, m, i, v, progress) ==
    LET w == S.whens[m]
    IN  IF progress THEN fireWith([S EXCEPT !.whens[m].progress[i] = v], <<m, "progress">>,
                                  [w.progress EXCEPT ![i] = v])
        ELSE LET T == [S EXCEPT !.whens[m].values[1] = v, !.whens[m].remaining = @ - 1]
             IN  IF T.whens[m].remaining = 0 THEN fireWith(T, <<m, "done">>, T.whens[m].values) ELSE T

updateFunc(S, m, i, v, progress) ==
    LET w == S.whens[m]
    IN  IF progress THEN fireWith([S EXCEPT !.whens[m].progress[i] = v], <<m, "progress">>,
                                  [w.progress EXCEPT ![i] = v])
        ELSE LET T == [S EXCEPT !.whens[m].values[i] = v, !.whens[m].remaining = @ - 1]
             IN  IF T.whens[m].remaining = 0 THEN fireWith(T, <<m, "done">>, T.whens[m].values) ELSE T

Deferred(S) == LET d == Len(S.state) + 1
               IN  [S EXCEPT !.state = Append(@, "pending"), !.lists = DeferredLists(d) @@ @]

then(S, d, onDone, onFail) ==
    LET n == Len(S.state) + 1
        On(kind, fn) == [op |-> "add", l |-> <<d, kind>>,
                         cb |-> [do |-> "forward", n |-> n, kind |-> kind, fn |-> fn]]
    IN  Then([Deferred(S) EXCEPT !.thens = @ \cup {[d |-> d, n |-> n, done |-> onDone, fail |-> onFail]}],
             <<On("done", onDone), On("fail", onFail), On("progress", [t |-> None])>>)

when(S, subs) ==
    LET m == Len(S.state) + 1
        Sub(i) == IF subs[i] = Plain THEN <<[op |-> "plain", m |-> m]>>
                  ELSE <<[op |-> "add", l |-> <<subs[i], "done">>,
                          cb |-> [do |-> "update", m |-> m, i |-> i, progress |-> FALSE]],
                         [op |-> "add", l |-> <<subs[i], "fail">>, cb |-> OnSettle(<<m, "fail">>)],
                         [op |-> "add", l |-> <<subs[i], "progress">>,
                          cb |-> [do |-> "update", m |-> m, i |-> i, progress |-> TRUE]]>>
    IN  Then([Deferred(S) EXCEPT !.whens = (m :> [remaining |-> Len(subs), subs |-> subs, values |-> subs,
                                                  progress |-> subs]) @@ @],
             FlattenSeq([i \in DOMAIN subs |-> Sub(i)]) \o <<[op |-> "all", m |-> m]>>)

----------------------------------------------------------------------------
(* The steps: what the first item of the stack does *)

Init == \E raw \in BOOLEAN :
    dfr = [lists |-> (Raw :> NewList(Options, <<>>)), state |-> <<>>, thens |-> {},
           whens |-> <<>>, stack |-> <<>>, ops |-> 0, made |-> 0, added |-> <<>>,
           calls |-> <<>>, round |-> <<>>, whole |-> TRUE, raw |-> raw]

Rest(S) == [S EXCEPT !.stack = Tail(@)]

Call(S, item) ==
    LET c == item.cb
    IN  CASE c.do = "state"   -> [S EXCEPT !.state[c.d] = Final(c.kind)]
          [] c.do = "disable" -> [S EXCEPT !.lists[c.l] = disable(@)]
          [] c.do = "lock"    -> [S EXCEPT !.lists[c.l] = lock(@)]
          [] c.do = "settle"  -> fireWith(S, c.l, item.v)
          [] c.do = "forward" -> forward(S, c.n, c.kind, c.fn, item.v)
          [] c.do = "update"  -> updateFunc(S, c.m, c.i, item.v, c.progress)
          [] OTHER -> Then(IF item.l = Raw THEN [S EXCEPT !.round = Append(@, c.c)]
                           ELSE [S EXCEPT !.calls = Append(@, <<item.l, c.c, item.v>>)],
                           <<[op |-> "body", l |-> item.l]>>)

(* A firing of the plain list that was neither stopped nor emptied has     *)
(* called the whole list (the history the property reads).                 *)
Ended(S, l) == l = Raw /\ S.lists[l].alive /\ S.lists[l].index >= S.lists[l].length

Step ==
    /\ dfr.stack # <<>> /\ Head(dfr.stack).op # "body"
    /\ LET item == Head(dfr.stack)
           S == Rest(dfr)
       IN  dfr' = CASE item.op = "loop" ->
                          LET T == FireLoop(S, item.l, item.v)
                          IN  IF Ended(S, item.l)
                              THEN [T EXCEPT !.whole = @ /\ S.round = [i \in DOMAIN S.lists[Raw].cbs |->
                                                                          S.lists[Raw].cbs[i].c]]
                              ELSE T
                    [] item.op = "next"  -> [S EXCEPT !.lists[item.l].index = @ + 1]
                    [] item.op = "call"  -> Call(S, item)
                    [] item.op = "add"   -> add(S, item.l, item.cb)
                    [] item.op = "plain" -> [S EXCEPT !.whens[item.m].remaining = @ - 1]
                    [] OTHER -> IF S.whens[item.m].remaining = 0
                                THEN fireWith(S, <<item.m, "done">>, S.whens[item.m].values) ELSE S

(* The program runs when nothing does, and in the body of its callbacks. *)
Running == \A i \in DOMAIN dfr.stack : i = 1 => dfr.stack[i].op = "body"
Own == {d \in DOMAIN dfr.state : d \notin DOMAIN dfr.whens /\ \A t \in dfr.thens : t.n # d}
ThenFns == {[t |-> None]} \cup {[t |-> "value", v |-> v] : v \in Values}
           \cup {[t |-> "promise", d |-> d] : d \in DOMAIN dfr.state}
Op(S) == Running /\ dfr.ops < (IF dfr.raw THEN MaxRawOps ELSE MaxOps) /\ dfr' = [S EXCEPT !.ops = @ + 1]
Room == Len(dfr.state) < MaxDeferreds

NewDeferred == ~dfr.raw /\ Room /\ Op(Deferred(dfr))
Settle == \E d \in Own, kind \in Kinds, v \in Values : Op(fireWith(dfr, <<d, kind>>, v))
AddCallback ==
    \E d \in DOMAIN dfr.state, kind \in Kinds :
        LET l == <<d, kind>>
            c == dfr.made + 1
        IN  /\ dfr.made < MaxCallbacks
            /\ Op(add([dfr EXCEPT !.made = c, !.added = Append(@, <<l, c>>)], l, User(c)))
ThenOf == Room /\ \E d \in DOMAIN dfr.state, f, g \in ThenFns : Op(then(dfr, d, f, g))
When == ~dfr.raw /\ Room /\ \E subs \in [1 .. 2 -> DOMAIN dfr.state \cup {Plain}] : Op(when(dfr, subs))

(* The plain list. *)
RawFire == dfr.raw /\ \E v \in Values : Op(fireWith(dfr, Raw, v))
RawAdd == dfr.raw /\ \E c \in 1 .. MaxCallbacks :
               /\ "unique" \in Options \/ User(c) \notin ToSet(dfr.lists[Raw].cbs)
               /\ Op(add(dfr, Raw, User(c)))
RawRemove == dfr.raw /\ \E c \in 1 .. MaxCallbacks :
                 Op([dfr EXCEPT !.lists[Raw] = removeFrom(@, User(c), 0), !.round = Remove(@, c)])
RawEnd == dfr.raw /\ \E L \in {disable(dfr.lists[Raw]), lock(dfr.lists[Raw])} :
               Op([dfr EXCEPT !.lists[Raw] = L])
RawEmpty == dfr.raw /\ ~dfr.lists[Raw].firing
                   /\ Op([dfr EXCEPT !.lists[Raw] = empty(@), !.round = <<>>])

(* A callback returns; false stops a list with stopOnFalse. *)
Return ==
    /\ dfr.stack # <<>> /\ Head(dfr.stack).op = "body"
    /\ \/ dfr' = Rest(dfr)
       \/ /\ "stopOnFalse" \in dfr.lists[Head(dfr.stack).l].options
          /\ LET l == Head(dfr.stack).l
                 S == [dfr EXCEPT !.lists[l].memory = <<>>, !.stack = SubSeq(@, 4, Len(@))]
             IN  dfr' = FiringEnds(S, l)

Next == \/ Step \/ Return \/ NewDeferred \/ Settle \/ AddCallback \/ ThenOf \/ When
        \/ RawFire \/ RawAdd \/ RawRemove \/ RawEnd \/ RawEmpty

Spec == Init /\ [][Next]_dfr
----------------------------------------------------------------------------
(* The callbacks of a deferred are called once each, in the order they     *)
(* were added, with the value it was settled with, and only those of the   *)
(* state it is in: whatever the callbacks themselves add and settle, and   *)
(* also when they are added after the deferred is settled.                 *)
CalledOnce ==
    dfr.stack = <<>> =>
        \A d \in DOMAIN dfr.state, kind \in {"done", "fail"} :
            LET l == <<d, kind>>
                mine == SelectSeq(dfr.added, LAMBDA a : a[1] = l)
                got == SelectSeq(dfr.calls, LAMBDA a : a[1] = l)
            IN  got = IF dfr.state[d] = Final(kind)
                      THEN [i \in DOMAIN mine |-> <<l, mine[i][2], dfr.lists[l].memory[1]>>]
                      ELSE <<>>

Outcome(d) == <<dfr.state[d], CASE dfr.state[d] = "resolved" -> dfr.lists[<<d, "done">>].memory
                                [] dfr.state[d] = "rejected" -> dfr.lists[<<d, "fail">>].memory
                                [] OTHER -> <<>> >>

ThenOutcome(t) ==
    CASE dfr.state[t.d] = "pending" -> <<"pending", <<>> >>
      [] OTHER -> LET fn == IF dfr.state[t.d] = "resolved" THEN t.done ELSE t.fail
                  IN  CASE fn.t = "value" -> <<dfr.state[t.d], <<fn.v>> >>
                        [] fn.t = "promise" -> Outcome(fn.d)
                        [] OTHER -> Outcome(t.d)

WhenOutcomes(w) ==
    LET subs == {w.subs[i] : i \in DOMAIN w.subs} \ {Plain}
        rejected == {d \in subs : dfr.state[d] = "rejected"}
    IN  IF rejected # {} THEN {Outcome(d) : d \in rejected}
        ELSE IF \A d \in subs : dfr.state[d] = "resolved"
             THEN {<<"resolved", <<[i \in DOMAIN w.subs |->
                      IF w.subs[i] = Plain THEN Plain ELSE Outcome(w.subs[i])[2][1]]>> >>}
        ELSE {<<"pending", <<>> >>}

(* The deferred of a then and the one of a when are settled exactly when   *)
(* those they stand for decide it, and with their values, each in its      *)
(* place, however late then or when is called and from wherever.           *)
ChainsSettle ==
    dfr.stack = <<>> =>
        /\ \A t \in dfr.thens : Outcome(t.n) = ThenOutcome(t)
        /\ \A m \in DOMAIN dfr.whens : Outcome(m) \in WhenOutcomes(dfr.whens[m])

(* A firing that is not stopped calls every callback that is in the list   *)
(* when it ends, once and in order, also when callbacks add and remove     *)
(* others, themselves included, while it goes on.                          *)
FiringWhole == dfr.whole
=============================================================================
