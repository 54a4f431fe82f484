------------------------------- MODULE JqFx -------------------------------
(***************************************************************************)
(* The fx queue of one element and the animations on it: queue, dequeue,   *)
(* delay, clearQueue, promise, animate, stop, finish, the timers and their *)
(* interval.  What an animation draws is left out; its length is either    *)
(* none or some: then any later tick may be its last one.                  *)
(***************************************************************************)
EXTENDS Integers, Sequences, SequencesExt, FiniteSets

CONSTANTS MaxAnims,     \* bound: animations and delays
          MaxFxOps,     \* bound: operations of the program
          MaxPromises   \* bound: promises the program asks for

VARIABLE fx

(* queue    the element's data "fxqueue"                                   *)
(* hooks    its "fxqueueHooks": the number of this object, 0 for none, the *)
(*          delay its stop would cut, how many animations run beside the   *)
(*          queue, and the promises its empty list would resolve           *)
(* timers   jQuery.timers; ticking is whether the interval is set          *)
(* begun    history: the steps dequeue has begun, by number                *)
(* halted   history: the delay in progress was cut and nothing went on     *)
(* cleared  history: the queue was emptied, its sentinel with it, under a  *)
(*          step that was in progress                                      *)
Inprogress == 0
NoHooks == [no |-> 0, stop |-> 0, unqueued |-> 0, waiting |-> {}]

NewAnim(a) == [queued |-> a.queued, zero |-> a.zero, again |-> a.again, delay |-> a.delay,
               stopped |-> FALSE, running |-> FALSE, hooks |-> 0]
Animations == [queued : BOOLEAN, zero : BOOLEAN, again : BOOLEAN, delay : {FALSE}]
DelayOf == [queued |-> TRUE, zero |-> FALSE, again |-> FALSE, delay |-> TRUE]
Follower == [queued |-> TRUE, zero |-> FALSE, again |-> FALSE, delay |-> FALSE]

_queueHooks(S) == IF S.hooks.no # 0 THEN S
                  ELSE [S EXCEPT !.hooks = [NoHooks EXCEPT !.no = S.made + 1], !.made = @ + 1]

(* The empty list of hooks that are still the element's: it takes queue    *)
(* and hooks away and resolves the promises.  Hooks that were taken away   *)
(* have fired.                                                             *)
fireEmpty(S, no) ==
    IF S.hooks.no # no \/ S.hooks.unqueued > 0 THEN S
    ELSE [S EXCEPT !.queue = <<>>, !.hooks = NoHooks, !.resolved = @ \cup S.hooks.waiting]

RECURSIVE dequeue(_), doAnimation(_, _), complete(_, _), stopAnim(_, _, _), settle(_, _, _), unqueuedEnds(_, _),
          addToQueue(_, _)

\* Mutant: the sentinel of the step that ended stays in the queue
dequeueMutant(S) ==
    LET T == [_queueHooks(S) EXCEPT !.halted = FALSE]
        queue == T.queue
    IN  IF queue = <<>> THEN fireEmpty(T, T.hooks.no)
        ELSE LET R == [T EXCEPT !.queue = <<Inprogress>> \o Tail(queue), !.hooks.stop = 0,
                                !.begun = Append(@, Head(queue))]
             IN  IF Head(queue) = Inprogress THEN R
                 ELSE IF R.anims[Head(queue)].delay
                 THEN [R EXCEPT !.timeouts = @ \cup {Head(queue)}, !.hooks.stop = Head(queue)]
                 ELSE doAnimation(R, Head(queue))

dequeue(S) ==
    LET T == [_queueHooks(S) EXCEPT !.halted = FALSE]
        queue == IF T.queue # <<>> /\ Head(T.queue) = Inprogress THEN Tail(T.queue) ELSE T.queue
    IN  IF queue = <<>> THEN fireEmpty([T EXCEPT !.queue = <<>>], T.hooks.no)
        ELSE LET R == [T EXCEPT !.queue = <<Inprogress>> \o Tail(queue), !.hooks.stop = 0,
                                !.begun = Append(@, Head(queue))]
             IN  IF R.anims[Head(queue)].delay
                 THEN [R EXCEPT !.timeouts = @ \cup {Head(queue)}, !.hooks.stop = Head(queue)]
                 ELSE doAnimation(R, Head(queue))

\* Mutant: the queue is dequeued whether a step is in progress or not
QueuedMutant(S) == dequeue(_queueHooks(S))

\* queue(data): a function is added, an array replaces the queue.
Queued(S) == LET T == _queueHooks(S)
             IN  IF T.queue = <<>> \/ Head(T.queue) # Inprogress THEN dequeue(T) ELSE T
addToQueue(S, a) == Queued([S EXCEPT !.queue = Append(@, a)])
clearQueue(S) == Queued([S EXCEPT !.queue = <<>>, !.cleared = @ \/ S.queue # <<>>])

(***************************************************************************)
(* Animations.  One that takes no time is over in its first tick, before   *)
(* its callbacks are attached: they are called after it was counted off.   *)
(***************************************************************************)
doAnimation(S, a) ==
    LET T == IF S.anims[a].queued THEN S ELSE [_queueHooks(S) EXCEPT !.hooks.unqueued = @ + 1]
        R == [T EXCEPT !.anims[a] = [@ EXCEPT !.running = TRUE, !.stopped = FALSE,
                                              !.hooks = IF T.anims[a].queued THEN 0 ELSE T.hooks.no]]
        U == IF R.anims[a].zero
             THEN complete(unqueuedEnds([R EXCEPT !.anims[a].running = FALSE], a), a)
             ELSE [R EXCEPT !.timers = Append(@, a), !.ticking = TRUE]
    IN  IF S.finish THEN stopAnim(U, a, TRUE) ELSE U

\* opt.complete: the program's callback, which may animate again, then dequeue.
complete(S, a) ==
    LET n == Len(S.anims) + 1
        T == IF S.anims[a].again /\ n <= MaxAnims
             THEN addToQueue([S EXCEPT !.anims = Append(@, NewAnim(Follower))], n) ELSE S
    IN  IF S.anims[a].queued THEN dequeue(T) ELSE T

\* Mutant: the animation is counted off only when it was played to the end
unqueuedEndsMutant(S, a) ==
    IF S.anims[a].queued \/ S.anims[a].hooks # S.hooks.no \/ S.anims[a].stopped THEN S
    ELSE LET T == [S EXCEPT !.hooks.unqueued = @ - 1]
         IN  IF T.queue = <<>> THEN fireEmpty(T, T.hooks.no) ELSE T

unqueuedEnds(S, a) ==
    IF S.anims[a].queued \/ S.anims[a].hooks # S.hooks.no THEN S
    ELSE LET T == [S EXCEPT !.hooks.unqueued = @ - 1]
         IN  IF T.queue = <<>> THEN fireEmpty(T, T.hooks.no) ELSE T

\* The animation's deferred: resolved it completes, rejected it does not.
settle(S, a, resolved) ==
    IF ~S.anims[a].running THEN S
    ELSE LET T == [S EXCEPT !.anims[a].running = FALSE]
         IN  unqueuedEnds(IF resolved THEN complete(T, a) ELSE T, a)

stopAnim(S, a, gotoEnd) ==
    IF S.anims[a].stopped THEN S ELSE settle([S EXCEPT !.anims[a].stopped = TRUE], a, gotoEnd)

\* The timers from the last to the first, those of the element being stopped.
RECURSIVE stopTimers(_, _, _, _)
stopTimers(S, i, gotoEnd, which) ==
    IF i = 0 THEN S
    ELSE LET a == S.timers[i]
         IN  stopTimers(IF S.anims[a].running /\ a \in which
                        THEN [stopAnim(S, a, gotoEnd) EXCEPT !.timers = RemoveAt(@, i)] ELSE S,
                        i - 1, gotoEnd, which)

\* A delay's stop clears its timeout.
CutDelay(S) == [S EXCEPT !.timeouts = @ \ {S.hooks.stop}, !.halted = @ \/ S.hooks.stop # 0]

stop(S, clear, gotoEnd) ==
    LET C == IF clear THEN clearQueue(S) ELSE S
        D == [CutDelay(C) EXCEPT !.hooks.stop = 0]
        mine == {a \in ToSet(D.timers) : D.anims[a].running}
        T == stopTimers(D, Len(D.timers), gotoEnd, DOMAIN D.anims)
    IN  IF mine = {} \/ ~gotoEnd THEN dequeue(T) ELSE T

RECURSIVE finishQueue(_, _)
finishQueue(S, queue) ==
    IF queue = <<>> THEN S
    ELSE finishQueue(IF Head(queue) = Inprogress \/ S.anims[Head(queue)].delay THEN S
                     ELSE doAnimation(S, Head(queue)), Tail(queue))

finish(S) ==
    LET T == CutDelay([S EXCEPT !.finish = TRUE, !.queue = <<>>])
        queued == {a \in DOMAIN T.anims : T.anims[a].queued}
    IN  [finishQueue(stopTimers(T, Len(T.timers), TRUE, queued), S.queue) EXCEPT !.finish = FALSE]

(* One tick: the animations in last are at their end; those a callback     *)
(* starts meanwhile are at their beginning.                                *)
RECURSIVE tickFrom(_, _, _)
tickFrom(S, i, last) ==
    IF i > Len(S.timers) THEN [S EXCEPT !.ticking = S.timers # <<>>]
    ELSE LET a == S.timers[i]
             over == S.anims[a].stopped \/ a \in last
             T == IF ~over \/ S.anims[a].stopped THEN S ELSE settle(S, a, TRUE)
         IN  IF over /\ i <= Len(T.timers) /\ T.timers[i] = a
             THEN tickFrom([T EXCEPT !.timers = RemoveAt(@, i)], i, last)
             ELSE tickFrom(T, i + 1, last)

----------------------------------------------------------------------------
Init == fx = [queue |-> <<>>, hooks |-> NoHooks, made |-> 0, anims |-> <<>>, timers |-> <<>>,
              ticking |-> FALSE, timeouts |-> {}, finish |-> FALSE, promises |-> 0, resolved |-> {},
              ops |-> 0, begun |-> <<>>, halted |-> FALSE, cleared |-> FALSE]

Op(S) == fx.ops < MaxFxOps /\ fx' = [S EXCEPT !.ops = @ + 1]
Room == Len(fx.anims) < MaxAnims
With(a) == [fx EXCEPT !.anims = Append(@, NewAnim(a))]
New == Len(fx.anims) + 1

Animate == Room /\ \E a \in Animations :
               Op(IF a.queued THEN addToQueue(With(a), New) ELSE doAnimation(With(a), New))
Delay == Room /\ Op(addToQueue(With(DelayOf), New))
Stop == \E clear, gotoEnd \in BOOLEAN : Op(stop(fx, clear, gotoEnd))
Finish == Op(finish(fx))
Clear == Op(clearQueue(fx))
Promise ==
    /\ fx.promises < MaxPromises
    /\ LET p == fx.promises + 1
       IN  Op(IF fx.hooks.no = 0 THEN [fx EXCEPT !.promises = p, !.resolved = @ \cup {p}]
              ELSE [fx EXCEPT !.promises = p, !.hooks.waiting = @ \cup {p}])
Tick == fx.ticking /\ \E last \in SUBSET ToSet(fx.timers) :
               fx' = tickFrom(fx, 1, last)
Timeout == \E d \in fx.timeouts : fx' = dequeue([fx EXCEPT !.timeouts = @ \ {d}])

Next == Animate \/ Delay \/ Stop \/ Finish \/ Clear \/ Promise \/ Tick \/ Timeout
Spec == Init /\ [][Next]_fx
----------------------------------------------------------------------------
Playing(a) == fx.anims[a].running /\ ~fx.anims[a].stopped /\ a \in ToSet(fx.timers) /\ fx.ticking

Steps == fx.timeouts \cup {a \in DOMAIN fx.anims : fx.anims[a].queued /\ Playing(a)}

(* A queue with something in it goes on: the step that is in progress is   *)
(* an animation that is being played, or a delay whose timeout is set,     *)
(* however stops, finishes and callbacks that animate again fall together. *)
(* There is one exception: a stop that forces an animation beside the      *)
(* queue to its end cuts a delay too, calls no dequeue ("start the next in *)
(* the queue if the last step wasn't forced"), and the queue stands still  *)
(* until the next call that dequeues.                                      *)
QueueGoesOn ==
    fx.queue # <<>> =>
        /\ Head(fx.queue) = Inprogress
        /\ fx.halted \/ Steps # {}

(* The steps begin in the order they were queued, each at most once, and   *)
(* one at a time; but after clearQueue, or a stop that clears, has taken   *)
(* the sentinel away under a step, the next one need not wait for it.      *)
OneAtATime ==
    /\ \A i, j \in DOMAIN fx.begun : i < j => fx.begun[i] < fx.begun[j]
    /\ ~fx.cleared => Cardinality(Steps) <= 1

(* A promise for the queue that is not resolved waits for something: a     *)
(* step of the queue, an animation beside it, or, where a forced stop or a *)
(* finish has cut the delay in progress, the next call that dequeues.  The *)
(* number of animations beside the queue is that of those being played, so *)
(* that the last one tells.                                                *)
EmptyTold ==
    /\ fx.hooks.waiting # {} => fx.queue # <<>> \/ fx.hooks.unqueued > 0 \/ fx.halted
    /\ fx.hooks.unqueued = Cardinality({a \in DOMAIN fx.anims : /\ ~fx.anims[a].queued /\ Playing(a)
                                                                /\ fx.anims[a].hooks = fx.hooks.no})
=============================================================================
