----------------------------- MODULE JqEvents -----------------------------
(***************************************************************************)
(* jQuery.event: handlers bound to elements, directly or on behalf of the  *)
(* elements below (delegation), native events and triggered ones, and what *)
(* handlers do meanwhile: bind, unbind, stop, prevent and trigger again.   *)
(* The elements are one path of the page: 1 is the innermost, Top - 1 the  *)
(* document and Top the window.  The calls under way are a stack.  Inline  *)
(* onxyz handlers, special events that change their type and the data of a *)
(* handler are left out.                                                   *)
(***************************************************************************)
EXTENDS Integers, Sequences, SequencesExt, FiniteSets

CONSTANTS Top,          \* the number of elements of the path
          Tags,         \* [1 .. Top -> {"input", "a", "div"}], an input being a checkbox
          Types,        \* the types of events; "click" is the one elements have a method for
          Selectors,    \* [selector -> the elements it finds]
          Binding,      \* bound: the elements the program binds handlers to
          Fns,          \* the functions of the program
          MaxEvtOps,    \* bound: operations of the program
          MaxDepth      \* bound: events under way at once

VARIABLE evt   \* handlers and delegateCount, triggered, the events under way, the stack

None == "none"
Elements == 1 .. Top
Keys == Elements \X Types
Spaces == {None, "ns"}                      \* the namespace of a handler or an event
Put(S, items) == [S EXCEPT !.stack = items \o @]

(***************************************************************************)
(* Binding.  Delegated handlers come in front of the others.               *)
(***************************************************************************)
addHandler(S, e, type, fn, sel, ns, one) ==
    LET h == [id |-> S.made + 1, guid |-> fn, selector |-> sel, namespace |-> ns, one |-> one]
        k == <<e, type>>
        n == S.delegateCount[k]
    IN  [S EXCEPT !.made = @ + 1,
                  !.handlers[k] = IF sel # None THEN InsertAt(@, n + 1, h) ELSE Append(@, h),
                  !.delegateCount[k] = IF sel # None THEN n + 1 ELSE n]

Removed(h, fn, sel, ns) ==
    /\ fn \in {None, h.guid} /\ ns \in {None, h.namespace}
    /\ sel = None \/ sel = h.selector \/ (sel = "**" /\ h.selector # None)

\* Mutant: the delegated handlers that go are not counted down
removeHandlersMutant(S, e, type, fn, sel, ns) ==
    [S EXCEPT !.handlers[<<e, type>>] = SelectSeq(@, LAMBDA h : ~Removed(h, fn, sel, ns))]

removeHandlers(S, e, type, fn, sel, ns) ==
    LET k == <<e, type>>
        gone == SelectSeq(S.handlers[k], LAMBDA h : Removed(h, fn, sel, ns))
    IN  [S EXCEPT !.handlers[k] = SelectSeq(@, LAMBDA h : ~Removed(h, fn, sel, ns)),
                  !.delegateCount[k] = @ - Len(SelectSeq(gone, LAMBDA h : h.selector # None))]

(***************************************************************************)
(* Dispatch on one element: what is called is fixed when it starts.        *)
(***************************************************************************)
\* The handlers delegated for cur, which is below the document.
MatchesOf(S, k, cur) ==
    SelectSeq(SubSeq(S.handlers[k], 1, S.delegateCount[k]), LAMBDA h : cur \in Selectors[h.selector])

Grouped(cur, hs) == [i \in DOMAIN hs |-> [cur |-> cur, h |-> hs[i], first |-> i = 1]]

\* Mutant: the element's own handlers are not told from the delegated ones
handlerQueueMutant(S, k, target) ==
    FlattenSeq([i \in 1 .. (IF k[1] < Top - 1 THEN k[1] ELSE Top - 1) - target |->
                   Grouped(target + i - 1, MatchesOf(S, k, target + i - 1))])
    \o Grouped(k[1], S.handlers[k])

\* The handlers of one element for an event at the target, in their order.
handlerQueue(S, k, target) ==
    FlattenSeq([i \in 1 .. (IF k[1] < Top - 1 THEN k[1] ELSE Top - 1) - target |->
                   Grouped(target + i - 1, MatchesOf(S, k, target + i - 1))])
    \o Grouped(k[1], SubSeq(S.handlers[k], S.delegateCount[k] + 1, Len(S.handlers[k])))

Current(S) == S.events[Len(S.events)]

\* eventHandle: the second event of a trigger is discarded.  A native event
\* comes to each element as a new jQuery.Event.
dispatch(S, e) ==
    LET k == <<e, Current(S).type>>
    IN  IF S.handlers[k] = <<>> \/ S.triggered = k[2] THEN S
        ELSE Put([S EXCEPT !.events[Len(S.events)].immediate = FALSE],
                 <<[op |-> "queue", elem |-> e, queue |-> handlerQueue(S, k, Current(S).target)]>>)

(* One round of dispatch: elements are left out once the event is stopped, *)
(* the rest of an element's handlers once it is stopped immediately.  A    *)
(* handler bound with one is taken off before its function runs, and so is *)
(* what else has its guid, type, selector and namespace.                   *)
runQueue(S, item) ==
    IF item.queue = <<>> THEN S
    ELSE LET q == Head(item.queue)
             T == Put(S, <<[item EXCEPT !.queue = Tail(@)]>>)
             called == <<item.elem, q.cur, q.h.id>>
             C == Put([T EXCEPT !.events[Len(S.events)].calls = Append(@, called)],
                      <<[op |-> "body", elem |-> item.elem]>>)
         IN  IF q.first /\ Current(S).stopped THEN S
             ELSE IF Current(S).immediate \/ Current(S).namespace \notin {None, q.h.namespace} THEN T
             ELSE IF q.h.one
                  THEN removeHandlers(C, item.elem, Current(S).type, q.h.guid, q.h.selector, q.h.namespace)
             ELSE C

(***************************************************************************)
(* Events.  due is a history: what is bound for the event when it starts.  *)
(***************************************************************************)
PathFrom(e) == [i \in 1 .. Top - e + 1 |-> e + i - 1]

Due(S, path, type, ns, target) ==
    IF S.triggered = type THEN {}
    ELSE UNION {{<<path[i], q.cur, q.h.id>> : q \in {q \in ToSet(handlerQueue(S, <<path[i], type>>, target)) :
                                                        ns \in {None, q.h.namespace}}}
                   : i \in DOMAIN path}

NewEvent(S, type, ns, target, path, trigger) ==
    Put([S EXCEPT !.events = Append(@, [type |-> type, namespace |-> ns, target |-> target,
                                        trigger |-> trigger, prevented |-> FALSE, stopped |-> FALSE,
                                        immediate |-> FALSE, calls |-> <<>>,
                                        due |-> Due(S, path, type, ns, target)])],
        <<[op |-> "walk", path |-> path]>>)

native(S, type, target) == NewEvent(S, type, None, target, PathFrom(target), None)

\* A checkbox gets its native click, so that it changes its state first.
trigger(S, type, ns, elem, onlyHandlers) ==
    IF onlyHandlers THEN NewEvent(S, type, ns, elem, <<elem>>, "handlers")
    ELSE IF type = "click" /\ Tags[elem] = "input" THEN native(S, type, elem)
    ELSE NewEvent(S, type, ns, elem, PathFrom(elem), "all")

\* The default action of a triggered event: the element's own method.
defaultAction(S, ev) ==
    IF /\ ev.trigger = "all" /\ ~ev.prevented
       /\ ev.type = "click" /\ Tags[ev.target] # "a" /\ ev.target < Top - 1
    THEN Put([S EXCEPT !.triggered = ev.type], <<[op |-> "click", target |-> ev.target], [op |-> "reset"]>>)
    ELSE S

walk(S, item) ==
    IF item.path = <<>> \/ Current(S).stopped
    THEN defaultAction([S EXCEPT !.events = Front(@), !.ended = Current(S)], Current(S))
    ELSE dispatch(Put(S, <<[item EXCEPT !.path = Tail(@)]>>), Head(item.path))

----------------------------------------------------------------------------
NoEvent == [calls |-> <<>>, due |-> {}, stopped |-> FALSE]

Init == evt = [handlers |-> [k \in Keys |-> <<>>], delegateCount |-> [k \in Keys |-> 0],
               triggered |-> None, events |-> <<>>, stack |-> <<>>, made |-> 0, ops |-> 0,
               ended |-> NoEvent]

Step ==
    /\ evt.stack # <<>> /\ Head(evt.stack).op # "body"
    /\ LET item == Head(evt.stack)
           S == [evt EXCEPT !.stack = Tail(@), !.ended = NoEvent]
       IN  evt' = CASE item.op = "walk"  -> walk(S, item)
                    [] item.op = "queue" -> runQueue(S, item)
                    [] item.op = "click" -> native(S, "click", item.target)
                    [] item.op = "reset" -> [S EXCEPT !.triggered = None]

\* The program runs when nothing does, and in the body of a handler.
Running == \A i \in DOMAIN evt.stack : i = 1 => evt.stack[i].op = "body"
Op(S) == Running /\ evt.ops < MaxEvtOps /\ evt' = [S EXCEPT !.ops = @ + 1, !.ended = NoEvent]
Fires(S) == Len(evt.events) < MaxDepth /\ Op(S)

On == \E e \in Binding, t \in Types, fn \in Fns, sel \in {None} \cup DOMAIN Selectors, ns \in Spaces,
          one \in BOOLEAN : Op(addHandler(evt, e, t, fn, sel, ns, one))
Off == \E e \in Binding, t \in Types, fn \in {None} \cup Fns, ns \in Spaces,
          sel \in {None, "**"} \cup DOMAIN Selectors :
             /\ removeHandlers(evt, e, t, fn, sel, ns) # evt
             /\ Op(removeHandlers(evt, e, t, fn, sel, ns))
Trigger == \E e \in Elements, t \in Types, ns \in Spaces, only \in BOOLEAN :
              Fires(trigger(evt, t, ns, e, only))
Click == evt.stack = <<>> /\ "click" \in Types /\ \E e \in 1 .. Top - 2 : Fires(native(evt, "click", e))

\* What a handler does to its event; stopping it immediately stops it, too.
Handle(flags) ==
    /\ evt.stack # <<>> /\ Head(evt.stack).op = "body"
    /\ evt' = [evt EXCEPT !.stack = Tail(@), !.ended = NoEvent,
                          !.events[Len(evt.events)] =
                             [@ EXCEPT !.prevented = @ \/ "prevent" \in flags,
                                       !.stopped = @ \/ flags \cap {"stop", "immediate"} # {},
                                       !.immediate = @ \/ "immediate" \in flags]]
Return == Handle({})
ReturnFalse == Handle({"prevent", "stop"})
preventDefault == Handle({"prevent"})
stopPropagation == Handle({"stop"})
stopImmediatePropagation == Handle({"immediate"})

Next == \/ Step \/ On \/ Off \/ Trigger \/ Click
        \/ Return \/ ReturnFalse \/ preventDefault \/ stopPropagation \/ stopImmediatePropagation

Spec == Init /\ [][Next]_evt
----------------------------------------------------------------------------
(* The count by which delegated handlers are told from the others fits the *)
(* list, whatever is bound and unbound, by handlers under way too: those   *)
(* with a selector are in front.                                           *)
DelegatesFirst ==
    \A k \in Keys : \A i \in DOMAIN evt.handlers[k] :
        (i <= evt.delegateCount[k]) <=> (evt.handlers[k][i].selector # None)

Before(a, b) == \/ a[1] < b[1]
                \/ a[1] = b[1] /\ a[2] < b[2]
                \/ a[1] = b[1] /\ a[2] = b[2] /\ a[3] < b[3]

BoundNow(c) == \E t \in Types : \E i \in DOMAIN evt.handlers[<<c[1], t>>] : evt.handlers[<<c[1], t>>][i].id = c[3]

(* An event calls its handlers from the innermost element outwards, on one *)
(* element first those delegated from below, innermost first, and in the   *)
(* order they were bound, each at most once; and an event nobody stopped   *)
(* has called all that were bound when it started and still are: whatever  *)
(* the handlers bind, unbind and trigger meanwhile, and whether the event  *)
(* is native or triggered.                                                 *)
CalledInOrder ==
    /\ \A n \in DOMAIN evt.events : \A i, j \in DOMAIN evt.events[n].calls :
           i < j => Before(evt.events[n].calls[i], evt.events[n].calls[j])
    /\ ~evt.ended.stopped => \A c \in evt.ended.due : BoundNow(c) => c \in ToSet(evt.ended.calls)
=============================================================================
