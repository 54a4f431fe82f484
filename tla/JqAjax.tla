------------------------------ MODULE JqAjax ------------------------------
(***************************************************************************)
(* jQuery.ajax: requests sent by XMLHttpRequest or, for jsonp, by a script *)
(* element that calls a function of the page; their timeouts, abort, the   *)
(* count of active requests and its events.  Callbacks and handlers of     *)
(* events are the program's: they may start and abort requests, so the     *)
(* calls under way are a stack.  Headers, caching and the text of answers  *)
(* are left out: an answer is good, bad, or cannot be converted.           *)
(***************************************************************************)
EXTENDS Integers, Sequences, SequencesExt, FiniteSets

CONSTANTS MaxRequests,  \* bound: requests of the program
          MaxAborts,    \* bound: calls of abort
          AbortInSend,  \* whether a handler of ajaxSend may abort its request
          LateScripts   \* whether a script that was taken off the page may still run

VARIABLE ajx

Put(S, items) == [S EXCEPT !.stack = items \o @]
User(r, at) == [op |-> "user", r |-> r, at |-> at]
Item(op, r) == [op |-> op, r |-> r]
(* What the program asks for; a script of another domain is not global. *)
Kinds == {k \in [jsonp : BOOLEAN, global : BOOLEAN, timeout : BOOLEAN] : k.jsonp => ~k.global}
Names == 1 .. MaxRequests
Nobody == 0

(* jsonp: a name for the page's function, one that is free again or a new  *)
(* one; the function takes the place of what had the name.                 *)
jsonpPrefilter(S, r) ==
    LET name == IF S.oldCallbacks # <<>> THEN Last(S.oldCallbacks) ELSE S.nonce + 1
    IN  [S EXCEPT !.nonce = IF S.oldCallbacks # <<>> THEN @ ELSE @ + 1,
                  !.oldCallbacks = IF @ # <<>> THEN Front(@) ELSE @,
                  !.window[name] = r,
                  !.req[r].name = name, !.req[r].overwritten = S.window[name]]

\* Mutant: the function is left on the page when its request is done
jsonpCleanupMutant(S, r) == [S EXCEPT !.oldCallbacks = Append(@, S.req[r].name)]

\* It always runs before the program's own callbacks.
jsonpCleanup(S, r) ==
    [S EXCEPT !.window[S.req[r].name] = S.req[r].overwritten,
              !.oldCallbacks = Append(@, S.req[r].name)]

newRequest(kind) ==
    [kind |-> kind, state |-> 0, transport |-> FALSE, timer |-> FALSE, waiting |-> FALSE,
     script |-> FALSE, sent |-> FALSE, name |-> 0, overwritten |-> Nobody, got |-> Nobody,
     installed |-> FALSE, settled |-> 0, completes |-> 0]

(* A call of ajax up to beforeSend. *)
ajax(S, kind) ==
    LET r == Len(S.req) + 1
        T == [S EXCEPT !.req = Append(@, newRequest(kind))]
        P == IF kind.jsonp THEN jsonpPrefilter(T, r) ELSE T
        W == IF kind.global THEN [P EXCEPT !.active = @ + 1, !.busy = IF P.active = 0 THEN Append(@, TRUE) ELSE @]
             ELSE P
    IN  Put(W, (IF kind.global /\ P.active = 0 THEN <<User(r, "ajaxStart")>> ELSE <<>>)
               \o <<User(r, "beforeSend"), Item("transport", r)>>)

\* The deferred is settled, complete is fired, and then the request does not
\* count any more.
finished(S, r, ok) ==
    LET T == [S EXCEPT !.req[r] = [@ EXCEPT !.state = 2, !.transport = FALSE, !.timer = FALSE,
                                            !.settled = S.req[r].settled + 1]]
    IN  Put(IF S.req[r].kind.jsonp THEN jsonpCleanup(T, r) ELSE T,
            <<User(r, IF ok THEN "success" ELSE "error"), Item("complete", r), Item("unwatch", r)>>)

\* Mutant: a late answer does not find the request done
doneMutant(S, r, ok) == finished(S, r, ok)

\* Called once.
done(S, r, ok) == IF S.req[r].state = 2 THEN S ELSE finished(S, r, ok)

(* abort of the transport: the callback of the xhr is called with isAbort, *)
(* the script is taken off the page.                                       *)
transportAbort(S, r) ==
    IF S.req[r].transport THEN [S EXCEPT !.req[r] = [@ EXCEPT !.waiting = FALSE, !.script = FALSE]]
    ELSE S

abort(S, r) == done(transportAbort(S, r), r, FALSE)

\* beforeSend has returned: the transport, or nothing when it was aborted.
getTransport(S, r) ==
    IF S.req[r].state = 2 THEN S
    ELSE Put([S EXCEPT !.req[r] = [@ EXCEPT !.installed = TRUE, !.transport = TRUE]],
             (IF S.req[r].kind.global THEN <<User(r, "ajaxSend")>> ELSE <<>>) \o <<Item("send", r)>>)

(* A transport that is gone, because a handler of ajaxSend has aborted the *)
(* request, is an error in send.                                           *)
send(S, r) ==
    LET q == S.req[r]
        T == [S EXCEPT !.req[r] = [@ EXCEPT !.timer = q.kind.timeout, !.state = 1]]
    IN  IF ~q.transport THEN done(T, r, FALSE)
        ELSE [T EXCEPT !.req[r] = [@ EXCEPT !.waiting = TRUE, !.sent = TRUE, !.script = q.kind.jsonp]]

complete(S, r) ==
    IF ~S.req[r].installed THEN S
    ELSE Put([S EXCEPT !.req[r].completes = @ + 1], <<User(r, "complete")>>)

unwatch(S, r) ==
    IF ~S.req[r].kind.global THEN S
    ELSE LET T == [S EXCEPT !.active = @ - 1]
         IN  IF T.active # 0 THEN T
             ELSE Put([T EXCEPT !.busy = Append(@, FALSE)], <<User(r, "ajaxStop")>>)

----------------------------------------------------------------------------
Init == ajx = [req |-> <<>>, active |-> 0, busy |-> <<>>, stack |-> <<>>, aborts |-> 0, nonce |-> 0,
               window |-> [n \in Names |-> Nobody], oldCallbacks |-> <<>>]

Step ==
    /\ ajx.stack # <<>> /\ Head(ajx.stack).op # "user"
    /\ LET item == Head(ajx.stack)
           S == [ajx EXCEPT !.stack = Tail(@)]
       IN  \/ item.op = "transport" /\ ajx' = getTransport(S, item.r)
           \/ item.op = "send" /\ ajx' \in {send(S, item.r), done(S, item.r, FALSE)}
           \/ item.op = "complete" /\ ajx' = complete(S, item.r)
           \/ item.op = "unwatch" /\ ajx' = unwatch(S, item.r)

\* The program runs when nothing does, and in its callbacks.
Running == \A i \in DOMAIN ajx.stack : i = 1 => ajx.stack[i].op = "user"
Started(r) == \E i \in DOMAIN ajx.stack : ajx.stack[i] = User(r, "ajaxStart")   \* nobody has it yet
Sending(r) == \E i \in DOMAIN ajx.stack : ajx.stack[i] \in {User(r, "ajaxSend"), Item("send", r)}

Ajax == Running /\ Len(ajx.req) < MaxRequests /\ \E kind \in Kinds : ajx' = ajax(ajx, kind)
Abort ==
    /\ Running /\ ajx.aborts < MaxAborts
    /\ \E r \in DOMAIN ajx.req :
          /\ ~Started(r)
          /\ AbortInSend \/ ~Sending(r)
          /\ ajx' = abort([ajx EXCEPT !.aborts = @ + 1], r)
Return == ajx.stack # <<>> /\ Head(ajx.stack).op = "user" /\ ajx' = [ajx EXCEPT !.stack = Tail(@)]
\* beforeSend returns false.
Veto == /\ ajx.stack # <<>> /\ Head(ajx.stack).op = "user" /\ Head(ajx.stack).at = "beforeSend"
        /\ ajx' = abort([ajx EXCEPT !.stack = Tail(@)], Head(ajx.stack).r)

\* What the browser calls, when no script runs.
Idle == ajx.stack = <<>>
Response == Idle /\ \E r \in DOMAIN ajx.req, ok \in BOOLEAN :
                /\ ajx.req[r].waiting /\ ~ajx.req[r].kind.jsonp
                /\ ajx' = done([ajx EXCEPT !.req[r].waiting = FALSE], r, ok)
\* A script of jsonp runs: it calls the page's function of its name, if any.
Script == Idle /\ \E r \in DOMAIN ajx.req :
              /\ ajx.req[r].sent /\ ajx.req[r].kind.jsonp
              /\ ajx.req[r].script \/ LateScripts
              /\ LET owner == ajx.window[ajx.req[r].name]
                     T == [ajx EXCEPT !.req[r].sent = FALSE]
                 IN  ajx' = IF owner = Nobody THEN T ELSE [T EXCEPT !.req[owner].got = r]
\* Its onload: without a call the conversion to json is an error.
Loaded == Idle /\ \E r \in DOMAIN ajx.req :
              /\ ajx.req[r].script /\ ~ajx.req[r].sent
              /\ ajx' = done([ajx EXCEPT !.req[r] = [@ EXCEPT !.script = FALSE, !.waiting = FALSE]],
                             r, ajx.req[r].got # Nobody)
Timeout == Idle /\ \E r \in DOMAIN ajx.req :
               ajx.req[r].timer /\ ajx' = abort([ajx EXCEPT !.req[r].timer = FALSE], r)

Next == Step \/ Ajax \/ Abort \/ Return \/ Veto \/ Response \/ Script \/ Loaded \/ Timeout
Spec == Init /\ [][Next]_ajx
----------------------------------------------------------------------------
Global == {r \in DOMAIN ajx.req : ajx.req[r].kind.global}

(* Each request is answered once: its deferred is settled once and complete *)
(* called once, and then neither its timeout nor its transport is left,    *)
(* whatever abort, timeout and answer race.  The count of active requests  *)
(* is that of the global ones not done; ajaxStart and ajaxStop alternate,  *)
(* and the last of them was ajaxStart exactly while some are active.       *)
AnsweredOnce ==
    /\ \A r \in DOMAIN ajx.req : ajx.req[r].settled <= 1 /\ ajx.req[r].completes <= 1
    /\ \A i \in DOMAIN ajx.busy : ajx.busy[i] = (i % 2 = 1)
    /\ ajx.stack = <<>> =>
          /\ \A r \in DOMAIN ajx.req :
                LET q == ajx.req[r]
                IN  IF q.state = 2
                    THEN q.settled = 1 /\ (q.installed => q.completes = 1) /\ ~q.timer /\ ~q.waiting
                    ELSE q.settled = 0 /\ q.waiting
          /\ ajx.active = Cardinality({r \in Global : ajx.req[r].state # 2})
          /\ (Len(ajx.busy) % 2 = 1) <=> ajx.active > 0

(* A jsonp request gets the answer of its own script, and the page keeps   *)
(* no function of a request that is done: no two requests under way share  *)
(* a name.                                                                 *)
OwnAnswer ==
    /\ \A r \in DOMAIN ajx.req : ajx.req[r].got \in {Nobody, r}
    /\ ajx.stack = <<>> =>
          \A n \in Names : {r \in DOMAIN ajx.req : ajx.req[r].name = n /\ ajx.req[r].state # 2} =
                           {ajx.window[n]} \ {Nobody}
=============================================================================
