---- MODULE BsTooltip ----
\* The tooltip of bootstrap.js (1099-1461): the mouse, the focus or a click asks for
\* it (enter) and lets it go (leave), after a delay if there is one; showing inserts
\* the tip into the page, and hiding takes it out at the end of a transition,
\* unless it is wanted again by then.
EXTENDS BsTransition

CONSTANTS MaxCalls,    \* events of the user and calls of the program
          Rash         \* it is destroyed while it is shown or about to be

VARIABLE tip

Tip == {1}

Init ==
  \E animation, transition, delayShow, delayHide, enabled \in BOOLEAN :
    tip = [animation |-> animation, transition |-> transition,
           delayShow |-> delayShow, delayHide |-> delayHide,
           enabled |-> enabled, bound |-> TRUE,
           hoverState |-> "none", timeout |-> "none",
           attached |-> FALSE, in |-> FALSE, fade |-> FALSE,
           refused |-> FALSE,               \* the last show() found it disabled
           t |-> Idle(Tip), calls |-> 0]

----------------------------------------------------------------------------

\* setContent() takes the classes away; the tip is detached, inserted and placed.
show(s) ==
  IF s.enabled
  THEN [s EXCEPT !.fade = s.animation, !.attached = TRUE, !.in = TRUE, !.refused = FALSE]
  ELSE [s EXCEPT !.refused = TRUE]

\* Mutant: the tip goes, wanted again or not.
completeMutant(s) == [s EXCEPT !.attached = FALSE]

complete(s) == IF s.hoverState # "in" THEN [s EXCEPT !.attached = FALSE] ELSE s

Run(s, f) == complete(s)

\* An end event on the tip: its handlers run in the order they were bound.
transitionEnd(s) == FoldLeft(Run, atElement(s, 1), s.t.fns[1])

hide(s) ==
  LET s1 == [s EXCEPT !.in = FALSE]
  IN IF s1.transition /\ s1.fade
     THEN [s1 EXCEPT !.t = emulateTransitionEnd(@, 1, "complete")]
     ELSE complete(s1)

\* Both clear the timeout of the other first.
enter(s) ==
  LET s1 == [s EXCEPT !.timeout = "none", !.hoverState = "in"]
  IN IF s1.delayShow THEN [s1 EXCEPT !.timeout = "show"] ELSE show(s1)

leave(s) ==
  LET s1 == [s EXCEPT !.timeout = "none", !.hoverState = "out"]
  IN IF s1.delayHide THEN [s1 EXCEPT !.timeout = "hide"] ELSE hide(s1)

toggle(s) == IF s.in THEN leave(s) ELSE enter(s)

----------------------------------------------------------------------------

Called(s) == [s EXCEPT !.calls = @ + 1]
MayCall   == tip.bound /\ tip.calls < MaxCalls

Enter == MayCall /\ tip' = Called(enter(tip))
Leave == MayCall /\ tip' = Called(leave(tip))
Toggle == MayCall /\ tip' = Called(toggle(tip))
Enable == MayCall /\ ~ tip.enabled /\ tip' = Called([tip EXCEPT !.enabled = TRUE])
Disable == MayCall /\ tip.enabled /\ tip' = Called([tip EXCEPT !.enabled = FALSE])

\* destroy() hides and unbinds; what is wanted or delayed is not undone, so that a
\* tip destroyed while it is shown stays in the page: only with Rash.
Destroy ==
  /\ MayCall
  /\ Rash \/ (tip.hoverState # "in" /\ tip.timeout = "none")
  /\ tip' = Called([hide(tip) EXCEPT !.bound = FALSE])

\* The function of the timeout asks once more what is wanted.
Timeout ==
  /\ tip.timeout # "none"
  /\ tip' = LET s == [tip EXCEPT !.timeout = "none"]
            IN CASE tip.timeout = "show" /\ s.hoverState = "in"  -> show(s)
                 [] tip.timeout = "hide" /\ s.hoverState = "out" -> hide(s)
                 [] OTHER -> s

TransitionEnd ==
  /\ tip.t.fns[1] # <<>>
  /\ tip' = transitionEnd(tip)

Timer ==
  /\ tip.t.timers # <<>>
  /\ tip' = transitionEnd(timerRun(tip, 1))

Next ==
  \/ Enter \/ Leave \/ Toggle \/ Enable \/ Disable \/ Destroy
  \/ Timeout \/ TransitionEnd \/ Timer

Spec == Init /\ [][Next]_tip

----------------------------------------------------------------------------

\* However enter, leave, the delays and the ends of transitions fall, at rest the tip
\* is in the page exactly when it is wanted: one that is not wanted is out of the
\* page, and one that is wanted is in the page and in view, unless it was disabled
\* when it was asked for.
TooltipSettled ==
  ~ Waiting(tip.t) /\ tip.timeout = "none" =>
    /\ tip.attached => tip.hoverState = "in"
    /\ tip.hoverState = "in" => (tip.attached /\ tip.in) \/ tip.refused
====
