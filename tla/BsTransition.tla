---- MODULE BsTransition ----
\* How the widgets of bootstrap.js wait for a CSS transition (bootstrap.js
\* 46-78): a completion bound with one() to the transition end event of an
\* element, and emulateTransitionEnd's timer, which triggers that event itself
\* unless an end event has reached the element before it.
\*
\* A value t keeps what is bound and what is armed:
\*   t.fns[el]   the completions waiting on element el, in the order they were bound
\*   t.timers    the armed timers whose flag `called` is still down, in order
\* A timer whose flag is up does nothing when it runs: it is left out.
EXTENDS Naturals, Sequences, SequencesExt

Idle(Elements) == [fns |-> [el \in Elements |-> <<>>], timers |-> <<>>]

\* $el.one($.support.transition.end, f).emulateTransitionEnd(duration)
emulateTransitionEnd(t, el, f) ==
  [t EXCEPT !.fns[el] = Append(@, f), !.timers = Append(@, el)]

\* Mutant: the flag `called` is never raised.
reachedMutant(t, el) == [t EXCEPT !.fns[el] = <<>>]

\* An end event has reached el: the handlers bound with one() are gone and the
\* flags of el's timers are up.
reached(t, el) ==
  [t EXCEPT !.fns[el] = <<>>, !.timers = SelectSeq(@, LAMBDA x : x # el)]

\* An end event is at el: the widget's state s, whose field t is the value above,
\* before the handlers s.t.fns[el] run.
atElement(s, el) == [s EXCEPT !.t = reached(@, el)]

\* The timer at position i runs: it triggers the event on its element.
timerRun(s, i) == [s EXCEPT !.t.timers = RemoveAt(@, i)]

Waiting(t) == \E el \in DOMAIN t.fns : t.fns[el] # <<>>
====
