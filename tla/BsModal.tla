---- MODULE BsModal ----
\* The modal of bootstrap.js (852-1085) with its backdrop, the end of the CSS
\* transitions it waits for, and the handlers it binds while it is open. The
\* chat page has one, #myModal.
EXTENDS BsTransition, FiniteSets

CONSTANTS MaxCalls,   \* calls of show, hide and toggle
          Overlap     \* calls come while an earlier one is still in transition

Backdrops == {<<"backdrop", n>> : n \in 1..4}
None      == <<>>
modal     == <<"modal">>
dialog    == <<"dialog">>
Elements  == Backdrops \cup {modal, dialog}

VARIABLE mod

Init ==
  \E fade, transition \in BOOLEAN :
    mod = [animated |-> fade /\ transition,   \* class "fade", and the browser has transitions
           isShown |-> FALSE, backdrop |-> None,
           attached |-> {},                   \* the backdrops in the page
           display |-> FALSE, in |-> FALSE,   \* element shown, class "in"
           dismiss |-> 0, keyup |-> 0,        \* handlers bound for closing it
           focusin |-> FALSE,                 \* the document keeps the focus inside
           open |-> FALSE,                    \* class "modal-open" of the body
           t |-> Idle(Elements), calls |-> 0]

\* The end event bubbles from the dialog to the modal element.
Path(el) == IF el = dialog THEN <<dialog, modal>> ELSE <<el>>

Wait(s, el, f) == [s EXCEPT !.t = emulateTransitionEnd(@, el, f)]

----------------------------------------------------------------------------

\* Mutant: the handler is only ever added.
escapeMutant(s) == IF s.isShown THEN [s EXCEPT !.keyup = @ + 1] ELSE s

escape(s) == [s EXCEPT !.keyup = IF s.isShown THEN @ + 1 ELSE 0]

\* off and on: one handler, however often it is called.
enforceFocus(s) == [s EXCEPT !.focusin = TRUE]

removeBackdrop(s) ==
  [s EXCEPT !.attached = @ \ {s.backdrop}, !.backdrop = None,
            !.t = IF s.backdrop = None THEN @ ELSE reached(@, s.backdrop)]

\* The callback that show() gives to backdrop(), and the one it leaves on the dialog.
afterBackdrop(s) ==
  LET shown == enforceFocus([s EXCEPT !.display = TRUE, !.in = TRUE])
  IN IF s.animated THEN Wait(shown, dialog, "shown") ELSE shown

afterHide(s) == [removeBackdrop(s) EXCEPT !.open = FALSE]

Callback(s, f) ==
  CASE f = "show" -> afterBackdrop(s)
    [] f = "hide" -> afterHide(s)

\* backdrop(callback): a new element when the modal opens, whatever $backdrop was;
\* the wait for the old one's transition when it closes.
backdrop(s, f) ==
  IF s.isShown
  THEN LET new == CHOOSE b \in Backdrops : b \notin s.attached
           s1  == [s EXCEPT !.backdrop = new, !.attached = @ \cup {new}, !.dismiss = @ + 1]
       IN IF s.animated THEN Wait(s1, new, f) ELSE Callback(s1, f)
  ELSE IF s.backdrop # None /\ s.animated
       THEN Wait(s, s.backdrop, f)
       ELSE Callback(s, f)

hideModal(s) == backdrop([s EXCEPT !.display = FALSE], "hide")

\* The two listeners of the document keep the class of the body: the show event
\* sets it, also when a listener prevents the rest.
show(s, prevented) ==
  LET told == [s EXCEPT !.open = TRUE]
  IN IF s.isShown \/ prevented
     THEN told
     ELSE backdrop([escape([told EXCEPT !.isShown = TRUE]) EXCEPT !.dismiss = @ + 1], "show")

hide(s, prevented) ==
  IF ~ s.isShown \/ prevented
  THEN s
  ELSE LET s1 == [escape([s EXCEPT !.isShown = FALSE])
                    EXCEPT !.focusin = FALSE, !.in = FALSE, !.dismiss = 0]
       IN IF s.animated THEN Wait(s1, modal, "hideModal") ELSE hideModal(s1)

toggle(s, prevented) == IF s.isShown THEN hide(s, prevented) ELSE show(s, prevented)

\* What a completion does when the end event reaches its element.
Run(s, f) ==
  CASE f = "hideModal" -> hideModal(s)
    [] f = "shown"     -> s            \* focus, and the shown event
    [] OTHER           -> Callback(s, f)

\* An end event on el: its handlers run in the order they were bound.
transitionEnd(s, el) == FoldLeft(Run, atElement(s, el), s.t.fns[el])

----------------------------------------------------------------------------

\* Without Overlap the modal opens when all is still, and closes no earlier than
\* it has come into view.
MayShow == /\ Overlap \/ ~ Waiting(mod.t)
           /\ Cardinality(mod.attached) < 2
MayHide == Overlap \/ mod.display

Called(s) == [s EXCEPT !.calls = @ + 1]
MayCall   == mod.calls < MaxCalls

\* $().modal(option) and the click on [data-toggle="modal"]: the data-api looks
\* for an instance under a key nobody writes, and so always shows.
Show ==
  /\ MayCall /\ MayShow
  /\ \E prevented \in BOOLEAN : mod' = Called(show(mod, prevented))

Hide ==
  /\ MayCall /\ MayHide
  /\ \E prevented \in BOOLEAN : mod' = Called(hide(mod, prevented))

Toggle ==
  /\ MayCall
  /\ mod.isShown => MayHide
  /\ ~ mod.isShown => MayShow
  /\ \E prevented \in BOOLEAN : mod' = Called(toggle(mod, prevented))

\* A click on the backdrop or on [data-dismiss="modal"], or the escape key: as many
\* calls of hide() as handlers are bound, of which the first counts.
Dismiss ==
  /\ MayCall /\ MayHide
  /\ mod.dismiss > 0 \/ mod.keyup > 0
  /\ mod' = Called(hide(mod, FALSE))

\* The browser's own end event of a transition somebody waits for.
TransitionEnd ==
  \E el \in Elements :
    /\ mod.t.fns[el] # <<>>
    /\ mod' = FoldLeft(transitionEnd, mod, Path(el))

\* An emulated end: the timers of an element run in the order they were armed.
Timer ==
  \E i \in DOMAIN mod.t.timers :
    /\ \A j \in 1..(i - 1) : mod.t.timers[j] # mod.t.timers[i]
    /\ mod' = FoldLeft(transitionEnd, timerRun(mod, i), Path(mod.t.timers[i]))

Next == Show \/ Hide \/ Toggle \/ Dismiss \/ TransitionEnd \/ Timer

Spec == Init /\ [][Next]_mod

----------------------------------------------------------------------------

\* Once nothing is waited for, what the user sees is what isShown says: a modal
\* that is shown is in view with exactly one backdrop, keeps the focus and can be
\* dismissed; one that is not has left no backdrop, no focus trap and no handler.
ModalSettled ==
  ~ Waiting(mod.t) =>
    /\ mod.display = mod.isShown /\ mod.in = mod.isShown /\ mod.focusin = mod.isShown
    /\ mod.attached = IF mod.isShown THEN {mod.backdrop} ELSE {}
    /\ mod.keyup = IF mod.isShown THEN 1 ELSE 0
    /\ mod.isShown => mod.open /\ mod.dismiss = 2
    /\ ~ mod.isShown => mod.dismiss = 0 /\ mod.backdrop = None
====
