---- MODULE BsCollapse ----
\* The collapsible panels of an accordion (bootstrap.js 519-683): every panel has
\* an instance once it was called, shows and hides itself over a transition, and
\* has the open panel of its parent hidden when it opens.
EXTENDS BsTransition, FiniteSets

CONSTANTS Panels,     \* 1..n: the panels of one parent
          MaxCalls,   \* clicks and calls
          Patient,    \* no panel is called while another one is in transition
          MaxTold     \* events of a panel that are kept

VARIABLE col

\* A panel: its classes, its instance ("none" when there is no data), the flag
\* `transitioning` of that instance, and the events told of it.
Init ==
  \E markup \in Panels \cup {0}, transition \in BOOLEAN :
    col = [transition |-> transition,
           class |-> [p \in Panels |-> IF p = markup THEN {"collapse", "in"} ELSE {"collapse"}],
           transitioning |-> [p \in Panels |-> FALSE],
           data |-> [p \in Panels |-> FALSE],
           told |-> [p \in Panels |-> <<>>],
           t |-> Idle(Panels), calls |-> 0]

Tell(s, p, e) == [s EXCEPT !.told[p] = Append(@, e)]

\* The two functions `complete`.
shown(s, p) ==
  Tell([s EXCEPT !.class[p] = (@ \ {"collapsing"}) \cup {"in"}, !.transitioning[p] = FALSE],
       p, "shown")

hidden(s, p) ==
  Tell([s EXCEPT !.class[p] = (@ \ {"collapsing"}) \cup {"collapse"}, !.transitioning[p] = FALSE],
       p, "hidden")

Run(s, f) == IF f.show THEN shown(s, f.panel) ELSE hidden(s, f.panel)

\* An end event on el: its handlers run in the order they were bound.
transitionEnd(s, el) == FoldLeft(Run, atElement(s, el), s.t.fns[el])

\* one($.support.transition.end, complete).emulateTransitionEnd(350), or complete().
Complete(s, p, isShow) ==
  LET f == [panel |-> p, show |-> isShow]
  IN IF s.transition THEN [s EXCEPT !.t = emulateTransitionEnd(@, p, f)] ELSE Run(s, f)

hide(s, p, prevented) ==
  IF s.transitioning[p] \/ "in" \notin s.class[p] \/ prevented
  THEN s
  ELSE Complete([s EXCEPT !.class[p] = (@ \ {"collapse", "in"}) \cup {"collapsing"},
                          !.transitioning[p] = TRUE], p, FALSE)

\* actives.collapse('hide'): a panel without an instance gets one, whose
\* constructor hides it already; when the first panel had none, the instances are
\* forgotten again, and with them that they are in transition.
hideActives(s, actives) ==
  LET first  == CHOOSE a \in actives : \A b \in actives : a <= b
      s1     == FoldLeft(LAMBDA x, a : hide(x, a, FALSE), s, SetToSeq(actives))
      forget == ~ s.data[first]
  IN [s1 EXCEPT !.data = [p \in Panels |-> IF p \in actives THEN ~ forget ELSE @[p]],
                !.transitioning = [p \in Panels |-> @[p] /\ ~ (forget /\ p \in actives)]]

\* Mutant: the open panel of the parent is not hidden.
showMutant(s, p, prevented) ==
  IF s.transitioning[p] \/ "in" \in s.class[p] \/ prevented
  THEN s
  ELSE Complete([s EXCEPT !.class[p] = (@ \ {"collapse"}) \cup {"collapsing"},
                          !.transitioning[p] = TRUE], p, TRUE)

show(s, p, prevented) ==
  IF s.transitioning[p] \/ "in" \in s.class[p] \/ prevented
  THEN s
  ELSE LET actives == {a \in Panels : "in" \in s.class[a]}
           open(x) == Complete([x EXCEPT !.class[p] = (@ \ {"collapse"}) \cup {"collapsing"},
                                         !.transitioning[p] = TRUE], p, TRUE)
           busy == \E a \in actives :
                     /\ \A b \in actives : a <= b
                     /\ s.data[a] /\ s.transitioning[a]
       IN IF busy THEN s ELSE open(IF actives = {} THEN s ELSE hideActives(s, actives))

toggle(s, p, prevented) ==
  IF "in" \in s.class[p] THEN hide(s, p, prevented) ELSE show(s, p, prevented)

----------------------------------------------------------------------------

Called(s) == [s EXCEPT !.calls = @ + 1]
MayCall(p) ==
  /\ col.calls < MaxCalls /\ Len(col.told[p]) < MaxTold
  /\ Patient => \A q \in Panels : q # p => col.t.fns[q] = <<>>

\* The click on [data-toggle=collapse]: the first one makes the instance, whose
\* constructor toggles; the later ones toggle.
Click(p) ==
  /\ MayCall(p)
  /\ \E prevented \in BOOLEAN :
       col' = Called([toggle(col, p, prevented) EXCEPT !.data[p] = TRUE])

\* The program's calls on a panel that has its instance.
Show(p) ==
  /\ MayCall(p) /\ col.data[p]
  /\ col' = Called(show(col, p, FALSE))

Hide(p) ==
  /\ MayCall(p) /\ col.data[p]
  /\ col' = Called(hide(col, p, FALSE))

TransitionEnd(p) ==
  /\ col.t.fns[p] # <<>>
  /\ col' = transitionEnd(col, p)

Timer ==
  /\ col.t.timers # <<>>
  /\ col' = transitionEnd(timerRun(col, 1), Head(col.t.timers))

Next ==
  \/ Timer
  \/ \E p \in Panels : Click(p) \/ Show(p) \/ Hide(p) \/ TransitionEnd(p)

Spec == Init /\ [][Next]_col

----------------------------------------------------------------------------

\* Once nothing is waited for, no panel is left half open (its class is one of the
\* three a style sheet knows, and its instance takes calls again), the last event
\* told of a panel is the one the user sees, shown and hidden took turns, and of
\* the panels of one parent no more than one is open.
\* And an armed timer always belongs to a transition that is still going on.
AccordionSettled ==
  /\ \A p \in Panels : Len(SelectSeq(col.t.timers, LAMBDA q : q = p)) = Len(col.t.fns[p])
  /\ ~ Waiting(col.t) =>
       /\ \A p \in Panels :
            LET told == col.told[p]
            IN /\ ~ col.transitioning[p]
               /\ col.class[p] \in {{"in"}, {"collapse"}, {"collapse", "in"}}
               /\ told # <<>> => (told[Len(told)] = "shown" <=> "in" \in col.class[p])
               /\ \A i \in 1..(Len(told) - 1) : told[i] # told[i + 1]
       /\ Cardinality({p \in Panels : "in" \in col.class[p]}) <= 1
====
