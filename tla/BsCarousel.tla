---- MODULE BsCarousel ----
\* The carousel of bootstrap.js (301-503): slides that follow each other over a
\* transition, the interval that moves them on, the indicators, which wait for
\* the event `slid`, and the calls of to() that come during a slide and are put off
\* until that event.
EXTENDS BsTransition, FiniteSets

CONSTANTS Count,      \* the slides are 1..Count
          MaxCalls,   \* calls, clicks and movements of the mouse
          MaxPutOff,  \* calls of to() put off at a time
          Between     \* calls come between the end of a slide and its event

Items == 1..Count

VARIABLE car

\* interval: "none", "live", or "cleared": the id of an interval that was cleared.
\* lost: intervals that run and that nobody can clear.
Init ==
  \E animated, wrap \in BOOLEAN :
    car = [animated |-> animated, wrap |-> wrap,
           active |-> {1}, indicator |-> {1},
           sliding |-> FALSE, paused |-> FALSE, hover |-> FALSE,
           interval |-> "live", lost |-> 0,
           slid |-> <<>>,                  \* the handlers waiting for the event
           slidDue |-> FALSE,              \* the timeout of 0 that triggers it
           t |-> Idle(Items), calls |-> 0]

\* The index of the first slide with class "active".
getActiveIndex(s) == CHOOSE i \in s.active : \A j \in s.active : i <= j

----------------------------------------------------------------------------

\* Mutant: the running interval is not cleared.
cycleMutant(s, event) ==
  LET p == event /\ s.paused
  IN [s EXCEPT !.paused = p,
               !.interval = IF p THEN @ ELSE "live",
               !.lost = IF s.interval = "live" /\ ~ p THEN @ + 1 ELSE @]

cycle(s, event) ==
  LET p == event /\ s.paused
  IN [s EXCEPT !.paused = p,
               !.interval = IF ~ p THEN "live" ELSE IF @ = "live" THEN "cleared" ELSE @]

\* The end event it triggers on the carousel does not reach the slides, which wait
\* for one of their own: only the cycle it starts, and clears again, is left of it.
pause(s, event) ==
  LET s1 == [s EXCEPT !.paused = @ \/ ~ event]
      s2 == IF Waiting(s1.t) THEN cycle(s1, TRUE) ELSE s1
  IN [s2 EXCEPT !.interval = "none"]

\* The function bound on the outgoing slide.
Run(s, f) ==
  [s EXCEPT !.active = (@ \ {f.from}) \cup {f.to}, !.sliding = FALSE, !.slidDue = TRUE]

\* An end event on el: its handlers run in the order they were bound.
transitionEnd(s, el) == FoldLeft(Run, atElement(s, el), s.t.fns[el])

\* The first handler of `slid`: the indicator of the slide that is active by now.
Indicate(s) == [s EXCEPT !.indicator = @ \cup {getActiveIndex(s)}]

\* Mutant: the indicator of the slide that was left stays on.
slideToMutant(s, to) ==
  LET cycling == s.interval # "none"
      from    == getActiveIndex(s)
      s1      == IF cycling THEN pause([s EXCEPT !.sliding = TRUE], FALSE)
                 ELSE [s EXCEPT !.sliding = TRUE]
      s2      == [s1 EXCEPT !.slid = Append(@, 0)]
      s3      == [s2 EXCEPT !.t = emulateTransitionEnd(@, from, [from |-> from, to |-> to])]
  IN IF cycling THEN cycle(s3, FALSE) ELSE s3

\* slide(), once the next slide is known. The handlers of `slid` are the number of
\* the slide a call of to() wants, or 0 for the indicator.
slideTo(s, to) ==
  LET cycling == s.interval # "none"
      from    == getActiveIndex(s)
      s1      == IF cycling THEN pause([s EXCEPT !.sliding = TRUE], FALSE)
                 ELSE [s EXCEPT !.sliding = TRUE]
      s2      == [s1 EXCEPT !.indicator = {}, !.slid = Append(@, 0)]
      s3      == IF s.animated
                 THEN [s2 EXCEPT !.t = emulateTransitionEnd(@, from, [from |-> from, to |-> to])]
                 ELSE Indicate([s2 EXCEPT !.active = {to}, !.sliding = FALSE, !.slid = <<>>])
  IN IF cycling THEN cycle(s3, FALSE) ELSE s3

\* next() and prev(): step is 1 or -1; at the end the carousel wraps or stays.
move(s, step) ==
  LET i  == getActiveIndex(s) + step
      to == IF i > Count THEN 1 ELSE IF i < 1 THEN Count ELSE i
  IN IF s.sliding \/ (i \notin Items /\ ~ s.wrap) THEN s ELSE slideTo(s, to)

to(s, pos) ==
  CASE s.sliding               -> [s EXCEPT !.slid = Append(@, pos)]
    [] getActiveIndex(s) = pos -> cycle(pause(s, FALSE), FALSE)
    [] OTHER                   -> slideTo(s, pos)

\* The event `slid`: every handler bound by now, once.
slidEvent(s) ==
  FoldLeft(LAMBDA x, h : IF h = 0 THEN Indicate(x) ELSE to(x, h),
           [s EXCEPT !.slid = <<>>, !.slidDue = FALSE], s.slid)

----------------------------------------------------------------------------

MayCall == car.calls < MaxCalls /\ (Between \/ ~ car.slidDue)
Called(s) == [s EXCEPT !.calls = @ + 1]

\* The interval's tick, which comes 5 seconds after the slide that armed it began.
Tick ==
  /\ car.interval = "live" \/ car.lost > 0
  /\ ~ car.sliding /\ ~ car.slidDue
  /\ car' = move(car, 1)

Move(step) ==
  /\ MayCall
  /\ car' = Called(move(car, step))

To(pos) ==
  /\ MayCall
  /\ Cardinality({i \in DOMAIN car.slid : car.slid[i] # 0}) < MaxPutOff
  /\ car' = Called(to(car, pos))

\* The program's pause() and cycle().
Pause ==
  /\ MayCall
  /\ car' = Called(pause(car, FALSE))

Cycle ==
  /\ MayCall
  /\ car' = Called(cycle(car, FALSE))

MouseEnter ==
  /\ MayCall /\ ~ car.hover
  /\ car' = Called(pause([car EXCEPT !.hover = TRUE], TRUE))

MouseLeave ==
  /\ MayCall /\ car.hover
  /\ car' = Called(cycle([car EXCEPT !.hover = FALSE], TRUE))

\* The timeout of 0 runs before another slide can end.
Slid ==
  /\ car.slidDue
  /\ car' = slidEvent(car)

TransitionEnd(i) ==
  /\ car.t.fns[i] # <<>> /\ ~ car.slidDue
  /\ car' = transitionEnd(car, i)

Timer ==
  /\ car.t.timers # <<>> /\ ~ car.slidDue
  /\ car' = transitionEnd(timerRun(car, 1), Head(car.t.timers))

Next ==
  \/ Tick \/ Pause \/ Cycle \/ MouseEnter \/ MouseLeave \/ Slid \/ Timer
  \/ \E step \in {1, -1} : Move(step)
  \/ \E i \in Items : To(i) \/ TransitionEnd(i)

Spec == Init /\ [][Next]_car

----------------------------------------------------------------------------

\* At rest one slide is active, its indicator is the only one that is lit, the
\* carousel slides on when called, and no call of to() was forgotten. At all times
\* a carousel that is neither paused nor under the mouse moves by itself, a paused
\* one does not, and no second interval runs beside the one that can be cleared.
CarouselSettled ==
  /\ ~ Waiting(car.t) /\ ~ car.slidDue =>
       /\ Cardinality(car.active) = 1 /\ car.indicator = car.active
       /\ ~ car.sliding /\ car.slid = <<>>
  /\ car.lost = 0
  /\ ~ car.paused /\ ~ car.hover => car.interval = "live"
  /\ car.paused => car.interval # "live"
====
