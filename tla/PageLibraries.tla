---------------------------- MODULE PageLibraries ----------------------------
(* The libraries under the page's own script, side by side: jQuery's       *)
(* deferreds, events, animations, requests and search, and Bootstrap's     *)
(* modal, collapse, carousel and tooltip.  A behaviour is one of one part, whose  *)
(* state is in page; the parts share nothing but their idioms, so that one *)
(* space holds what nine would.                                            *)
EXTENDS Integers

CONSTANTS Values, MaxDeferreds, MaxCallbacks, MaxOps, MaxRawOps, Options,   \* JqDeferred
          Top, Tags, Types, Selectors, Binding, Fns, MaxEvtOps, MaxDepth,   \* JqEvents
          MaxAnims, MaxFxOps, MaxPromises,                                  \* JqFx
          MaxRequests, MaxAborts,                                           \* JqAjax
          Shapes, NodeNames, Queries, Lists, MaxFinds,                      \* JqSelect
          Panels, MaxTold, Count, MaxPutOff,     \* BsCollapse and BsCarousel
          MaxCalls,                              \* the calls of a widget
          Hasty   \* callers do what the libraries are known not to bear: see the README

VARIABLES part,   \* the library in use
          page    \* its state
vars == <<part, page>>

D == INSTANCE JqDeferred WITH dfr <- page
E == INSTANCE JqEvents WITH evt <- page
F == INSTANCE JqFx WITH fx <- page
A == INSTANCE JqAjax WITH ajx <- page, AbortInSend <- Hasty, LateScripts <- Hasty
S == INSTANCE JqSelect WITH sel <- page
M == INSTANCE BsModal WITH mod <- page, Overlap <- Hasty
C == INSTANCE BsCollapse WITH col <- page, Patient <- ~Hasty
R == INSTANCE BsCarousel WITH car <- page, Between <- Hasty
T == INSTANCE BsTooltip WITH tip <- page, Rash <- Hasty

Init ==
  \/ part = "deferred" /\ D!Init
  \/ part = "events" /\ E!Init
  \/ part = "fx" /\ F!Init
  \/ part = "ajax" /\ A!Init
  \/ part = "select" /\ S!Init
  \/ part = "modal" /\ M!Init
  \/ part = "collapse" /\ C!Init
  \/ part = "carousel" /\ R!Init
  \/ part = "tooltip" /\ T!Init

Use(library, step) == part = library /\ step /\ UNCHANGED part

Next ==
  \/ Use("deferred", D!Next)
  \/ Use("events", E!Next)
  \/ Use("fx", F!Next)
  \/ Use("ajax", A!Next)
  \/ Use("select", S!Next)
  \/ Use("modal", M!Next)
  \/ Use("collapse", C!Next)
  \/ Use("carousel", R!Next)
  \/ Use("tooltip", T!Next)

Spec == Init /\ [][Next]_vars

------------------------------------------------------------------------------
(* Properties: those of the parts, where each is stated and explained.     *)

\* A callback is called once for what its deferred settled with, whenever it was
\* added (jquery self.add and self.fireWith); a chain of then and when settles
\* with what its members settled with; no list is fired inside itself.
DeferredsSettle == part = "deferred" => D!CalledOnce /\ D!ChainsSettle /\ D!FiringWhole

\* Handlers are called from the target outwards, those of delegates before the
\* element's own, each in the order of binding (jquery dispatch and handlers).
HandlersInOrder == part = "events" => E!CalledInOrder /\ E!DelegatesFirst

\* The queue of animations goes on after every end, one step at a time, and a
\* promise for the empty queue is told (jquery dequeue, stop, finish and the
\* unqueued counter of defaultPrefilter; the exceptions are stated in JqFx).
QueueServed == part = "fx" => F!QueueGoesOn /\ F!OneAtATime /\ F!EmptyTold

\* A request is answered once, by its callbacks and to the global events
\* (jquery done of ajax); a jsonp request with the data of its own script (the
\* jsonp prefilter and its always callback).
RequestsAnswered == part = "ajax" => A!AnsweredOnce /\ A!OwnAnswer

\* A search finds what its selector means, whatever earlier searches have left at
\* the elements (addCombinator, CHILD and superMatcher of jquery's Sizzle).
ElementsFound == part = "select" => S!ElementsFound

\* A modal at rest has what its state says: backdrop, display, handlers and the
\* body's class; a panel, a carousel and a tooltip at rest likewise (bootstrap).
WidgetsSettled ==
  /\ part = "modal" => M!ModalSettled
  /\ part = "collapse" => C!AccordionSettled
  /\ part = "carousel" => R!CarouselSettled
  /\ part = "tooltip" => T!TooltipSettled
==============================================================================
