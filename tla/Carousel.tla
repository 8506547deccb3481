------------------------------- MODULE Carousel --------------------------------
(* Bootstrap's carousel on one element of the page: its instance (kept in the  *)
(* element's data), the classes of its items and of its indicators, and the    *)
(* events, timers and CSS transitions that act on them.                        *)
(*                                                                             *)
(* Every handler of the browser's event loop is one action.  Triggering "slid" *)
(* is a loop over the handlers that were waiting for it: SlidTimer starts it   *)
(* and RunRequest is one turn of it, during which nothing else may happen.     *)
EXTENDS Naturals, Sequences

CONSTANTS
  N,              \* the number of items
  MaxCalls        \* bound on what the visitor and the page's scripts do

ASSUME NAssumption == N \in Nat \ {0}

VARIABLES
  config,         \* what the page chose for good: animated, wrap, prevents
  live,           \* whether the element has an instance
  loaded,         \* whether the window's load event has been handled
  active,         \* the items with the class "active"
  indicator,      \* the indicator with the class "active"
  targets,        \* the items the instance's slides are bringing in
  orphans,        \* items being brought in by slides of instances disposed of since
  torn,           \* whether an instance was ever disposed of during a slide (history)
  isSliding, isPaused, interval,     \* fields of the instance
  cycles,         \* whether _config.interval is set
  touchTimeout,   \* whether the timer of a touch is running
  slidDue,        \* whether the timer that triggers "slid" is running
  waiting,        \* calls of to() that wait for "slid"
  dispatched,     \* those of them that the running trigger of "slid" has still to call
  calls           \* actions of the visitor and of scripts so far

itemVars  == <<active, indicator, targets, isSliding>>
cycleVars == <<isPaused, interval>>
lifeVars  == <<live, cycles, orphans, torn>>
vars == <<config, loaded, calls, itemVars, cycleVars, lifeVars, touchTimeout, slidDue,
          waiting, dispatched>>

Items     == 0..(N - 1)
Direction == {"next", "prev"}
Request   == [index : 0..N, number : BOOLEAN]   \* data-slide-to is a string, a script's a number
Config    == [animated : BOOLEAN, wrap : BOOLEAN, prevents : BOOLEAN]

TypeOK ==
  /\ config \in Config
  /\ live \in BOOLEAN /\ loaded \in BOOLEAN /\ cycles \in BOOLEAN /\ torn \in BOOLEAN
  /\ active \in (SUBSET Items) \ {{}} /\ indicator \in Items
  /\ targets \in SUBSET Items /\ orphans \in SUBSET Items
  /\ isSliding \in BOOLEAN /\ isPaused \in BOOLEAN /\ interval \in BOOLEAN
  /\ touchTimeout \in BOOLEAN /\ slidDue \in BOOLEAN
  /\ waiting \in Seq(Request) /\ dispatched \in Seq(Request)
  /\ calls \in Nat

Init ==
  /\ config \in Config
  /\ live = FALSE /\ loaded = FALSE /\ cycles = TRUE
  /\ active = {0} /\ indicator = 0
  /\ targets = {} /\ orphans = {} /\ torn = FALSE
  /\ isSliding = FALSE /\ isPaused = FALSE /\ interval = FALSE
  /\ touchTimeout = FALSE /\ slidDue = FALSE
  /\ waiting = <<>> /\ dispatched = <<>>
  /\ calls = 0

--------------------------------------------------------------------------------
\* The first active item in document order.
ActiveItem == CHOOSE i \in active : \A j \in active : i <= j

\* The item next() and prev() go to; at an end without wrap it is the active one.
ItemByDirection(direction) ==
  LET isGoingToWrap == \/ direction = "prev" /\ ActiveItem = 0
                       \/ direction = "next" /\ ActiveItem = N - 1
      delta == IF direction = "next" THEN 1 ELSE N - 1
  IN  IF isGoingToWrap /\ ~config.wrap THEN ActiveItem ELSE (ActiveItem + delta) % N

\* _slide() to item e, the classes.  It returns early when e is active already, and when a
\* listener of the page prevents it.
Stays(e) == \/ e \in active /\ isSliding' = FALSE /\ UNCHANGED <<active, indicator, targets>>
            \/ e \notin active /\ config.prevents /\ UNCHANGED itemVars

\* Without the class "slide" there is no transition to wait for; "slid" is triggered at once,
\* when nobody can be waiting for it.
Moves(e) ==
  /\ e \notin active
  /\ indicator' = e
  /\ isSliding' = config.animated
  /\ IF config.animated THEN targets' = targets \cup {e} /\ UNCHANGED active
     ELSE active' = (active \ {ActiveItem}) \cup {e} /\ UNCHANGED targets

\* pause() and cycle() around a slide of a carousel that is cycling.
PausedOnly == IF interval THEN isPaused' = TRUE /\ interval' = FALSE ELSE UNCHANGED cycleVars

Recycle == IF interval THEN isPaused' = FALSE /\ interval' = cycles ELSE UNCHANGED cycleVars

Slide(e) == \/ Moves(e) /\ Recycle
            \/ Stays(e) /\ UNCHANGED cycleVars

\* next() and prev().
StepItems(direction) ==
  IF isSliding THEN UNCHANGED itemVars
  ELSE Moves(ItemByDirection(direction)) \/ Stays(ItemByDirection(direction))

StepUnguarded(direction) == Slide(ItemByDirection(direction))

Step(direction) ==
  IF isSliding THEN UNCHANGED <<itemVars, cycleVars>> ELSE Slide(ItemByDirection(direction))

\* pause() and cycle().  The transition end that pause() triggers is the carousel's own, not
\* an item's: it ends no slide, and the cycle(true) after it is undone at once.
Pause(event) == isPaused' = (isPaused \/ ~event) /\ interval' = FALSE
Cycle(event) == isPaused' = (isPaused /\ event) /\ interval' = (cycles' /\ ~isPaused')

\* to(): queue is what waits for "slid" before the call.
To(r, queue) ==
  IF r.index \notin Items THEN waiting' = queue /\ UNCHANGED <<itemVars, cycleVars>>
  ELSE IF isSliding THEN waiting' = Append(queue, r) /\ UNCHANGED <<itemVars, cycleVars>>
  ELSE /\ waiting' = queue
       /\ IF r.number /\ r.index = ActiveItem THEN Cycle(FALSE) /\ UNCHANGED itemVars
          ELSE Slide(r.index)

\* The instance a call works on, created when there is none: only then does the interval the
\* call comes with count.
Instance(interval_) == /\ live' = TRUE
                       /\ cycles' = (IF live THEN cycles ELSE interval_)
                       /\ UNCHANGED <<orphans, torn>>

--------------------------------------------------------------------------------
Idle   == dispatched = <<>>
Called == /\ Idle /\ calls < MaxCalls
          /\ calls' = calls + 1 /\ UNCHANGED <<config, dispatched>>

\* The window's load event creates the carousel of data-ride and has it cycle.
Load ==
  /\ Idle /\ ~loaded
  /\ loaded' = TRUE
  /\ Instance(TRUE)
  /\ Cycle(FALSE)
  /\ UNCHANGED <<config, calls, itemVars, touchTimeout, slidDue, waiting, dispatched>>

\* A click on a control, or a script's carousel("next") and carousel("prev").
Control(direction) ==
  /\ Called /\ Instance(TRUE)
  /\ Step(direction)
  /\ UNCHANGED <<loaded, waiting, touchTimeout, slidDue>>

\* A click on an indicator: an instance created by it has no interval.
Indicator(i) ==
  /\ Called /\ Instance(FALSE)
  /\ To([index |-> i, number |-> FALSE], waiting)
  /\ UNCHANGED <<loaded, touchTimeout, slidDue>>

\* A script's carousel(number), carousel("pause"), carousel("cycle").
ScriptTo(i) ==
  /\ Called /\ Instance(TRUE)
  /\ To([index |-> i, number |-> TRUE], waiting)
  /\ UNCHANGED <<loaded, touchTimeout, slidDue>>

ScriptPause ==
  /\ Called /\ Instance(TRUE)
  /\ Pause(FALSE)
  /\ UNCHANGED <<loaded, itemVars, touchTimeout, slidDue, waiting>>

ScriptCycle ==
  /\ Called /\ Instance(TRUE)
  /\ Cycle(FALSE)
  /\ UNCHANGED <<loaded, itemVars, touchTimeout, slidDue, waiting>>

\* A script's carousel("dispose"): the handlers of "slid" go, those of the transition stay and
\* its timers no longer find the element.
Dispose ==
  /\ Called /\ live
  /\ live' = FALSE /\ cycles' = TRUE
  /\ isSliding' = FALSE /\ isPaused' = FALSE /\ interval' = FALSE
  /\ touchTimeout' = FALSE /\ slidDue' = FALSE /\ waiting' = <<>>
  /\ targets' = {} /\ orphans' = orphans \cup targets
  /\ torn' = (torn \/ targets # {})
  /\ UNCHANGED <<loaded, active, indicator>>

\* The instance's own listeners: the arrow keys, the mouse coming and leaving.
Keydown(direction) ==
  /\ Called /\ live
  /\ Step(direction)
  /\ UNCHANGED <<loaded, lifeVars, touchTimeout, slidDue, waiting>>

MouseEnter ==
  /\ Called /\ live
  /\ Pause(TRUE)
  /\ UNCHANGED <<loaded, itemVars, lifeVars, touchTimeout, slidDue, waiting>>

MouseLeave ==
  /\ Called /\ live
  /\ UNCHANGED <<loaded, itemVars, lifeVars, touchTimeout, slidDue, waiting>>
  /\ Cycle(TRUE)

\* The end of a touch: past the threshold a step, then pause(), and the timer starts again.
TouchEnd(swipe) ==
  /\ Called /\ live
  /\ IF swipe = "none" THEN UNCHANGED itemVars ELSE StepItems(swipe)
  /\ Pause(FALSE)
  /\ touchTimeout' = TRUE
  /\ UNCHANGED <<loaded, lifeVars, slidDue, waiting>>

TouchTimer ==
  /\ Idle /\ touchTimeout
  /\ touchTimeout' = FALSE
  /\ UNCHANGED <<config, loaded, calls, itemVars, lifeVars, slidDue, waiting, dispatched>>
  /\ Cycle(FALSE)

\* The interval.  It has been started at or after the latest slide and is longer than a
\* transition, so that a "slid" that is due comes first.  On a hidden page it does nothing.
Tick ==
  /\ Idle /\ live /\ interval /\ ~slidDue
  /\ Step("next")
  /\ UNCHANGED <<config, loaded, calls, lifeVars, touchTimeout, slidDue, waiting, dispatched>>

\* The end of the active item's transition, or the emulator's timer: every slide that is
\* under way started from that item.  A "slid" that was due before this slide began has been
\* triggered by then.
SlidingStays == isSliding
SlidingAfter == isSliding /\ targets = {}
SlidForgotten == slidDue
SlidDueAfter == slidDue \/ targets # {}

TransitionEnd ==
  /\ Idle
  /\ targets \cup orphans # {}
  /\ targets # {} => ~slidDue
  /\ active' = (active \ {ActiveItem}) \cup targets \cup orphans
  /\ targets' = {} /\ orphans' = {}
  /\ isSliding' = SlidingAfter
  /\ slidDue' = SlidDueAfter
  /\ UNCHANGED <<config, loaded, calls, live, cycles, torn, cycleVars, indicator, touchTimeout,
                 waiting, dispatched>>

\* "slid" is triggered: the handlers that wait for it are called in their order, and those
\* they add are not among them.
SlidTimer ==
  /\ Idle /\ slidDue
  /\ slidDue' = FALSE
  /\ dispatched' = waiting /\ waiting' = <<>>
  /\ UNCHANGED <<config, loaded, calls, itemVars, cycleVars, lifeVars, touchTimeout>>

RunRequest ==
  /\ ~Idle
  /\ UNCHANGED <<config, loaded, calls, lifeVars, touchTimeout, slidDue>>
  /\ To(Head(dispatched), waiting)
  /\ dispatched' = Tail(dispatched)

Visitor == \/ \E d \in Direction : Control(d) \/ Keydown(d)
           \/ \E i \in Items : Indicator(i)
           \/ \E s \in Direction \cup {"none"} : TouchEnd(s)
           \/ MouseEnter \/ MouseLeave
Scripts == (\E i \in 0..N : ScriptTo(i)) \/ ScriptPause \/ ScriptCycle \/ Dispose
Browser == Load \/ Tick \/ TouchTimer \/ TransitionEnd \/ SlidTimer \/ RunRequest

Next == Visitor \/ Scripts \/ Browser
Spec == Init /\ [][Next]_vars

\* A transition ends or its emulator's timer does, timers fire, and a handler that has begun
\* goes on.  The visitor, the scripts and a page that may be hidden owe nothing.
Fairness == /\ WF_vars(TransitionEnd) /\ WF_vars(SlidTimer)
            /\ WF_vars(RunRequest) /\ WF_vars(TouchTimer)
FairSpec == Spec /\ Fairness
================================================================================
