---------------------------- MODULE CarouselProofs -----------------------------
(* Safety of the carousel, for any number of items and of calls.               *)
EXTENDS CarouselProps, FiniteSetTheorems, SequenceTheorems, WellFoundedInduction, TLAPS

\* The items: the flag matches the slide, which has one target; the indicator names the target
\* or, when nothing slides, the one active item.
Single == /\ orphans = {}
          /\ \E a \in Items : active = {a} /\ (IF targets = {} THEN indicator = a
                                               ELSE targets = {indicator})
ItemsInv ==
  /\ active \in (SUBSET Items) \ {{}} /\ indicator \in Items
  /\ targets \in SUBSET Items /\ orphans \in SUBSET Items
  /\ isSliding \in BOOLEAN /\ torn \in BOOLEAN
  /\ FlagMatchesSlide
  /\ ~torn => Single

\* The interval and the queue belong to a living instance; only one that cycles has an interval.
CycleInv ==
  /\ live \in BOOLEAN /\ cycles \in BOOLEAN /\ isPaused \in BOOLEAN /\ interval \in BOOLEAN
  /\ interval => live /\ cycles
QueueInv ==
  /\ waiting \in Seq(Request) /\ dispatched \in Seq(Request) /\ touchTimeout \in BOOLEAN
  /\ touchTimeout \/ waiting # <<>> \/ dispatched # <<>> => live
OtherInv ==
  /\ config \in Config /\ loaded \in BOOLEAN /\ slidDue \in BOOLEAN /\ calls \in Nat

Inv == ItemsInv /\ CycleInv /\ QueueInv /\ OtherInv

--------------------------------------------------------------------------------
LEMMA Least ==
  ASSUME NEW S \in SUBSET Nat, S # {}
  PROVE  \E x \in S : \A y \in S : x <= y
<1>1. PICK x \in S : \A y \in S : <<y, x>> \notin OpToRel(<, Nat)
  BY NatLessThanWellFounded, WFMin
<1>2. \A y \in S : ~(y < x)
  BY <1>1 DEF OpToRel
<1> QED BY <1>2

LEMMA ActiveIsItem == ItemsInv => ActiveItem \in active /\ ActiveItem \in Items
<1> SUFFICES ASSUME ItemsInv PROVE ActiveItem \in active /\ ActiveItem \in Items
  OBVIOUS
<1>1. active \in SUBSET Nat /\ active # {} /\ active \subseteq Items
  BY NAssumption DEF ItemsInv, Items
<1>2. \E i \in active : \A j \in active : i <= j
  BY <1>1, Least
<1> QED BY <1>1, <1>2 DEF ActiveItem

LEMMA NextIsItem ==
  ASSUME ItemsInv, NEW d \in Direction
  PROVE  ItemByDirection(d) \in Items
<1>1. ActiveItem \in 0..(N - 1)
  BY ActiveIsItem DEF Items
<1>2. PICK delta \in Nat : delta = IF d = "next" THEN 1 ELSE N - 1
  BY NAssumption
<1>3. ActiveItem + delta \in Nat /\ N \in Nat /\ N > 0
  BY <1>1, <1>2, NAssumption
<1>4. (ActiveItem + delta) % N \in 0..(N - 1)
  BY <1>3
<1> QED BY <1>1, <1>2, <1>4 DEF ItemByDirection, Items

--------------------------------------------------------------------------------
LEMMA ItemsUntouched ==
  ASSUME ItemsInv, UNCHANGED <<itemVars, orphans, torn>>
  PROVE  ItemsInv'
BY DEF ItemsInv, itemVars, FlagMatchesSlide, Single

\* A slide from where nothing slides: its target is all that comes in.
LEMMA SlideItems ==
  ASSUME ItemsInv, ~isSliding, NEW e \in Items, Moves(e) \/ Stays(e), config \in Config,
         UNCHANGED <<orphans, torn>>
  PROVE  ItemsInv'
<1>1. targets = {} /\ ActiveItem \in active
  BY ActiveIsItem DEF ItemsInv, FlagMatchesSlide
<1>2. CASE Stays(e)
  <2>1. UNCHANGED itemVars
    BY <1>2 DEF Stays, itemVars, ItemsInv
  <2> QED BY <2>1, ItemsUntouched
<1>3. CASE Moves(e) /\ config.animated
  BY <1>1, <1>3 DEF Moves, ItemsInv, FlagMatchesSlide, Single
<1>4. CASE Moves(e) /\ ~config.animated
  <2>1. /\ active' = (active \ {ActiveItem}) \cup {e} /\ indicator' = e
        /\ targets' = {} /\ isSliding' = FALSE
    BY <1>1, <1>4 DEF Moves, Config
  <2>2. ~torn => Single'
    BY <1>1, <2>1 DEF ItemsInv, Single
  <2> QED BY <2>1, <2>2 DEF ItemsInv, FlagMatchesSlide
<1> QED BY <1>2, <1>3, <1>4

LEMMA StepItemsKeep ==
  ASSUME ItemsInv, NEW d \in Direction, StepItems(d), config \in Config,
         UNCHANGED <<orphans, torn>>
  PROVE  ItemsInv'
<1>1. CASE isSliding
  BY <1>1, ItemsUntouched DEF StepItems
<1>2. CASE ~isSliding
  BY <1>2, NextIsItem, SlideItems DEF StepItems
<1> QED BY <1>1, <1>2

LEMMA StepKeeps ==
  ASSUME NEW d \in Direction, Step(d)
  PROVE  StepItems(d) /\ (Recycle \/ UNCHANGED cycleVars)
BY DEF Step, StepItems, Slide

\* What pause() and cycle() around a slide leave of the interval.
LEMMA RecycleCycles ==
  ASSUME CycleInv, Recycle \/ UNCHANGED cycleVars
  PROVE  /\ isPaused' \in BOOLEAN /\ interval' \in BOOLEAN
         /\ interval' = interval
BY DEF CycleInv, Recycle, cycleVars

\* A call of to() that does not wait slides from where nothing slides, or cycles.
LEMMA ToKeeps ==
  ASSUME NEW r \in Request, NEW queue \in Seq(Request), To(r, queue), Inv,
         UNCHANGED <<orphans, torn>>
  PROVE  /\ ItemsInv'
         /\ waiting' \in Seq(Request)
         /\ \/ Cycle(FALSE) /\ UNCHANGED indicator
            \/ Recycle
            \/ UNCHANGED <<indicator, cycleVars>>
<1>1. CASE r.index \notin Items \/ isSliding
  <2>. Append(queue, r) \in Seq(Request)
    BY AppendProperties
  <2>1. UNCHANGED <<itemVars, cycleVars>> /\ waiting' \in Seq(Request)
    BY <1>1 DEF To, itemVars, cycleVars
  <2> QED BY <2>1, ItemsUntouched DEF Inv, itemVars
<1>2. CASE ~isSliding /\ r.index \in Items /\ ~(r.number /\ r.index = ActiveItem)
  <2>1. Slide(r.index) /\ waiting' = queue
    BY <1>2 DEF To
  <2>2. ItemsInv'
    BY <1>2, <2>1, SlideItems DEF Slide, Inv, OtherInv
  <2> QED BY <2>1, <2>2 DEF Slide, Stays, itemVars, cycleVars
<1>3. CASE ~isSliding /\ r.index \in Items /\ r.number /\ r.index = ActiveItem
  <2>1. UNCHANGED itemVars /\ Cycle(FALSE) /\ waiting' = queue
    BY <1>3 DEF To
  <2> QED BY <2>1, ItemsUntouched DEF Inv, itemVars
<1> QED BY <1>1, <1>2, <1>3

--------------------------------------------------------------------------------
LEMMA InitInv == Init => Inv
<1> SUFFICES ASSUME Init PROVE Inv
  OBVIOUS
<1>1. 0 \in Items
  BY NAssumption DEF Items
<1>2. ItemsInv
  BY <1>1 DEF Init, ItemsInv, FlagMatchesSlide, Single
<1>3. CycleInv /\ OtherInv
  BY DEF Init, CycleInv, OtherInv
<1>4. QueueInv
  <2>1. <<>> \in Seq(Request)
    BY EmptySeq
  <2>2. waiting = <<>> /\ dispatched = <<>> /\ touchTimeout = FALSE
    BY DEF Init
  <2> QED BY <2>1, <2>2 DEF QueueInv
<1> QED BY <1>2, <1>3, <1>4 DEF Inv

\* What an action that only steps does to the invariant.
LEMMA StepInv ==
  ASSUME Inv, NEW d \in Direction, Step(d), UNCHANGED <<config, loaded, dispatched, orphans, torn, waiting>>,
         UNCHANGED <<touchTimeout, slidDue>>, calls' \in Nat,
         live' \in BOOLEAN, cycles' \in BOOLEAN, live => live' /\ cycles' = cycles
  PROVE  Inv'
<1>1. StepItems(d) /\ (Recycle \/ UNCHANGED cycleVars)
  BY StepKeeps
<1>2. ItemsInv'
  BY <1>1, StepItemsKeep DEF Inv, OtherInv
<1>3. CycleInv'
  BY <1>1, RecycleCycles DEF Inv, CycleInv
<1>4. QueueInv'
  BY DEF Inv, QueueInv
<1>5. OtherInv'
  BY DEF Inv, OtherInv
<1> QED BY <1>2, <1>3, <1>4, <1>5 DEF Inv

\* An action that only calls to() on a living instance.
LEMMA ToInv ==
  ASSUME Inv, NEW r \in Request, NEW queue \in Seq(Request), To(r, queue), live',
         UNCHANGED <<config, loaded, orphans, torn, touchTimeout, slidDue>>,
         dispatched' \in Seq(Request), calls' \in Nat,
         cycles' \in BOOLEAN, live => cycles' = cycles
  PROVE  Inv'
<1>1. /\ ItemsInv'
      /\ waiting' \in Seq(Request)
      /\ Cycle(FALSE) \/ Recycle \/ UNCHANGED cycleVars
  BY ToKeeps DEF cycleVars
<1>2. CycleInv'
  <2>1. CASE Cycle(FALSE)
    BY <2>1 DEF Cycle, Inv, CycleInv
  <2>2. CASE Recycle \/ UNCHANGED cycleVars
    BY <2>2, RecycleCycles DEF Inv, CycleInv
  <2> QED BY <1>1, <2>1, <2>2
<1>3. QueueInv' /\ OtherInv'
  BY <1>1 DEF Inv, QueueInv, OtherInv
<1> QED BY <1>1, <1>2, <1>3 DEF Inv

\* An action that leaves the items and the queue alone.
LEMMA OtherInvKept ==
  ASSUME Inv, UNCHANGED <<itemVars, orphans, torn, config, waiting, dispatched>>,
         CycleInv', touchTimeout' \in BOOLEAN, live => live', touchTimeout' => live',
         loaded' \in BOOLEAN, slidDue' \in BOOLEAN, calls' \in Nat
  PROVE  Inv'
<1>1. ItemsInv'
  BY ItemsUntouched DEF Inv, itemVars
<1> QED BY <1>1 DEF Inv, QueueInv, OtherInv

LEMMA CalledCounts == Inv /\ Called => calls' \in Nat
BY DEF Inv, OtherInv, Called

LEMMA InstanceKeeps ==
  ASSUME Inv, NEW b \in BOOLEAN, Instance(b)
  PROVE  /\ live' = TRUE /\ cycles' \in BOOLEAN /\ (live => cycles' = cycles)
         /\ UNCHANGED <<orphans, torn>>
BY DEF Inv, CycleInv, Instance

\* One step per action.
LEMMA NextInv == Inv /\ [Next]_vars => Inv'
<1> SUFFICES ASSUME Inv, [Next]_vars PROVE Inv'
  OBVIOUS
<1> USE CalledCounts
<1>1. ASSUME NEW d \in Direction, Control(d) PROVE Inv'
  <2>1. /\ Step(d) /\ live' = TRUE /\ cycles' \in BOOLEAN /\ (live => cycles' = cycles)
        /\ UNCHANGED <<config, loaded, dispatched, orphans, torn, waiting, touchTimeout, slidDue>>
        /\ calls' \in Nat
    BY <1>1, InstanceKeeps DEF Control, Called
  <2> QED BY <2>1, StepInv
<1>2. ASSUME NEW d \in Direction, Keydown(d) PROVE Inv'
  <2>1. /\ Step(d) /\ calls' \in Nat
        /\ UNCHANGED <<config, loaded, dispatched, lifeVars, waiting, touchTimeout, slidDue>>
    BY <1>2 DEF Keydown, Called
  <2> QED BY <2>1, StepInv DEF lifeVars, Inv, CycleInv
<1>3. ASSUME NEW i \in Items, Indicator(i) PROVE Inv'
  <2>1. [index |-> i, number |-> FALSE] \in Request
    BY NAssumption DEF Items, Request
  <2>2. /\ To([index |-> i, number |-> FALSE], waiting) /\ live' = TRUE
        /\ UNCHANGED <<config, loaded, dispatched, orphans, torn, touchTimeout, slidDue>>
        /\ calls' \in Nat /\ cycles' \in BOOLEAN /\ (live => cycles' = cycles)
    BY <1>3, InstanceKeeps DEF Indicator, Called
  <2> QED BY <2>1, <2>2, ToInv DEF Inv, QueueInv
<1>4. ASSUME NEW s \in Direction \cup {"none"}, TouchEnd(s) PROVE Inv'
  <2>1. ItemsInv'
    <3>1. UNCHANGED <<orphans, torn>>
      BY <1>4 DEF TouchEnd, lifeVars
    <3>2. CASE s = "none"
      BY <1>4, <3>1, <3>2, ItemsUntouched DEF TouchEnd, itemVars, Inv
    <3>3. CASE s \in Direction
      BY <1>4, <3>1, <3>3, StepItemsKeep DEF TouchEnd, Direction, Inv, OtherInv
    <3> QED BY <3>2, <3>3
  <2>2. CycleInv'
    BY <1>4 DEF TouchEnd, Pause, lifeVars, Inv, CycleInv
  <2>3. QueueInv' /\ OtherInv'
    BY <1>4 DEF TouchEnd, Called, Idle, lifeVars, Inv, QueueInv, OtherInv
  <2> QED BY <2>1, <2>2, <2>3 DEF Inv
<1>5. CASE MouseEnter \/ MouseLeave
  <2>1. CycleInv'
    BY <1>5 DEF MouseEnter, MouseLeave, Pause, Cycle, lifeVars, Inv, CycleInv
  <2>2. /\ UNCHANGED <<itemVars, lifeVars, config, loaded, waiting, dispatched, touchTimeout, slidDue>>
        /\ live /\ calls' \in Nat
    BY <1>5 DEF MouseEnter, MouseLeave, Called
  <2> QED BY <2>1, <2>2, OtherInvKept DEF lifeVars, Inv, QueueInv, OtherInv
<1>6. ASSUME NEW i \in 0..N, ScriptTo(i) PROVE Inv'
  <2>1. [index |-> i, number |-> TRUE] \in Request
    BY DEF Request
  <2>2. /\ To([index |-> i, number |-> TRUE], waiting) /\ live' = TRUE
        /\ UNCHANGED <<config, loaded, dispatched, orphans, torn, touchTimeout, slidDue>>
        /\ calls' \in Nat /\ cycles' \in BOOLEAN /\ (live => cycles' = cycles)
    BY <1>6, InstanceKeeps DEF ScriptTo, Called
  <2> QED BY <2>1, <2>2, ToInv DEF Inv, QueueInv
<1>7. CASE ScriptPause \/ ScriptCycle
  <2>1. CycleInv'
    BY <1>7 DEF ScriptPause, ScriptCycle, Pause, Cycle, Instance, Inv, CycleInv
  <2>2. /\ UNCHANGED <<itemVars, orphans, torn, config, loaded, waiting, dispatched, touchTimeout, slidDue>>
        /\ live' = TRUE /\ calls' \in Nat
    BY <1>7, InstanceKeeps DEF ScriptPause, ScriptCycle, Called
  <2> QED BY <2>1, <2>2, OtherInvKept DEF Inv, QueueInv, OtherInv
<1>8. CASE Dispose
  <2>1. ItemsInv'
    BY <1>8 DEF Dispose, Inv, ItemsInv, FlagMatchesSlide, Single
  <2>2. <<>> \in Seq(Request)
    BY EmptySeq
  <2>3. QueueInv' /\ CycleInv'
    BY <1>8, <2>2 DEF Dispose, Called, Idle, Inv, QueueInv, CycleInv
  <2>4. OtherInv'
    BY <1>8 DEF Dispose, Called, Inv, OtherInv
  <2> QED BY <2>1, <2>3, <2>4 DEF Inv
<1>9. CASE Load
  <2>1. CycleInv'
    BY <1>9 DEF Load, Cycle, Instance, Inv, CycleInv
  <2>2. /\ UNCHANGED <<itemVars, orphans, torn, config, waiting, dispatched, touchTimeout, slidDue, calls>>
        /\ live' = TRUE /\ loaded' \in BOOLEAN
    BY <1>9 DEF Load, Instance
  <2> QED BY <2>1, <2>2, OtherInvKept DEF Inv, QueueInv, OtherInv
<1>10. CASE Tick
  <2>1. /\ Step("next") /\ calls' \in Nat
        /\ UNCHANGED <<config, loaded, dispatched, lifeVars, waiting, touchTimeout, slidDue>>
    BY <1>10 DEF Tick, Inv, OtherInv
  <2> QED BY <2>1, StepInv DEF lifeVars, Inv, CycleInv, Direction
<1>11. CASE TouchTimer
  <2>1. /\ UNCHANGED <<itemVars, lifeVars, config, loaded, waiting, dispatched, slidDue, calls>>
        /\ live /\ touchTimeout' = FALSE
    BY <1>11 DEF TouchTimer, Inv, QueueInv
  <2>2. CycleInv'
    BY <1>11, <2>1 DEF TouchTimer, Cycle, lifeVars, Inv, CycleInv
  <2> QED BY <2>1, <2>2, OtherInvKept DEF lifeVars, Inv, QueueInv, OtherInv
<1>12. CASE TransitionEnd
  <2>1. ItemsInv'
    BY <1>12, ActiveIsItem DEF TransitionEnd, SlidingAfter, Inv, ItemsInv, FlagMatchesSlide, Single
  <2>2. CycleInv' /\ QueueInv' /\ OtherInv'
    BY <1>12 DEF TransitionEnd, SlidDueAfter, cycleVars, Inv, CycleInv, QueueInv, OtherInv
  <2> QED BY <2>1, <2>2 DEF Inv
<1>13. CASE SlidTimer
  <2>1. ItemsInv'
    BY <1>13, ItemsUntouched DEF SlidTimer, lifeVars, itemVars, Inv
  <2>2. <<>> \in Seq(Request)
    BY EmptySeq
  <2>3. CycleInv' /\ QueueInv' /\ OtherInv'
    BY <1>13, <2>2 DEF SlidTimer, lifeVars, cycleVars, Inv, CycleInv, QueueInv, OtherInv
  <2> QED BY <2>1, <2>3 DEF Inv
<1>14. CASE RunRequest
  <2>1. Head(dispatched) \in Request /\ Tail(dispatched) \in Seq(Request) /\ live
    BY <1>14, HeadTailProperties DEF RunRequest, Idle, Inv, QueueInv
  <2>2. /\ To(Head(dispatched), waiting) /\ dispatched' = Tail(dispatched)
        /\ UNCHANGED <<config, loaded, calls, lifeVars, touchTimeout, slidDue>>
    BY <1>14 DEF RunRequest
  <2> QED BY <2>1, <2>2, ToInv DEF lifeVars, Inv, QueueInv, CycleInv, OtherInv
<1>15. CASE UNCHANGED vars
  <2>1. ItemsInv' /\ CycleInv' /\ QueueInv' /\ OtherInv'
    BY <1>15, ItemsUntouched DEF vars, lifeVars, cycleVars, itemVars, Inv, CycleInv, QueueInv, OtherInv
  <2> QED BY <2>1 DEF Inv
<1> QED
  BY <1>1, <1>2, <1>3, <1>4, <1>5, <1>6, <1>7, <1>8, <1>9, <1>10, <1>11, <1>12, <1>13, <1>14,
     <1>15 DEF Next, Visitor, Scripts, Browser

\* The invariant holds in every state.
THEOREM CarouselInvariant == Spec => []Inv
BY InitInv, NextInv, PTL DEF Spec

--------------------------------------------------------------------------------
\* The variables have their types, and the flag that keeps other slides out is set exactly
\* as long as a slide of this instance is under way.
THEOREM ConsistentHolds == Spec => []Consistent
<1>1. Inv => Consistent
  BY DEF Inv, ItemsInv, CycleInv, QueueInv, OtherInv, Consistent, TypeOK
<1> QED BY <1>1, CarouselInvariant, PTL

\* Unless an instance was disposed of during a slide, one item is shown, and the indicators
\* name it when nothing slides.
THEOREM OneItemShownHolds == Spec => []OneItemShown
<1>1. ASSUME Inv PROVE OneItemShown
  <2> SUFFICES ASSUME ~torn PROVE Cardinality(active) = 1 /\ (~isSliding => active = {indicator})
    BY DEF OneItemShown
  <2>1. PICK a \in Items : active = {a} /\ (targets = {} => indicator = a)
    BY <1>1 DEF Inv, ItemsInv, Single
  <2>2. Cardinality({a}) = 1
    BY FS_Singleton
  <2> QED BY <1>1, <2>1, <2>2 DEF Inv, ItemsInv, FlagMatchesSlide
<1> QED BY <1>1, CarouselInvariant, PTL

\* A slide leaves the interval as it was.
LEMMA StepCycles ==
  ASSUME Inv, interval, NEW d \in Direction, Step(d)
  PROVE  interval'
BY StepKeeps, RecycleCycles DEF Inv

LEMMA ToCycles ==
  ASSUME Inv, interval, NEW r \in Request, NEW queue \in Seq(Request), To(r, queue),
         UNCHANGED <<orphans, torn>>
  PROVE  interval' \/ indicator' = indicator
BY ToKeeps, RecycleCycles DEF Inv

\* Whoever asks a cycling carousel for a slide, it goes on cycling, or a touch has paused it
\* and the timer that resumes it runs.
THEOREM CyclingSurvivesSlideHolds == Spec => CyclingSurvivesSlide
<1>1. ASSUME Inv, Next, interval, indicator' # indicator, live'
      PROVE  interval' \/ touchTimeout'
  <2>1. ASSUME NEW d \in Direction, Control(d) \/ Keydown(d) PROVE interval'
    BY <1>1, <2>1, StepCycles DEF Control, Keydown
  <2>2. ASSUME NEW i \in Items, Indicator(i) PROVE interval'
    <3>1. [index |-> i, number |-> FALSE] \in Request
      BY NAssumption DEF Items, Request
    <3>2. To([index |-> i, number |-> FALSE], waiting) /\ UNCHANGED <<orphans, torn>>
      BY <2>2, InstanceKeeps, <1>1 DEF Indicator
    <3> QED BY <1>1, <3>1, <3>2, ToCycles DEF Inv, QueueInv
  <2>3. ASSUME NEW i \in 0..N, ScriptTo(i) PROVE interval'
    <3>1. [index |-> i, number |-> TRUE] \in Request
      BY DEF Request
    <3>2. To([index |-> i, number |-> TRUE], waiting) /\ UNCHANGED <<orphans, torn>>
      BY <2>3, InstanceKeeps, <1>1 DEF ScriptTo
    <3> QED BY <1>1, <3>1, <3>2, ToCycles DEF Inv, QueueInv
  <2>4. ASSUME NEW s \in Direction \cup {"none"}, TouchEnd(s) PROVE touchTimeout'
    BY <2>4 DEF TouchEnd
  <2>5. CASE Tick
    BY <1>1, <2>5, StepCycles DEF Tick, Direction
  <2>6. CASE RunRequest
    <3>1. Head(dispatched) \in Request
      BY <1>1, <2>6, HeadTailProperties DEF RunRequest, Idle, Inv, QueueInv
    <3>2. To(Head(dispatched), waiting) /\ UNCHANGED <<orphans, torn>>
      BY <2>6 DEF RunRequest, lifeVars
    <3> QED BY <1>1, <3>1, <3>2, ToCycles DEF Inv, QueueInv
  <2>7. CASE \/ MouseEnter \/ MouseLeave \/ ScriptPause \/ ScriptCycle \/ Dispose
             \/ Load \/ TouchTimer \/ TransitionEnd \/ SlidTimer
    BY <1>1, <2>7 DEF MouseEnter, MouseLeave, ScriptPause, ScriptCycle, Dispose, Load, TouchTimer,
       TransitionEnd, SlidTimer, itemVars
  <2> QED
    BY <1>1, <2>1, <2>2, <2>3, <2>4, <2>5, <2>6, <2>7 DEF Next, Visitor, Scripts, Browser
<1>2. ASSUME Inv, [Next]_vars
      PROVE  [interval /\ live' /\ indicator' # indicator => interval' \/ touchTimeout']_vars
  BY <1>1, <1>2
<1> QED BY <1>2, CarouselInvariant, PTL DEF Spec, CyclingSurvivesSlide
================================================================================
