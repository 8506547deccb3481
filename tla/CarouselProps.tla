----------------------------- MODULE CarouselProps -----------------------------
(* What the carousel promises.                                                 *)
EXTENDS Carousel, FiniteSets

\* Clicks, keys, swipes, scripts and the interval may all ask for a slide while one is under
\* way or has just ended: exactly one item is shown, and the indicators, which are switched
\* when a slide starts while the items are switched when it ends, name it when none is under
\* way; unless an instance has been disposed of in the middle of a slide, whose transition then
\* ends beside those of its successor.
OneItemShown ==
  ~torn => /\ Cardinality(active) = 1
           /\ ~isSliding => active = {indicator}

\* The flag that keeps every other slide out is set exactly as long as a slide of this
\* instance is under way, so that it is never left set by one that will not end.
FlagMatchesSlide == isSliding <=> targets # {}

\* What the type and the flag must be in every state.
Consistent == TypeOK /\ FlagMatchesSlide

\* A slide restarts the interval by pause() and cycle(): whoever asked for it, a carousel that
\* was cycling is still cycling afterwards, or a touch has paused it and its timer runs.
CyclingSurvivesSlide ==
  [][interval /\ live' /\ indicator' # indicator => interval' \/ touchTimeout']_vars

\* A call of to() that comes during a slide is put off, and put off again when another slide
\* has overtaken it, but not for ever: unless the page prevents slides or disposes of the
\* carousel, its item is shown.
Waits(i) == \E k \in 1..Len(waiting) : waiting[k].index = i
RequestServed ==
  \A i \in Items : Waits(i) /\ ~config.prevents ~> i \in active \/ ~live
================================================================================
