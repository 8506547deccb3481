----------------------------- MODULE CollapseProps -----------------------------
(* What the collapsible panels promise.                                        *)
EXTENDS Collapse

\* Clicks on several headers of an accordion during its transitions: show() is refused while
\* the first moving panel has its instance and hides the others, so that two panels are never
\* open or opening together, unless the page came with a panel open (whose instance a show()
\* throws away again), disposes of instances, or keeps panels open.
Opens(p) == "show" \in class[p] \/ \E k \in DOMAIN pending[p] : pending[p][k].op = "show"
OneOpenPanel ==
  config.parent /\ config.open = {} /\ ~config.disposes /\ ~config.prevents
    => \A p, q \in Panels : Opens(p) /\ Opens(q) => p = q

\* A trigger says what its panel is once the panel has come to rest, whatever came in between,
\* unless constructors have read the classes of an accordion whose panels were moving, or an
\* instance was disposed of while its panel moved.
TriggerTellsTruth ==
  ~(config.parent /\ config.marked) /\ ~config.disposes
    => \A p \in Panels : pending[p] = <<>> => expanded[p] = (class[p] = Shown)

\* The flag that refuses calls is set exactly while a transition of the same instance is
\* under way: no panel refuses them for ever.
FlagMatchesTransition ==
  \A p \in Panels :
    isTransitioning[p] <=> \E k \in DOMAIN pending[p] : pending[p][k].by = "own"

\* What the type and the flags must be in every state.
Consistent == TypeOK /\ FlagMatchesTransition

\* A panel that has begun to move comes to rest open or closed, unless it was disposed of.
PanelSettles ==
  \A p \in Panels : class[p] = Moving ~> class[p] # Moving \/ config.disposes
================================================================================
