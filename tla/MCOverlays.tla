------------------------------- MODULE MCOverlays ------------------------------
(* Model-checking instance of Overlays: the default page and tooltips, which      *)
(* fade, and each that departs from them in one way.                              *)
EXTENDS OverlaysProps, FiniteSets

DefaultPage == [fade |-> TRUE, backdrop |-> "click", overflows |-> TRUE, prevents |-> FALSE,
                disposes |-> FALSE]
DefaultTip  == [delay |-> FALSE, animation |-> TRUE, prevents |-> FALSE, scripted |-> FALSE,
                disposes |-> FALSE]

Departures(r, default) == {f \in DOMAIN r : r[f] # default[f]}
MCPages   == {p \in Page : Cardinality(Departures(p, DefaultPage)) <= 1}
MCManners == {o \in Options : Cardinality(Departures(o, DefaultTip)) <= 1}

\* Four calls of any kind; the further ones are on one of the tooltips of the default
\* page, or hide its modal.  No fairness applies to calls.
ATip == CHOOSE t \in Tips : TRUE
Narrowing ==
  calls' > calls /\ calls' > 4 =>
    /\ page = DefaultPage
    /\ \/ UNCHANGED modalVars /\ \A t \in Tips \ {ATip} : tip'[t] = tip[t]
       \/ isShown[Around] /\ ~isShown'[Around]
================================================================================
