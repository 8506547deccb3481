------------------------------- MODULE Registry -------------------------------
(* What a registry of users promises: a member joins under a name that no     *)
(* member has, and the only member to leave is one that has been chosen to.   *)
(* Between the choice and the removal it may be spared. Nothing is promised   *)
(* once the registry is in disorder.                                          *)
CONSTANT Member    \* what a member is registered with, its name included

VARIABLES members, chosen, orderly
vars == <<members, chosen, orderly>>

Init == members = {} /\ chosen = {} /\ orderly = TRUE

Join(m) ==
  /\ \A other \in members : other.name # m.name
  /\ members' = members \cup {m}
  /\ UNCHANGED <<chosen, orderly>>

Choose(m) ==
  /\ m \in members
  /\ chosen' = chosen \cup {m}
  /\ UNCHANGED <<members, orderly>>

Spare(m) ==
  /\ chosen' = chosen \ {m}
  /\ UNCHANGED <<members, orderly>>

Leave(m) ==
  /\ m \in chosen
  /\ members' = members \ {m} /\ chosen' = chosen \ {m}
  /\ UNCHANGED orderly

Disorder == members' = {} /\ chosen' = {} /\ orderly' = FALSE

Next ==
  /\ orderly
  /\ \/ \E m \in Member : Join(m) \/ Choose(m) \/ Spare(m) \/ Leave(m)
     \/ Disorder

Spec == Init /\ [][Next]_vars
===============================================================================
