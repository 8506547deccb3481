------------------------------- MODULE Collapse --------------------------------
(* Bootstrap's collapse: panels in document order, each with one trigger, alone *)
(* (the page's navigation bar) or in an accordion (data-parent).  A panel's     *)
(* instance lives in its data; show() and hide() leave a handler waiting for    *)
(* the end of the panel's CSS transition.  Scripts call from events of their    *)
(* own, never from inside a handler of "show" or "hide".                        *)
EXTENDS Naturals, Sequences

CONSTANTS
  P,              \* the number of panels
  MaxCalls        \* bound on what the visitor and the page's scripts do

ASSUME PAssumption == P \in Nat \ {0}

VARIABLES
  config,         \* the page, for good: parent (an accordion), marked (the triggers carry
                  \* data-parent too), prevents, disposes (what its scripts may do)
  class,          \* class[p]: the classes of p among "collapse", "collapsing" and "show"
  expanded,       \* expanded[p]: aria-expanded of p's trigger, the opposite of "collapsed"
  instance,       \* instance[p]: whether p's data hold an instance
  isTransitioning,\* that instance's flag, FALSE when there is none
  pending,        \* pending[p]: handlers waiting for the end of p's transition
  calls           \* actions of the visitor and of scripts so far

vars == <<config, class, expanded, instance, isTransitioning, pending, calls>>

Panels == 1..P
Config == [parent : BOOLEAN, marked : BOOLEAN, prevents : BOOLEAN, disposes : BOOLEAN,
           open : SUBSET Panels]

Closed == {"collapse"}
Moving == {"collapsing"}
Shown  == {"collapse", "show"}

\* A handler belongs to the panel's instance ("own"), to one its data have lost ("lost"), or
\* to one that has been disposed of ("dead").
Handler == [op : {"show", "hide"}, by : {"own", "lost", "dead"}]

TypeOK ==
  /\ config \in Config
  /\ class \in [Panels -> {Closed, Moving, Shown}]
  /\ expanded \in [Panels -> BOOLEAN]
  /\ instance \in [Panels -> BOOLEAN]
  /\ isTransitioning \in [Panels -> BOOLEAN]
  /\ pending \in [Panels -> Seq(Handler)]
  /\ calls \in Nat

Init ==
  /\ config \in Config
  /\ class = [p \in Panels |-> IF p \in config.open THEN Shown ELSE Closed]
  /\ expanded = [p \in Panels |-> p \in config.open]
  /\ instance = [p \in Panels |-> FALSE]
  /\ isTransitioning = [p \in Panels |-> FALSE]
  /\ pending = [p \in Panels |-> <<>>]
  /\ calls = 0

--------------------------------------------------------------------------------
\* The open or moving panels of the accordion, p among them or not.
Actives == IF config.parent THEN {q \in Panels : class[q] \cap {"show", "collapsing"} # {}} ELSE {}
Others(p) == Actives \ {p}

\* activesData: jQuery's data() looks at the first of them in the document only.
First(S) == CHOOSE q \in S : \A r \in S : q <= r
NeverBusy(p) == FALSE
ActivesBusy(p) == Others(p) # {} /\ isTransitioning[First(Others(p))]
ActivesUnknown(p) == Others(p) = {} \/ ~instance[First(Others(p))]

\* What the constructors of new instances make of the triggers: of their own, or in an
\* accordion of all that carry data-parent.  A panel that is moving counts as closed.
AriaAfter(new) ==
  [r \in Panels |-> IF \/ ~config.parent /\ r \in new
                       \/ config.parent /\ config.marked /\ new # {}
                    THEN "show" \in class[r] ELSE expanded[r]]

\* An instance for p and nothing else: the call is refused, or a listener prevents it.
Create(p) ==
  /\ instance' = [instance EXCEPT ![p] = TRUE]
  /\ expanded' = AriaAfter({q \in {p} : ~instance[q]})
  /\ UNCHANGED <<class, isTransitioning, pending>>

Lose(handlers) == [k \in DOMAIN handlers |->
                     IF handlers[k].by = "own" THEN [handlers[k] EXCEPT !.by = "lost"]
                     ELSE handlers[k]]

\* The classes of a panel that starts to open or to close.
Starting(q) == (class[q] \ {"collapse", "show"}) \cup {"collapsing"}

\* show(): the others are hidden, those that listeners keep open aside.  When the first of the
\* others has no instance, all of them lose theirs again, and p too when it counts as moving,
\* unless its data are yet to be set: "unset" says whose they are.
ShowAndHide(p, hidden, unset) ==
  LET new  == {q \in Others(p) \cup {p} : ~instance[q]}
      lost == IF ActivesUnknown(p) THEN Actives \ unset ELSE {}
      waits(q) == IF q = p THEN <<[op |-> "show", by |-> "own"]>>
                  ELSE IF q \in hidden THEN <<[op |-> "hide", by |-> "own"]>> ELSE <<>>
  IN  /\ class' = [q \in Panels |-> IF q \in hidden \cup {p} THEN Starting(q) ELSE class[q]]
      /\ expanded' = [q \in Panels |->
                        IF q \in hidden \cup {p} THEN q = p ELSE AriaAfter(new)[q]]
      /\ instance' = [q \in Panels |-> (instance[q] \/ q \in new) /\ q \notin lost]
      /\ isTransitioning' = [q \in Panels |->
                               (isTransitioning[q] \/ q \in hidden \cup {p}) /\ q \notin lost]
      /\ pending' = [q \in Panels |->
                       IF q \in lost THEN Lose(pending[q] \o waits(q)) ELSE pending[q] \o waits(q)]

Show(p, unset) ==
  IF isTransitioning[p] \/ "show" \in class[p] \/ ActivesBusy(p) THEN Create(p)
  ELSE \/ config.prevents /\ Create(p)
       \/ LET closing == {q \in Others(p) : "show" \in class[q] /\ ~isTransitioning[q]}
          IN  \E hidden \in SUBSET closing :
                /\ hidden = closing \/ config.prevents
                /\ ShowAndHide(p, hidden, unset)

\* hide().
TriggerForgotten(p) == AriaAfter({q \in {p} : ~instance[q]})
TriggerCollapsed(p) == [AriaAfter({q \in {p} : ~instance[q]}) EXCEPT ![p] = FALSE]

Hide(p) ==
  IF isTransitioning[p] \/ "show" \notin class[p] THEN Create(p)
  ELSE \/ config.prevents /\ Create(p)
       \/ /\ class' = [class EXCEPT ![p] = Starting(p)]
          /\ expanded' = TriggerCollapsed(p)
          /\ instance' = [instance EXCEPT ![p] = TRUE]
          /\ isTransitioning' = [isTransitioning EXCEPT ![p] = TRUE]
          /\ pending' = [pending EXCEPT ![p] = Append(@, [op |-> "hide", by |-> "own"])]

--------------------------------------------------------------------------------
Called == calls < MaxCalls /\ calls' = calls + 1 /\ UNCHANGED config

\* A click on p's trigger or a script's collapse("toggle"): the constructor of a new instance
\* toggles by itself, before the instance is in p's data.
Toggle(p) == Called /\ IF "show" \in class[p] THEN Hide(p)
                      ELSE Show(p, {q \in {p} : ~instance[q]})

\* A script's collapse("show"), collapse("hide"), and collapse("dispose") where there is an
\* instance.
ScriptShow(p) == Called /\ Show(p, {})
ScriptHide(p) == Called /\ Hide(p)

Dispose(p) ==
  /\ config.disposes /\ instance[p]
  /\ Called
  /\ instance' = [instance EXCEPT ![p] = FALSE]
  /\ isTransitioning' = [isTransitioning EXCEPT ![p] = FALSE]
  /\ pending' = [pending EXCEPT ![p] =
                   [k \in DOMAIN @ |-> IF @[k].by = "own" THEN [@[k] EXCEPT !.by = "dead"] ELSE @[k]]]
  /\ UNCHANGED <<class, expanded>>

\* The end of p's transition, or the emulator's timer, runs the handlers in their order, up to
\* one of show() whose instance was disposed of: it fails, and the others keep waiting for the
\* timer of theirs.  Those of hide() then find no element and do nothing.
Throws(h) == h.op = "show" /\ h.by = "dead"
Ran(p) == LET failed == {k \in DOMAIN pending[p] : Throws(pending[p][k])}
          IN  IF failed = {} THEN Len(pending[p]) ELSE First(failed)
Completes(p, op) == \E k \in 1..Ran(p) : pending[p][k].op = op /\ pending[p][k].by # "dead"

FlagForgotten(p) == isTransitioning[p]
FlagAfter(p) == isTransitioning[p] /\ \A k \in 1..Ran(p) : pending[p][k].by # "own"

Opened(p) == IF Completes(p, "show") THEN {"show"} ELSE {}
NotCompleted(p) == class[p]
ClassAfter(p) == IF Completes(p, "show") \/ Completes(p, "hide")
                 THEN (class[p] \ {"collapsing"}) \cup {"collapse"} \cup Opened(p)
                 ELSE class[p]

TransitionEnd(p) ==
  /\ pending[p] # <<>>
  /\ class' = [class EXCEPT ![p] = ClassAfter(p)]
  /\ isTransitioning' = [isTransitioning EXCEPT ![p] = FlagAfter(p)]
  /\ pending' = [pending EXCEPT ![p] = SubSeq(@, Ran(p) + 1, Len(@))]
  /\ UNCHANGED <<config, expanded, instance, calls>>

Visitor == \E p \in Panels : Toggle(p)
Scripts == \E p \in Panels : ScriptShow(p) \/ ScriptHide(p) \/ Dispose(p)
Browser == \E p \in Panels : TransitionEnd(p)

Next == Visitor \/ Scripts \/ Browser
Spec == Init /\ [][Next]_vars

\* Every transition ends, or the timer of its emulator does.
Fairness == \A p \in Panels : WF_vars(TransitionEnd(p))
FairSpec == Spec /\ Fairness
================================================================================
