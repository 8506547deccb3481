------------------------------- MODULE Overlays --------------------------------
(* Modals and tooltips on one page: the tooltips are on elements of the modal     *)
(* Around.  The modal triggers "hide" while it is being hidden, and the handlers  *)
(* that the tooltips have there hide their tips in the same step.                 *)
EXTENDS Modal, Tooltip

CONSTANTS
  Around,         \* the modal with the tooltips
  MaxCalls        \* bound on what the visitor and the page's scripts do

ASSUME AroundAssumption == Around \in Modals

VARIABLE calls    \* actions of the visitor and of scripts so far

vars == <<modalVars, tipVars, calls>>

TypeOK == ModalTypeOK /\ TipTypeOK /\ calls \in Nat

Init == ModalInit /\ TipInit /\ calls = 0

--------------------------------------------------------------------------------
Called == calls < MaxCalls /\ calls' = calls + 1

TipsNotTold(m) == UNCHANGED tipVars

\* What the tooltips do in a step that hides m, or tries to.
TipsOfStep(m) == IF m = Around /\ HideFires(m) THEN HideAll ELSE UNCHANGED tipVars

ToggleModal(m)  == Called /\ Toggle(m) /\ TipsOfStep(m)
DismissModal(m) == Called /\ Dismiss(m) /\ TipsOfStep(m)
HideModal(m)    == Called /\ Hide(m) /\ TipsOfStep(m)
ClickBeside(m)  == Called /\ ClickAround(m) /\ TipsOfStep(m)

ShowModal(m)    == Called /\ Show(m) /\ UNCHANGED tipVars
MouseOnModal(m) == /\ Called
                   /\ Press(m) \/ ClickIgnored(m) \/ \E around \in BOOLEAN : Release(m, around)
                   /\ UNCHANGED tipVars

\* The handlers of tooltips are in the name space of those that dispose() takes off the modal.
DisposeModal(m) ==
  /\ Called /\ Dispose(m)
  /\ listens' = (IF m = Around THEN {} ELSE listens)
  /\ UNCHANGED <<options, tip>>

\* The visitor reaches the elements of a modal that is displayed.
Visit(t) == /\ Called /\ displayed[Around]
            /\ MouseEnter(t) \/ MouseLeave(t) \/ FocusIn(t) \/ FocusOut(t) \/ Click(t)
            /\ UNCHANGED modalVars

ScriptTip(t) == /\ Called
                /\ ScriptCall(t) \/ DisposeTip(t) \/ Create(t)
                /\ UNCHANGED modalVars

ModalMoves(m) == Transition(m) /\ UNCHANGED <<tipVars, calls>>
TimerFires(t) == TipTimer(t) /\ UNCHANGED <<modalVars, calls>>
TipMoves(t)   == TipTransition(t) /\ UNCHANGED <<modalVars, calls>>

Next ==
  \/ \E m \in Modals : \/ ToggleModal(m) \/ DismissModal(m) \/ HideModal(m) \/ ClickBeside(m)
                       \/ ShowModal(m) \/ DisposeModal(m) \/ MouseOnModal(m) \/ ModalMoves(m)
  \/ \E t \in Tips : Visit(t) \/ ScriptTip(t) \/ TimerFires(t) \/ TipMoves(t)

Spec == Init /\ [][Next]_vars

\* Every transition ends, or the timer of its emulator does, and the timers of delays fire.
Fairness == /\ \A m \in Modals : WF_vars(ModalMoves(m))
            /\ \A t \in Tips : WF_vars(TimerFires(t)) /\ WF_vars(TipMoves(t))
FairSpec == Spec /\ Fairness
================================================================================
