-------------------------------- MODULE Tooltip --------------------------------
(* Bootstrap's tooltips: the instance of each, its tip in the page, the timer of *)
(* its delays and the handlers that wait for the tip's transition.  A call is an *)
(* operator on the record of the instance; "prevented" says which of the events   *)
(* "show" and "hide" a listener of the page prevents in the step.                *)
EXTENDS Naturals, Sequences

CONSTANTS
  Tips,           \* the tooltips of the page
  Manners         \* the options they may have been created with, and what scripts do to them

Options == [delay : BOOLEAN, animation : BOOLEAN, prevents : BOOLEAN, scripted : BOOLEAN,
            disposes : BOOLEAN]
ASSUME ChoicesAssumption == Manners \subseteq Options

VARIABLES
  options,        \* for good: delay, animation, prevents, scripted, disposes
  tip,            \* tip[t]: the instance, see Instance
  listens         \* tooltips that are told when the modal around them is hidden

tipVars == <<options, tip, listens>>

Trigger == {"hover", "focus", "click"}
\* inPage: the tip is part of the document; shown: it has the class "show"; fades: it has the
\* class "fade"; placed: it has the attribute "x-placement", which a Popper sets when it is made
\* and takes away when it is destroyed; timer: what the running timer will do.
Instance == [live : BOOLEAN, isEnabled : BOOLEAN, hoverState : {"", "show", "out"},
             activeTrigger : SUBSET Trigger, timer : {"none", "show", "hide"},
             inPage : BOOLEAN, shown : BOOLEAN, fades : BOOLEAN, placed : BOOLEAN,
             pending : Seq({"shown", "hidden"})]

New == [live |-> TRUE, isEnabled |-> TRUE, hoverState |-> "", activeTrigger |-> {},
        timer |-> "none", inPage |-> FALSE, shown |-> FALSE, fades |-> FALSE, placed |-> FALSE,
        pending |-> <<>>]

TipTypeOK ==
  /\ options \in Manners
  /\ tip \in [Tips -> Instance]
  /\ listens \in SUBSET Tips

TipInit ==
  /\ options \in Manners
  /\ tip = [t \in Tips |-> New]
  /\ listens = Tips

--------------------------------------------------------------------------------
\* hide(): its completion takes the tip out of the page unless it is wanted again by then, and
\* destroys the Popper in any case.
HiddenDone(r) == [r EXCEPT !.inPage = @ /\ r.hoverState = "show", !.placed = FALSE]

HideKeepsTriggers(r, prevented) ==
  IF "hide" \in prevented THEN r
  ELSE LET left == [r EXCEPT !.shown = FALSE]
           done == IF left.fades THEN [left EXCEPT !.pending = Append(@, "hidden")]
                   ELSE HiddenDone(left)
       IN  [done EXCEPT !.hoverState = ""]

HideTip(r, prevented) ==
  IF "hide" \in prevented THEN r
  ELSE LET left == [r EXCEPT !.shown = FALSE, !.activeTrigger = {}]
           done == IF left.fades THEN [left EXCEPT !.pending = Append(@, "hidden")]
                   ELSE HiddenDone(left)
       IN  [done EXCEPT !.hoverState = ""]

LeaveKeepsTimer(r, triggers, prevented) ==
  LET left == [r EXCEPT !.activeTrigger = @ \ triggers] IN
  IF left.activeTrigger # {} THEN left
  ELSE IF options.delay THEN [left EXCEPT !.hoverState = "out"]
  ELSE HideTip([left EXCEPT !.hoverState = "out"], prevented)

\* _leave() by a trigger, or by none.
Leave(r, triggers, prevented) ==
  LET left == [r EXCEPT !.activeTrigger = @ \ triggers]
      out  == [left EXCEPT !.hoverState = "out", !.timer = "none"]
  IN  IF left.activeTrigger # {} THEN left
      ELSE IF options.delay THEN [out EXCEPT !.timer = "hide"]
      ELSE HideTip(out, prevented)

\* The completion of show(): a leave that came in between is made good.
AfterShown(r, prevented) ==
  LET done == [r EXCEPT !.hoverState = ""] IN
  IF r.hoverState = "out" THEN Leave(done, {}, prevented) ELSE done

Appears(r, fades) ==
  [r EXCEPT !.inPage = TRUE, !.shown = TRUE, !.fades = fades, !.placed = TRUE]

\* _fixTransition(): hide() and show() again, without a fade.
FixTransition(r, prevented) ==
  LET hidden == HideTip([r EXCEPT !.fades = FALSE], prevented)
  IN  IF ~hidden.isEnabled \/ "show" \in prevented THEN hidden
      ELSE AfterShown(Appears(hidden, FALSE), prevented)

\* With animation, a tip whose Popper was destroyed since show() is put right first.
ShownDone(r, prevented) ==
  AfterShown(IF options.animation /\ ~r.placed THEN FixTransition(r, prevented) ELSE r, prevented)

\* show().
ShowTip(r, prevented) ==
  IF ~r.isEnabled \/ "show" \in prevented THEN r
  ELSE LET up == Appears(r, options.animation)
       IN  IF up.fades THEN [up EXCEPT !.pending = Append(@, "shown")]
           ELSE ShownDone(up, prevented)

\* _enter() by a trigger, or by none.
Enter(r, triggers, prevented) ==
  LET entered == [r EXCEPT !.activeTrigger = @ \cup triggers]
      coming  == [entered EXCEPT !.hoverState = "show", !.timer = "none"]
  IN  IF entered.shown \/ entered.hoverState = "show" THEN [entered EXCEPT !.hoverState = "show"]
      ELSE IF options.delay THEN [coming EXCEPT !.timer = "show"]
      ELSE ShowTip(coming, prevented)

\* toggle() by a click, and toggle() by a script.
ClickToggle(r, prevented) ==
  IF ~r.isEnabled THEN r
  ELSE LET clicks  == (r.activeTrigger \cup {"click"}) \ (r.activeTrigger \cap {"click"})
           clicked == [r EXCEPT !.activeTrigger = clicks]
       IN  IF clicks # {} THEN Enter(clicked, {}, prevented) ELSE Leave(clicked, {}, prevented)

ScriptToggle(r, prevented) ==
  IF ~r.isEnabled THEN r
  ELSE IF r.shown THEN Leave(r, {}, prevented) ELSE Enter(r, {}, prevented)

\* The timer of a delay.
TimerDone(r, prevented) ==
  LET fired == [r EXCEPT !.timer = "none"] IN
  IF r.timer = "show" /\ r.hoverState = "show" THEN ShowTip(fired, prevented)
  ELSE IF r.timer = "hide" /\ r.hoverState = "out" THEN HideTip(fired, prevented)
  ELSE fired

\* The end of the tip's transition: what waits for it, in the order in which it was asked for.
Completed(s, op, prevented) == IF op = "shown" THEN ShownDone(s, prevented) ELSE HiddenDone(s)

TransitionDone(r, prevented) ==
  LET run[k \in 0..Len(r.pending)] ==
        IF k = 0 THEN [r EXCEPT !.pending = <<>>]
                 ELSE Completed(run[k - 1], r.pending[k], prevented)
  IN  run[Len(r.pending)]

--------------------------------------------------------------------------------
Becomes(t, r) == tip' = [tip EXCEPT ![t] = r] /\ UNCHANGED <<options, listens>>
Prevented == SUBSET (IF options.prevents THEN {"show", "hide"} ELSE {})

MouseEnter(t) == tip[t].live /\ \E p \in Prevented : Becomes(t, Enter(tip[t], {"hover"}, p))
MouseLeave(t) == tip[t].live /\ \E p \in Prevented : Becomes(t, Leave(tip[t], {"hover"}, p))
FocusIn(t)    == tip[t].live /\ \E p \in Prevented : Becomes(t, Enter(tip[t], {"focus"}, p))
FocusOut(t)   == tip[t].live /\ \E p \in Prevented : Becomes(t, Leave(tip[t], {"focus"}, p))
Click(t)      == tip[t].live /\ \E p \in Prevented : Becomes(t, ClickToggle(tip[t], p))

\* What scripts call on an instance: tooltip("show"), ("hide"), ("toggle"), ("enable"),
\* ("disable").
ScriptCall(t) ==
  /\ options.scripted /\ tip[t].live
  /\ \E p \in Prevented :
       \/ Becomes(t, ShowTip(tip[t], p))
       \/ Becomes(t, HideTip(tip[t], p))
       \/ Becomes(t, ScriptToggle(tip[t], p))
       \/ Becomes(t, [tip[t] EXCEPT !.isEnabled = ~@])

\* tooltip("dispose"): the tip leaves the page with its handlers, and every tooltip of the same
\* modal loses the handler by which it would learn that the modal is hidden.
ListensAfter == {}

DisposeTip(t) ==
  /\ options.disposes /\ tip[t].live
  /\ tip' = [tip EXCEPT ![t] = [New EXCEPT !.live = FALSE]]
  /\ listens' = ListensAfter
  /\ UNCHANGED options

\* A new tooltip on the element of one disposed of.
Create(t) ==
  /\ ~tip[t].live
  /\ tip' = [tip EXCEPT ![t] = New]
  /\ listens' = listens \cup {t}
  /\ UNCHANGED options

TipTimer(t) == /\ tip[t].timer # "none"
               /\ \E p \in Prevented : Becomes(t, TimerDone(tip[t], p))

TipTransition(t) == /\ tip[t].pending # <<>>
                    /\ \E p \in Prevented : Becomes(t, TransitionDone(tip[t], p))

\* The modal around the tooltips is being hidden.
HideAll == /\ \E p \in [Tips -> Prevented] :
                tip' = [t \in Tips |-> IF t \in listens /\ tip[t].live
                                       THEN HideTip(tip[t], p[t]) ELSE tip[t]]
           /\ UNCHANGED <<options, listens>>
================================================================================
