--------------------------------- MODULE Modal ---------------------------------
(* Bootstrap's modals: the instance of each, its backdrop, and what they share   *)
(* with the page and with one another: the body's class and padding, the focus   *)
(* trap on the document and the resize handlers on the window.                   *)
(*                                                                               *)
(* With the class "fade" show() and hide() are chains of transitions: backdrop,  *)
(* dialog; element, backdrop.  Each link is an action.  Without it they are one. *)
EXTENDS Naturals

CONSTANTS
  Modals,         \* the modals of the page
  Nobody,         \* no modal
  Pages,          \* the kinds of page
  MaxPadding      \* bound on the padding of the body when scripts dispose of modals

Page == [fade : BOOLEAN, backdrop : {"none", "click", "static"}, overflows : BOOLEAN,
         prevents : BOOLEAN, disposes : BOOLEAN]

ASSUME NobodyAssumption == Nobody \notin Modals
ASSUME PagesAssumption == Pages \subseteq Page

VARIABLES
  page,           \* for good: fade, backdrop, overflows, prevents, disposes
  live,           \* the modals that have an instance
  isShown, isTransitioning,      \* fields of the instances
  ignoreBackdropClick,
  pressed,        \* whether a handler waits for the mouse button to be released
  waits,          \* waits[m]: the transition the instance of m waits for
  displayed,      \* whether the element is displayed
  backdrop,       \* whether the instance holds a backdrop
  leaving,        \* leaving[m]: which backdrop's removal is waited for: the instance's
                  \* "own", an "old" one of it, or one of an instance disposed of ("dead")
  stray,          \* stray[m]: whether a backdrop of m is left in the page with nobody to remove it
  bodyOpen,       \* the body's class "modal-open"
  padding, saved, \* the body's padding, in widths of the scrollbar, and the one to restore
  trap,           \* whose handler of "focusin" the document has
  resizing        \* whose handlers of "resize" the window has

bodyVars  == <<bodyOpen, padding, saved>>
mouseVars == <<ignoreBackdropClick, pressed>>
modalVars == <<page, live, isShown, isTransitioning, mouseVars, waits, displayed, backdrop,
               leaving, stray, bodyVars, trap, resizing>>

ModalTypeOK ==
  /\ page \in Pages
  /\ live \in SUBSET Modals
  /\ isShown \in [Modals -> BOOLEAN] /\ isTransitioning \in [Modals -> BOOLEAN]
  /\ ignoreBackdropClick \in [Modals -> BOOLEAN] /\ pressed \in [Modals -> BOOLEAN]
  /\ waits \in [Modals -> {"nothing", "backdrop", "dialog", "element"}]
  /\ displayed \in [Modals -> BOOLEAN] /\ backdrop \in [Modals -> BOOLEAN]
  /\ leaving \in [Modals -> {"none", "own", "old", "dead"}] /\ stray \in [Modals -> BOOLEAN]
  /\ bodyOpen \in BOOLEAN /\ padding \in Nat /\ saved \in Nat
  /\ trap \in Modals \cup {Nobody} /\ resizing \in SUBSET Modals

No == [m \in Modals |-> FALSE]

ModalInit ==
  /\ page \in Pages
  /\ live = {}
  /\ isShown = No /\ isTransitioning = No /\ ignoreBackdropClick = No /\ pressed = No
  /\ waits = [m \in Modals |-> "nothing"]
  /\ displayed = No /\ backdrop = No /\ stray = No
  /\ leaving = [m \in Modals |-> "none"]
  /\ bodyOpen = FALSE /\ padding = 0 /\ saved = 0
  /\ trap = Nobody /\ resizing = {}

--------------------------------------------------------------------------------
HasBackdrop == page.backdrop # "none"

\* _checkScrollbar() and _setScrollbar(): the body has a scrollbar unless a modal is open.
SetScrollbar ==
  /\ bodyOpen' = TRUE
  /\ IF page.overflows /\ ~bodyOpen THEN saved' = padding /\ padding' = padding + 1
                                    ELSE UNCHANGED <<saved, padding>>

PaddingKept == bodyOpen' = FALSE /\ UNCHANGED <<padding, saved>>

\* The callback of _hideModal(): the body is as it was before.
ResetBody == bodyOpen' = FALSE /\ padding' = saved /\ saved' = 0

\* show().  With "fade" the flag is set before the event that listeners may prevent.
ShowPrevented(m) ==
  /\ page.prevents
  /\ isTransitioning' = [isTransitioning EXCEPT ![m] = page.fade]
  /\ UNCHANGED <<isShown, waits, displayed, backdrop, leaving, bodyVars, trap, resizing>>

\* _showBackdrop().  A backdrop that is still leaving is forgotten in favour of a new one.
NewBackdrop(m) ==
  /\ backdrop' = [backdrop EXCEPT ![m] = HasBackdrop]
  /\ leaving' = [leaving EXCEPT ![m] = IF @ = "own" THEN "old" ELSE @]
  /\ waits' = [waits EXCEPT ![m] = IF ~page.fade THEN "nothing"
                                   ELSE IF HasBackdrop THEN "backdrop" ELSE "dialog"]

ShowStarts(m) ==
  LET atOnce == ~page.fade \/ ~HasBackdrop IN
  /\ isShown' = [isShown EXCEPT ![m] = TRUE]
  /\ isTransitioning' = [isTransitioning EXCEPT ![m] = page.fade]
  /\ SetScrollbar
  /\ resizing' = resizing \cup {m}
  /\ NewBackdrop(m)
  /\ displayed' = [displayed EXCEPT ![m] = @ \/ atOnce]
  /\ trap' = IF atOnce THEN m ELSE trap

Refused == UNCHANGED <<isShown, isTransitioning, waits, displayed, backdrop, leaving, bodyVars,
                       trap, resizing>>

Show(m) ==
  /\ live' = live \cup {m}
  /\ IF isShown[m] \/ isTransitioning[m] THEN Refused ELSE ShowPrevented(m) \/ ShowStarts(m)
  /\ UNCHANGED <<page, stray, mouseVars>>

\* hide(), with _hideModal() at once when nothing fades.  The handlers of every modal go from
\* the document and from the window.
HideFires(m) == isShown[m] /\ ~isTransitioning[m]

TrapKept == trap
TrapAfterHide == Nobody

HideStarts(m) ==
  /\ isShown' = [isShown EXCEPT ![m] = FALSE]
  /\ isTransitioning' = [isTransitioning EXCEPT ![m] = page.fade]
  /\ resizing' = {} /\ trap' = TrapAfterHide
  /\ waits' = [waits EXCEPT ![m] = IF page.fade THEN "element" ELSE @]
  /\ displayed' = [displayed EXCEPT ![m] = @ /\ page.fade]
  /\ backdrop' = [backdrop EXCEPT ![m] = @ /\ page.fade]
  /\ IF page.fade THEN UNCHANGED bodyVars ELSE ResetBody
  /\ UNCHANGED leaving

Hide(m) ==
  /\ live' = live \cup {m}
  /\ IF ~HideFires(m) THEN Refused
     ELSE \/ page.prevents /\ Refused
          \/ HideStarts(m)
  /\ UNCHANGED <<page, stray, mouseVars>>

--------------------------------------------------------------------------------
\* The backdrop has faded in: _showElement().  Transitions of the same duration end in the
\* order in which they began: an older backdrop has left by then.
BackdropShown(m) ==
  /\ waits[m] = "backdrop" /\ leaving[m] = "none"
  /\ displayed' = [displayed EXCEPT ![m] = TRUE]
  /\ trap' = m
  /\ waits' = [waits EXCEPT ![m] = "dialog"]
  /\ UNCHANGED <<page, live, isShown, isTransitioning, mouseVars, backdrop, leaving, stray,
                 bodyVars, resizing>>

DialogShown(m) ==
  /\ waits[m] = "dialog"
  /\ waits' = [waits EXCEPT ![m] = "nothing"]
  /\ isTransitioning' = [isTransitioning EXCEPT ![m] = FALSE]
  /\ UNCHANGED <<page, live, isShown, mouseVars, displayed, backdrop, leaving, stray, bodyVars,
                 trap, resizing>>

\* The element has faded out: _hideModal().  The flag is cleared before the backdrop leaves.
ElementHidden(m) ==
  /\ waits[m] = "element"
  /\ waits' = [waits EXCEPT ![m] = "nothing"]
  /\ isTransitioning' = [isTransitioning EXCEPT ![m] = FALSE]
  /\ displayed' = [displayed EXCEPT ![m] = FALSE]
  /\ leaving' = [leaving EXCEPT ![m] = IF backdrop[m] THEN "own" ELSE @]
  /\ IF backdrop[m] THEN UNCHANGED bodyVars ELSE ResetBody
  /\ UNCHANGED <<page, live, isShown, mouseVars, backdrop, stray, trap, resizing>>

\* The backdrop has faded out: callbackRemove() removes the one that the instance holds now,
\* with the handler that waits for it, and not the one that has left when they differ.
BackdropGone(m) ==
  /\ leaving[m] # "none"
  /\ leaving' = [leaving EXCEPT ![m] = "none"]
  /\ stray' = [stray EXCEPT ![m] = @ \/ leaving[m] = "old"]
  /\ IF leaving[m] = "dead"
     THEN bodyOpen' = FALSE /\ UNCHANGED <<padding, saved, backdrop, waits>>
     ELSE /\ backdrop' = [backdrop EXCEPT ![m] = FALSE]
          /\ waits' = [waits EXCEPT ![m] = IF @ = "backdrop" THEN "nothing" ELSE @]
          /\ ResetBody
  /\ UNCHANGED <<page, live, isShown, isTransitioning, mouseVars, displayed, trap, resizing>>

--------------------------------------------------------------------------------
\* A click on a trigger, or a script's modal("toggle").
Toggle(m) == IF m \in live /\ isShown[m] THEN Hide(m) ELSE Show(m)

\* The escape key and the buttons with data-dismiss: their handlers are there from show() to
\* hide().
Dismiss(m) == isShown[m] /\ displayed[m] /\ Hide(m)

\* The mouse: pressed in the dialog; released, on the modal around it or not; and clicked
\* around it.
Press(m) ==
  /\ isShown[m] /\ displayed[m]
  /\ pressed' = [pressed EXCEPT ![m] = TRUE]
  /\ UNCHANGED <<page, live, isShown, isTransitioning, ignoreBackdropClick, waits, displayed,
                 backdrop, leaving, stray, bodyVars, trap, resizing>>

Release(m, around) ==
  /\ displayed[m] /\ pressed[m]
  /\ pressed' = [pressed EXCEPT ![m] = FALSE]
  /\ ignoreBackdropClick' = [ignoreBackdropClick EXCEPT ![m] = @ \/ around]
  /\ UNCHANGED <<page, live, isShown, isTransitioning, waits, displayed, backdrop, leaving, stray,
                 bodyVars, trap, resizing>>

ClickIgnored(m) ==
  /\ isShown[m] /\ displayed[m] /\ HasBackdrop /\ ignoreBackdropClick[m]
  /\ ignoreBackdropClick' = [ignoreBackdropClick EXCEPT ![m] = FALSE]
  /\ UNCHANGED <<page, live, isShown, isTransitioning, pressed, waits, displayed, backdrop,
                 leaving, stray, bodyVars, trap, resizing>>

ClickAround(m) ==
  /\ isShown[m] /\ displayed[m] /\ ~ignoreBackdropClick[m]
  /\ page.backdrop = "click"
  /\ Hide(m)

\* A script's modal("dispose"): what waited for a transition fails when it ends, but for the
\* class of the body; the backdrop stays.
Dispose(m) ==
  /\ page.disposes /\ m \in live /\ padding < MaxPadding
  /\ live' = live \ {m}
  /\ isShown' = [isShown EXCEPT ![m] = FALSE]
  /\ isTransitioning' = [isTransitioning EXCEPT ![m] = FALSE]
  /\ ignoreBackdropClick' = [ignoreBackdropClick EXCEPT ![m] = FALSE]
  /\ pressed' = [pressed EXCEPT ![m] = FALSE]
  /\ waits' = [waits EXCEPT ![m] = "nothing"]
  /\ backdrop' = [backdrop EXCEPT ![m] = FALSE]
  /\ stray' = [stray EXCEPT ![m] = @ \/ backdrop[m]]
  /\ leaving' = [leaving EXCEPT ![m] = IF @ = "none" THEN @ ELSE "dead"]
  /\ trap' = Nobody /\ resizing' = {}
  /\ UNCHANGED <<page, displayed, bodyVars>>

Transition(m) == BackdropShown(m) \/ DialogShown(m) \/ ElementHidden(m) \/ BackdropGone(m)
================================================================================
