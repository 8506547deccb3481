----------------------------- MODULE OverlaysProps -----------------------------
(* What the modals and the tooltips promise, alone and together.               *)
EXTENDS Overlays

Closed(m) == ~isShown[m] /\ waits[m] = "nothing" /\ leaving[m] = "none" /\ ~stray[m]

\* Modals that overlap share the body's class and padding, each restoring what it found: when
\* all are closed the page is as it was, unless one has been disposed of.
PageRestored ==
  (\A m \in Modals : Closed(m)) /\ ~page.disposes => ~bodyOpen /\ padding = 0

\* The handlers on the document and on the window are shared too: none is left there by a
\* modal that is not shown, to take the focus away or to fail when the window changes.
HandlersOfShown == (trap # Nobody => isShown[trap]) /\ \A m \in resizing : isShown[m]

\* The flag that refuses show() and hide() is set only while a transition will clear it, but
\* for two ways to leave it set for ever: a listener has prevented show(), or show() has come
\* while the last backdrop was leaving.
FlagWillClear ==
  \A m \in Modals :
    isTransitioning[m] => \/ waits[m] # "nothing"
                          \/ ~isShown[m] /\ page.prevents
                          \/ isShown[m] /\ stray[m]

\* What the type, the shared handlers and the flags must be in every state.
Consistent == TypeOK /\ HandlersOfShown /\ FlagWillClear

Undisturbed == ~options.scripted /\ ~options.prevents

\* A tip that _fixTransition() has put back: it is shown without its fade.
PutBack(t) == options.animation /\ tip[t].shown /\ ~tip[t].fades

\* Without delays a tip is shown and in the page whenever it is wanted, even while its handlers
\* wait for transitions in whatever order they were asked for; unless it has been put back: a
\* "hidden" that still waited then takes it from the page as it is, and the next visit, which
\* finds it shown, does not bring it back.
WantedTipShown ==
  Undisturbed /\ ~options.delay
    => \A t \in Tips : tip[t].activeTrigger # {} => tip[t].shown /\ (tip[t].inPage \/ PutBack(t))

\* When the modal closes nothing wants the tips in it any longer, those on their way included,
\* however it is closed; a tooltip that is not told is one whose handler went when another one
\* in the modal was disposed of.
ModalTakesTips ==
  [][isShown[Around] /\ ~isShown'[Around] /\ Around \in live' /\ Undisturbed
       => \A t \in listens : tip'[t].activeTrigger = {} /\ tip'[t].hoverState # "show"]_vars

\* Whatever the order in which pointer, focus, clicks, delays and transitions come: a tip that
\* nothing wants leaves the page or becomes wanted again.  There are two exceptions.  Without a
\* fade it may stay there invisibly: hide() then looks at a hover state that it has yet to
\* reset.  And a tip that has been put back stays: _fixTransition() has forgotten its triggers,
\* and only another hide() takes it away.
Gone(t) == ~tip[t].inPage \/ (~tip[t].shown /\ ~tip[t].fades)
UnwantedTipLeaves ==
  \A t \in Tips :
    Undisturbed /\ tip[t].inPage /\ tip[t].activeTrigger = {}
      ~> Gone(t) \/ PutBack(t) \/ tip[t].activeTrigger # {}
================================================================================
