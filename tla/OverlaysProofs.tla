----------------------------- MODULE OverlaysProofs -----------------------------
(* Safety of a page with modals and tooltips, for any number of each, of their    *)
(* options and of calls.                                                          *)
EXTENDS OverlaysProps, SequenceTheorems, WellFoundedInduction, TLAPS

--------------------------------------------------------------------------------
(* The handlers that wait for a transition run one after another: what each of    *)
(* them keeps, all of them keep.  If some run of them did not there would be a    *)
(* first handler that did not.                                                    *)

LEMMA Least ==
  ASSUME NEW S \in SUBSET Nat, S # {}
  PROVE  \E x \in S : \A y \in S : x <= y
<1>1. PICK x \in S : \A y \in S : <<y, x>> \notin OpToRel(<, Nat)
  BY NatLessThanWellFounded, WFMin
<1>2. \A y \in S : ~(y < x)
  BY <1>1 DEF OpToRel
<1> QED BY <1>2

\* A run of the handlers that wait, n of them, all of whose states are in S.
Run(f, n, S, r, prevented) ==
  /\ f \in [0..n -> S]
  /\ f[0] = [r EXCEPT !.pending = <<>>]
  /\ \A k \in 1..n : f[k] = Completed(f[k - 1], r.pending[k], prevented)

LEMMA RunExists ==
  ASSUME NEW S, NEW r, NEW prevented, [r EXCEPT !.pending = <<>>] \in S,
         NEW n \in Nat,
         \A s \in S : \A k \in 1..n : Completed(s, r.pending[k], prevented) \in S
  PROVE  \E f : Run(f, n, S, r, prevented)
<1> DEFINE Without == {m \in 0..n : ~\E f : Run(f, m, S, r, prevented)}
<1> SUFFICES ASSUME Without # {} PROVE FALSE
  OBVIOUS
<1>1. PICK m \in Without : \A j \in Without : m <= j
  <2>1. Without \in SUBSET Nat
    OBVIOUS
  <2> HIDE DEF Without
  <2> QED BY <2>1, Least
<1> HIDE DEF Without
<1>2. m \in 0..n /\ ~\E f : Run(f, m, S, r, prevented)
  BY DEF Without
<1>3. CASE m = 0
  <2> DEFINE f == [k \in 0..0 |-> [r EXCEPT !.pending = <<>>]]
  <2>1. f \in [0..0 -> S] /\ f[0] = [r EXCEPT !.pending = <<>>]
    OBVIOUS
  <2>2. Run(f, 0, S, r, prevented)
    BY <2>1 DEF Run
  <2> QED BY <1>2, <1>3, <2>2
<1>4. CASE m > 0
  <2>1. m - 1 \in 0..n /\ m - 1 \notin Without
    BY <1>1, <1>2, <1>4
  <2>2. PICK f : Run(f, m - 1, S, r, prevented)
    BY <2>1 DEF Without
  <2> DEFINE last == Completed(f[m - 1], r.pending[m], prevented)
             g == [k \in 0..m |-> IF k = m THEN last ELSE f[k]]
  <2>3. f \in [0..(m - 1) -> S] /\ f[m - 1] \in S /\ m \in 1..n
    BY <1>2, <1>4, <2>2 DEF Run
  <2>4. last \in S
    BY <2>3
  <2> HIDE DEF last
  <2>5. g \in [0..m -> S] /\ g[0] = f[0]
    BY <1>2, <1>4, <2>3, <2>4
  <2>6. \A k \in 1..m : g[k] = Completed(g[k - 1], r.pending[k], prevented)
    <3> SUFFICES ASSUME NEW k \in 1..m PROVE g[k] = Completed(g[k - 1], r.pending[k], prevented)
      OBVIOUS
    <3>1. CASE k = m
      <4>1. g[k] = last /\ g[k - 1] = f[m - 1]
        BY <1>2, <1>4, <3>1
      <4> QED BY <3>1, <4>1 DEF last
    <3>2. CASE k # m
      <4>1. g[k] = f[k] /\ g[k - 1] = f[k - 1] /\ k \in 1..(m - 1)
        BY <1>2, <1>4, <3>2
      <4> QED BY <2>2, <4>1 DEF Run
    <3> QED BY <3>1, <3>2
  <2>7. Run(g, m, S, r, prevented)
    BY <2>2, <2>5, <2>6 DEF Run
  <2> QED BY <1>2, <2>7
<1> QED BY <1>2, <1>3, <1>4

\* What every handler preserves holds when all have run, and held before the last one did.
LEMMA HandlersStay ==
  ASSUME NEW S, NEW r, NEW prevented, [r EXCEPT !.pending = <<>>] \in S, Len(r.pending) \in Nat,
         \A s \in S : \A k \in 1..Len(r.pending) : Completed(s, r.pending[k], prevented) \in S
  PROVE  /\ TransitionDone(r, prevented) \in S
         /\ r.pending # <<>> /\ Len(r.pending) > 0
              => \E s \in S : TransitionDone(r, prevented)
                                 = Completed(s, r.pending[Len(r.pending)], prevented)
<1> DEFINE n == Len(r.pending)
           start == [r EXCEPT !.pending = <<>>]
           run == CHOOSE f : f = [k \in 0..n |-> IF k = 0 THEN start
                                                 ELSE Completed(f[k - 1], r.pending[k], prevented)]
<1>1. PICK f : Run(f, n, S, r, prevented)
  BY RunExists
<1>2. f = [k \in 0..n |-> IF k = 0 THEN start ELSE Completed(f[k - 1], r.pending[k], prevented)]
  BY <1>1 DEF Run
<1>3. run = [k \in 0..n |-> IF k = 0 THEN start ELSE Completed(run[k - 1], r.pending[k], prevented)]
  BY <1>2
<1>4. TransitionDone(r, prevented) = run[n]
  BY DEF TransitionDone
<1> HIDE DEF run, start
<1>5. run[0] = start /\ \A k \in 1..n : run[k] = Completed(run[k - 1], r.pending[k], prevented)
  BY <1>3
<1> DEFINE Outside == {k \in 0..n : run[k] \notin S}
<1>6. Outside = {}
  <2> SUFFICES ASSUME Outside # {} PROVE FALSE
    OBVIOUS
  <2>1. PICK m \in Outside : \A j \in Outside : m <= j
    <3>1. Outside \in SUBSET Nat
      OBVIOUS
    <3> HIDE DEF Outside
    <3> QED BY <3>1, Least
  <2>2. m \in 0..n /\ run[m] \notin S
    OBVIOUS
  <2>3. m # 0
    BY <1>5, <2>2 DEF start
  <2>4. m - 1 \in 0..n /\ m - 1 \notin Outside /\ m \in 1..n
    BY <2>1, <2>2, <2>3
  <2>5. run[m - 1] \in S
    BY <2>4
  <2> QED BY <1>5, <2>2, <2>4, <2>5
<1>7. n > 0 => n - 1 \in 0..n /\ n \in 1..n
  OBVIOUS
<1> QED BY <1>4, <1>5, <1>6, <1>7
--------------------------------------------------------------------------------
(* Tooltips. What is called on an instance leaves an instance.                  *)

Living == {r \in Instance : r.live}
Dead == [New EXCEPT !.live = FALSE]

LEMMA ChosenOptions == TipTypeOK => options.animation \in BOOLEAN /\ options.prevents \in BOOLEAN
  BY ChoicesAssumption DEF TipTypeOK, Options

LEMMA NewIsLiving == New \in Living
  BY EmptySeq DEF New, Living, Instance

LEMMA DeadIsInstance == Dead \in Instance /\ ~Dead.live
  BY EmptySeq DEF Dead, New, Instance

LEMMA HiddenStays ==
  ASSUME NEW r \in Living
  PROVE  HiddenDone(r) \in Living
  BY DEF HiddenDone, Living, Instance

\* A handler more leaves the rest of an instance alone.
LEMMA WaitsOnly ==
  ASSUME NEW r \in Living, NEW op \in {"shown", "hidden"}
  PROVE  LET s == [r EXCEPT !.pending = Append(@, op)] IN
         /\ s \in Living
         /\ s.isEnabled = r.isEnabled /\ s.timer = r.timer /\ s.hoverState = r.hoverState
         /\ s.shown = r.shown /\ s.inPage = r.inPage /\ s.fades = r.fades
         /\ s.activeTrigger = r.activeTrigger /\ s.placed = r.placed
         /\ s.pending # <<>> /\ s.pending[Len(s.pending)] = op
<1>1. r.pending \in Seq({"shown", "hidden"})
  BY DEF Living, Instance
<1>2. PICK q \in Seq({"shown", "hidden"}) : q = Append(r.pending, op) /\ q # <<>> /\ q[Len(q)] = op
  <2> DEFINE q == Append(r.pending, op)
  <2>1. /\ q \in Seq({"shown", "hidden"}) /\ q # <<>>
        /\ Len(q) = Len(r.pending) + 1 /\ q[Len(r.pending) + 1] = op
    BY <1>1, AppendProperties
  <2> HIDE DEF q
  <2>2. q[Len(q)] = op
    BY <2>1
  <2> QED BY <2>1, <2>2 DEF q
<1> DEFINE s == [r EXCEPT !.pending = q]
<1>3. /\ s \in Living
      /\ s.isEnabled = r.isEnabled /\ s.timer = r.timer /\ s.hoverState = r.hoverState
      /\ s.shown = r.shown /\ s.inPage = r.inPage /\ s.fades = r.fades
      /\ s.activeTrigger = r.activeTrigger /\ s.placed = r.placed /\ s.pending = q
  BY DEF Living, Instance
<1> QED BY <1>2, <1>3

LEMMA HideStays ==
  ASSUME NEW r \in Living, NEW p
  PROVE  HideTip(r, p) \in Living
<1> DEFINE left == [r EXCEPT !.shown = FALSE, !.activeTrigger = {}]
           done == IF left.fades THEN [left EXCEPT !.pending = Append(@, "hidden")] ELSE HiddenDone(left)
<1>1. left \in Living
  BY DEF Living, Instance
<1> HIDE DEF left
<1>2. [left EXCEPT !.pending = Append(@, "hidden")] \in Living
  BY <1>1, WaitsOnly
<1>3. done \in Living
  BY <1>1, <1>2, HiddenStays
<1> HIDE DEF done
<1>4. [done EXCEPT !.hoverState = ""] \in Living
  BY <1>3 DEF Living, Instance
<1> QED BY <1>4 DEF HideTip, done, left

LEMMA LeaveStays ==
  ASSUME NEW r \in Living, NEW triggers \in SUBSET Trigger, NEW p
  PROVE  Leave(r, triggers, p) \in Living
<1> DEFINE left == [r EXCEPT !.activeTrigger = @ \ triggers]
           out  == [left EXCEPT !.hoverState = "out", !.timer = "none"]
<1>1. left \in Living
  BY DEF Living, Instance
<1> HIDE DEF left
<1>2. out \in Living
  BY <1>1 DEF Living, Instance
<1> HIDE DEF out
<1>3. [out EXCEPT !.timer = "hide"] \in Living
  BY <1>2 DEF Living, Instance
<1>4. HideTip(out, p) \in Living
  BY <1>2, HideStays
<1> QED BY <1>1, <1>3, <1>4 DEF Leave, left, out

LEMMA AfterStays ==
  ASSUME NEW r \in Living, NEW p
  PROVE  AfterShown(r, p) \in Living
<1> DEFINE done == [r EXCEPT !.hoverState = ""]
<1>1. done \in Living
  BY DEF Living, Instance
<1> HIDE DEF done
<1>2. Leave(done, {}, p) \in Living
  BY <1>1, LeaveStays
<1> QED BY <1>1, <1>2 DEF AfterShown, done

LEMMA AppearsStays ==
  ASSUME NEW r \in Living, NEW fades \in BOOLEAN
  PROVE  Appears(r, fades) \in Living
  BY DEF Appears, Living, Instance

LEMMA ShownStays ==
  ASSUME NEW r \in Living, NEW p
  PROVE  ShownDone(r, p) \in Living
<1> DEFINE hidden == HideTip([r EXCEPT !.fades = FALSE], p)
<1>1. hidden \in Living
  <2>1. [r EXCEPT !.fades = FALSE] \in Living
    BY DEF Living, Instance
  <2> QED BY <2>1, HideStays
<1> HIDE DEF hidden
<1>2. AfterShown(Appears(hidden, FALSE), p) \in Living
  BY <1>1, AppearsStays, AfterStays
<1>3. FixTransition(r, p) \in Living
  BY <1>1, <1>2 DEF FixTransition, hidden
<1> QED BY <1>3, AfterStays DEF ShownDone

LEMMA ShowStays ==
  ASSUME TipTypeOK, NEW r \in Living, NEW p
  PROVE  ShowTip(r, p) \in Living
<1> DEFINE up == Appears(r, options.animation)
<1>1. up \in Living
  BY ChosenOptions, AppearsStays
<1> HIDE DEF up
<1>2. [up EXCEPT !.pending = Append(@, "shown")] \in Living
  BY <1>1, WaitsOnly
<1>3. ShownDone(up, p) \in Living
  BY <1>1, ShownStays
<1> QED BY <1>2, <1>3 DEF ShowTip, up

LEMMA EnterStays ==
  ASSUME TipTypeOK, NEW r \in Living, NEW triggers \in SUBSET Trigger, NEW p
  PROVE  Enter(r, triggers, p) \in Living
<1> DEFINE entered == [r EXCEPT !.activeTrigger = @ \cup triggers]
           coming  == [entered EXCEPT !.hoverState = "show", !.timer = "none"]
<1>1. entered \in Living
  BY DEF Living, Instance
<1> HIDE DEF entered
<1>2. [entered EXCEPT !.hoverState = "show"] \in Living /\ coming \in Living
  BY <1>1 DEF Living, Instance
<1> HIDE DEF coming
<1>3. [coming EXCEPT !.timer = "show"] \in Living
  BY <1>2 DEF Living, Instance
<1>4. ShowTip(coming, p) \in Living
  BY <1>2, ShowStays
<1> QED BY <1>2, <1>3, <1>4 DEF Enter, entered, coming

LEMMA ClickStays ==
  ASSUME TipTypeOK, NEW r \in Living, NEW p
  PROVE  ClickToggle(r, p) \in Living
<1> DEFINE clicks  == (r.activeTrigger \cup {"click"}) \ (r.activeTrigger \cap {"click"})
           clicked == [r EXCEPT !.activeTrigger = clicks]
<1>1. clicked \in Living
  BY DEF Living, Instance, Trigger
<1> HIDE DEF clicked
<1>2. Enter(clicked, {}, p) \in Living /\ Leave(clicked, {}, p) \in Living
  BY <1>1, EnterStays, LeaveStays
<1> QED BY <1>2 DEF ClickToggle, clicked

LEMMA ScriptStays ==
  ASSUME TipTypeOK, NEW r \in Living, NEW p
  PROVE  ScriptToggle(r, p) \in Living /\ [r EXCEPT !.isEnabled = ~@] \in Living
<1>1. Enter(r, {}, p) \in Living /\ Leave(r, {}, p) \in Living
  BY EnterStays, LeaveStays
<1>2. [r EXCEPT !.isEnabled = ~@] \in Living
  BY DEF Living, Instance
<1> QED BY <1>1, <1>2 DEF ScriptToggle

LEMMA TimerStays ==
  ASSUME TipTypeOK, NEW r \in Living, NEW p
  PROVE  TimerDone(r, p) \in Living
<1> DEFINE fired == [r EXCEPT !.timer = "none"]
<1>1. fired \in Living
  BY DEF Living, Instance
<1> HIDE DEF fired
<1>2. ShowTip(fired, p) \in Living /\ HideTip(fired, p) \in Living
  BY <1>1, ShowStays, HideStays
<1> QED BY <1>1, <1>2 DEF TimerDone, fired

LEMMA TransitionStays ==
  ASSUME NEW r \in Living, NEW p
  PROVE  TransitionDone(r, p) \in Living
<1>1. [r EXCEPT !.pending = <<>>] \in Living
  BY EmptySeq DEF Living, Instance
<1>2. Len(r.pending) \in Nat
  BY LenProperties DEF Living, Instance
<1>3. \A s \in Living : \A k \in 1..Len(r.pending) : Completed(s, r.pending[k], p) \in Living
  BY HiddenStays, ShownStays DEF Completed
<1> QED BY <1>1, <1>2, <1>3, HandlersStay
--------------------------------------------------------------------------------
(* A tip that is left alone: it is enabled, no timer runs, and whoever wants it  *)
(* sees it.                                                                     *)

Able(r) == /\ r.isEnabled /\ r.timer = "none" /\ (r.placed => r.inPage)
           /\ ~options.animation => ~r.fades /\ r.pending = <<>>

\* While handlers run: whatever wants the tip, it has the class "show".
Calm(r) == /\ Able(r) /\ r.hoverState # "out"
           /\ r.hoverState = "show" \/ r.activeTrigger # {} => r.shown

\* Between the runs: the last handler that waits on a tip that fades in is that of its show().
Seen(r) == /\ ~options.animation => (r.shown => r.placed)
           /\ r.shown /\ r.fades
                => /\ r.inPage
                   /\ r.pending # <<>> => r.pending[Len(r.pending)] = "shown"

Satisfied == {r \in Living : Calm(r) /\ Seen(r)}

LEMMA HideSatisfies ==
  ASSUME TipTypeOK, NEW r \in Living, Able(r)
  PROVE  HideTip(r, {}) \in Satisfied
<1> DEFINE left == [r EXCEPT !.shown = FALSE, !.activeTrigger = {}]
           waiting == [left EXCEPT !.pending = Append(@, "hidden")]
           done == IF left.fades THEN waiting ELSE HiddenDone(left)
           Left(s) == Able(s) /\ ~s.shown /\ s.activeTrigger = {}
<1>1. left \in Living /\ Left(left)
  BY DEF Living, Instance, Able
<1> HIDE DEF left
<1>2. left.fades => waiting \in Living /\ Left(waiting)
  <2> SUFFICES ASSUME left.fades PROVE waiting \in Living /\ Left(waiting)
    OBVIOUS
  <2>1. options.animation
    BY <1>1 DEF Able
  <2>2. /\ waiting \in Living
        /\ waiting.isEnabled = left.isEnabled /\ waiting.timer = left.timer
        /\ waiting.shown = left.shown /\ waiting.activeTrigger = left.activeTrigger
        /\ waiting.placed = left.placed /\ waiting.inPage = left.inPage
    BY <1>1, WaitsOnly
  <2> HIDE DEF waiting
  <2> QED BY <1>1, <2>1, <2>2 DEF Able
<1> HIDE DEF waiting
<1>3. HiddenDone(left) \in Living /\ Left(HiddenDone(left))
  BY <1>1 DEF HiddenDone, Living, Instance, Able
<1>4. done \in Living /\ Left(done)
  BY <1>2, <1>3
<1> HIDE DEF done
<1>5. [done EXCEPT !.hoverState = ""] \in Satisfied
  BY <1>4 DEF Living, Instance, Able, Calm, Satisfied, Seen
<1> QED BY <1>5 DEF HideTip, done, left, waiting

LEMMA LeaveSatisfies ==
  ASSUME TipTypeOK, ~options.delay, NEW r \in Satisfied, NEW triggers \in SUBSET Trigger
  PROVE  Leave(r, triggers, {}) \in Satisfied
<1> DEFINE left == [r EXCEPT !.activeTrigger = @ \ triggers]
           out  == [left EXCEPT !.hoverState = "out", !.timer = "none"]
<1>1. left \in Satisfied
  BY DEF Satisfied, Calm, Able, Seen, Living, Instance
<1> HIDE DEF left
<1>2. out \in Living /\ Able(out)
  BY <1>1 DEF Satisfied, Calm, Able, Living, Instance
<1> HIDE DEF out
<1>3. HideTip(out, {}) \in Satisfied
  BY <1>2, HideSatisfies
<1> QED BY <1>1, <1>3 DEF Leave, left, out

\* Nothing has left, so that the completion of show() only resets the hover state.
LEMMA AfterResets ==
  ASSUME NEW r, r.hoverState # "out", NEW p
  PROVE  AfterShown(r, p) = [r EXCEPT !.hoverState = ""]
  BY DEF AfterShown

LEMMA ShowSatisfies ==
  ASSUME TipTypeOK, ~options.delay, NEW r \in Living, Able(r), r.hoverState # "out"
  PROVE  ShowTip(r, {}) \in Satisfied
<1> DEFINE up == Appears(r, options.animation)
           waiting == [up EXCEPT !.pending = Append(@, "shown")]
<1>1. /\ up \in Living /\ Able(up) /\ up.hoverState # "out"
      /\ up.shown /\ up.inPage /\ up.placed /\ up.fades = options.animation
  BY ChosenOptions DEF Appears, Able, Living, Instance
<1> HIDE DEF up
<1>2. up.fades => waiting \in Satisfied
  <2> SUFFICES ASSUME up.fades PROVE waiting \in Satisfied
    OBVIOUS
  <2>1. options.animation
    BY <1>1
  <2>2. /\ waiting \in Living
        /\ waiting.isEnabled = up.isEnabled /\ waiting.timer = up.timer
        /\ waiting.hoverState = up.hoverState /\ waiting.inPage = up.inPage
        /\ waiting.shown = up.shown /\ waiting.pending[Len(waiting.pending)] = "shown"
    BY <1>1, WaitsOnly
  <2> HIDE DEF waiting
  <2> QED BY <1>1, <2>1, <2>2 DEF Satisfied, Calm, Able, Seen
<1>3. ShownDone(up, {}) = [up EXCEPT !.hoverState = ""]
  BY <1>1, AfterResets DEF ShownDone
<1>4. ~up.fades => [up EXCEPT !.hoverState = ""] \in Satisfied
  BY <1>1 DEF Satisfied, Calm, Able, Seen, Living, Instance
<1> QED BY <1>2, <1>3, <1>4 DEF ShowTip, up, Able

Coming(r) == r.hoverState # "out" /\ (r.hoverState = "show" => r.shown)

LEMMA EnterSatisfies ==
  ASSUME TipTypeOK, ~options.delay, NEW r \in Living, Able(r), Seen(r), Coming(r),
         NEW triggers \in SUBSET Trigger
  PROVE  Enter(r, triggers, {}) \in Satisfied
<1> DEFINE entered == [r EXCEPT !.activeTrigger = @ \cup triggers]
           coming  == [entered EXCEPT !.hoverState = "show", !.timer = "none"]
<1>1. entered \in Living /\ Able(entered) /\ Seen(entered) /\ Coming(entered)
  BY DEF Able, Seen, Coming, Living, Instance
<1> HIDE DEF entered
<1>2. entered.shown \/ entered.hoverState = "show" => [entered EXCEPT !.hoverState = "show"] \in Satisfied
  BY <1>1 DEF Satisfied, Calm, Able, Seen, Coming, Living, Instance
<1>3. coming \in Living /\ Able(coming) /\ coming.hoverState # "out"
  BY <1>1 DEF Able, Living, Instance
<1> HIDE DEF coming
<1>4. ShowTip(coming, {}) \in Satisfied
  BY <1>3, ShowSatisfies
<1> QED BY <1>2, <1>4 DEF Enter, entered, coming

LEMMA ClickSatisfies ==
  ASSUME TipTypeOK, ~options.delay, NEW r \in Satisfied
  PROVE  ClickToggle(r, {}) \in Satisfied
<1> DEFINE clicks  == (r.activeTrigger \cup {"click"}) \ (r.activeTrigger \cap {"click"})
           clicked == [r EXCEPT !.activeTrigger = clicks]
<1>1. clicked \in Living /\ Able(clicked) /\ Seen(clicked) /\ Coming(clicked)
      /\ (clicks = {} => clicked \in Satisfied)
  BY DEF Satisfied, Calm, Able, Seen, Coming, Living, Instance, Trigger
<1> HIDE DEF clicked
<1>2. Enter(clicked, {}, {}) \in Satisfied
  BY <1>1, EnterSatisfies
<1>3. clicks = {} => Leave(clicked, {}, {}) \in Satisfied
  BY <1>1, LeaveSatisfies
<1> QED BY <1>2, <1>3 DEF ClickToggle, clicked, Satisfied, Calm, Able

\* What every handler keeps while they run, and what it keeps if the tip did not fade in.
Running == {r \in Living : Calm(r) /\ r.pending = <<>>}
Unfaded == {r \in Running : ~(r.shown /\ r.fades)}

\* The completion of show(): the tip is in the page, or it is put back without its fade.
LEMMA ShownRuns ==
  ASSUME options.animation, NEW r \in Running
  PROVE  /\ ShownDone(r, {}) \in Running
         /\ ShownDone(r, {}).shown /\ ShownDone(r, {}).fades
              => ShownDone(r, {}).inPage /\ r.shown /\ r.fades
<1> DEFINE bare == [r EXCEPT !.fades = FALSE]
           left == [bare EXCEPT !.shown = FALSE, !.activeTrigger = {}]
           gone == [HiddenDone(left) EXCEPT !.hoverState = ""]
           back == Appears(gone, FALSE)
<1>1. left \in Living /\ ~left.fades /\ left.isEnabled /\ left.timer = "none" /\ left.pending = <<>>
      /\ left.activeTrigger = {} /\ bare.fades = FALSE
  BY DEF Running, Calm, Able, Living, Instance
<1>2. HideTip(bare, {}) = gone
  BY <1>1 DEF HideTip
<1> HIDE DEF left
<1>3. /\ gone \in Living /\ gone.isEnabled /\ gone.timer = "none" /\ gone.pending = <<>>
      /\ gone.activeTrigger = {} /\ gone.hoverState = ""
  BY <1>1 DEF HiddenDone, Living, Instance
<1> HIDE DEF gone
<1>4. back \in Running /\ ~back.fades
  BY <1>3 DEF Appears, Running, Calm, Able, Living, Instance
<1>5. FixTransition(r, {}) = [back EXCEPT !.hoverState = ""]
  <2>1. back.hoverState # "out"
    BY <1>4 DEF Running, Calm
  <2>2. AfterShown(back, {}) = [back EXCEPT !.hoverState = ""]
    BY <2>1, AfterResets
  <2> QED BY <1>2, <1>3, <2>2 DEF FixTransition
<1> HIDE DEF back
<1>6. ASSUME NEW s \in Running
      PROVE  /\ AfterShown(s, {}) \in Running
             /\ AfterShown(s, {}).shown = s.shown /\ AfterShown(s, {}).fades = s.fades
             /\ AfterShown(s, {}).inPage = s.inPage
  <2>1. AfterShown(s, {}) = [s EXCEPT !.hoverState = ""]
    BY AfterResets DEF Running, Calm
  <2>2. /\ [s EXCEPT !.hoverState = ""] \in Running
        /\ [s EXCEPT !.hoverState = ""].shown = s.shown /\ [s EXCEPT !.hoverState = ""].fades = s.fades
        /\ [s EXCEPT !.hoverState = ""].inPage = s.inPage
    BY DEF Running, Calm, Able, Living, Instance
  <2> QED BY <2>1, <2>2
<1>7. CASE r.placed
  <2>1. ShownDone(r, {}) = AfterShown(r, {})
    BY <1>7 DEF ShownDone
  <2>2. r.inPage
    BY <1>7 DEF Running, Calm, Able
  <2> QED BY <1>6, <2>1, <2>2
<1>8. CASE ~r.placed
  <2>1. [back EXCEPT !.hoverState = ""] \in Running /\ ~[back EXCEPT !.hoverState = ""].fades
    BY <1>4 DEF Running, Calm, Able, Living, Instance
  <2>2. ShownDone(r, {}) = AfterShown([back EXCEPT !.hoverState = ""], {})
    BY <1>5, <1>8 DEF ShownDone
  <2> QED BY <1>6, <2>1, <2>2
<1> QED BY <1>7, <1>8

LEMMA HiddenRuns ==
  ASSUME NEW r \in Running
  PROVE  /\ HiddenDone(r) \in Running
         /\ HiddenDone(r).shown = r.shown /\ HiddenDone(r).fades = r.fades
  BY DEF HiddenDone, Running, Calm, Able, Living, Instance

LEMMA TransitionSatisfies ==
  ASSUME TipTypeOK, ~options.delay, NEW r \in Satisfied, r.pending # <<>>
  PROVE  TransitionDone(r, {}) \in Satisfied
<1> DEFINE start == [r EXCEPT !.pending = <<>>]
           n == Len(r.pending)
<1>1. options.animation
  BY DEF Satisfied, Calm, Able
<1>2. start \in Running /\ start.shown = r.shown /\ start.fades = r.fades
  BY <1>1, EmptySeq DEF Satisfied, Calm, Able, Running, Living, Instance
<1>3. n \in Nat /\ n > 0
  <2>1. r.pending \in Seq({"shown", "hidden"})
    BY DEF Satisfied, Living, Instance
  <2>2. n \in Nat \ {0}
    BY <2>1, EmptySeq
  <2> QED BY <2>2
<1>4. \A s \in Running : \A op : Completed(s, op, {}) \in Running
  BY <1>1, ShownRuns, HiddenRuns DEF Completed
<1>5. /\ TransitionDone(r, {}) \in Running
      /\ \E s \in Running : TransitionDone(r, {}) = Completed(s, r.pending[n], {})
  <2>1. \A s \in Running : \A k \in 1..Len(r.pending) : Completed(s, r.pending[k], {}) \in Running
    BY <1>4
  <2> QED BY <1>2, <1>3, <2>1, HandlersStay
<1>6. CASE r.shown /\ r.fades
  <2>1. Seen(r)
    BY DEF Satisfied
  <2>2. r.pending[Len(r.pending)] = "shown"
    BY <1>6, <2>1 DEF Seen
  <2>3. PICK s \in Running : TransitionDone(r, {}) = ShownDone(s, {})
    BY <1>5, <2>2 DEF Completed
  <2> QED BY <1>1, <1>5, <2>3, ShownRuns DEF Running, Satisfied, Seen
<1>7. CASE ~(r.shown /\ r.fades)
  <2>1. start \in Unfaded
    BY <1>2, <1>7 DEF Unfaded
  <2>2. ASSUME NEW s \in Unfaded, NEW op PROVE Completed(s, op, {}) \in Unfaded
    <3>1. s \in Running /\ ~(s.shown /\ s.fades)
      BY DEF Unfaded
    <3>2. ShownDone(s, {}) \in Unfaded
      BY <1>1, <3>1, ShownRuns DEF Unfaded
    <3>3. HiddenDone(s) \in Unfaded
      BY <3>1, HiddenRuns DEF Unfaded
    <3> QED BY <3>2, <3>3 DEF Completed
  <2>3. TransitionDone(r, {}) \in Unfaded
    <3>1. \A s \in Unfaded : \A k \in 1..Len(r.pending) : Completed(s, r.pending[k], {}) \in Unfaded
      BY <2>2
    <3> QED BY <1>3, <2>1, <3>1, HandlersStay
  <2> QED BY <1>1, <2>3 DEF Unfaded, Running, Satisfied, Seen
<1> QED BY <1>6, <1>7

\* What every call on a living instance that the page allows keeps in S.
Kept(S) ==
  \A r \in S, p \in Prevented :
    /\ \A triggers \in SUBSET Trigger : Enter(r, triggers, p) \in S /\ Leave(r, triggers, p) \in S
    /\ ClickToggle(r, p) \in S /\ HideTip(r, p) \in S
    /\ r.timer # "none" => TimerDone(r, p) \in S
    /\ r.pending # <<>> => TransitionDone(r, p) \in S
    /\ options.scripted => /\ ShowTip(r, p) \in S /\ ScriptToggle(r, p) \in S
                           /\ [r EXCEPT !.isEnabled = ~@] \in S

LEMMA LivingKept == TipTypeOK => Kept(Living)
<1> SUFFICES ASSUME TipTypeOK, NEW r \in Living, NEW p \in Prevented
             PROVE  /\ \A triggers \in SUBSET Trigger :
                         Enter(r, triggers, p) \in Living /\ Leave(r, triggers, p) \in Living
                    /\ ClickToggle(r, p) \in Living /\ HideTip(r, p) \in Living
                    /\ TimerDone(r, p) \in Living /\ TransitionDone(r, p) \in Living
                    /\ ShowTip(r, p) \in Living /\ ScriptToggle(r, p) \in Living
                    /\ [r EXCEPT !.isEnabled = ~@] \in Living
  BY DEF Kept
<1>2. \A triggers \in SUBSET Trigger :
        Enter(r, triggers, p) \in Living /\ Leave(r, triggers, p) \in Living
  BY EnterStays, LeaveStays
<1>3. ClickToggle(r, p) \in Living /\ HideTip(r, p) \in Living
  BY ClickStays, HideStays
<1>4. TimerDone(r, p) \in Living /\ TransitionDone(r, p) \in Living
  BY TimerStays, TransitionStays
<1>5. /\ ShowTip(r, p) \in Living /\ ScriptToggle(r, p) \in Living
      /\ [r EXCEPT !.isEnabled = ~@] \in Living
  BY ShowStays, ScriptStays
<1> QED BY <1>2, <1>3, <1>4, <1>5

LEMMA SatisfiedKept ==
  ASSUME TipTypeOK, Undisturbed, ~options.delay
  PROVE  Kept(Satisfied)
<1>1. ~options.scripted /\ \A p \in Prevented : p = {}
  BY DEF Prevented, Undisturbed
<1> SUFFICES ASSUME NEW r \in Satisfied
             PROVE  /\ \A triggers \in SUBSET Trigger :
                         Enter(r, triggers, {}) \in Satisfied /\ Leave(r, triggers, {}) \in Satisfied
                    /\ ClickToggle(r, {}) \in Satisfied /\ HideTip(r, {}) \in Satisfied
                    /\ r.timer = "none"
                    /\ r.pending # <<>> => TransitionDone(r, {}) \in Satisfied
  BY <1>1 DEF Kept
<1>2. r \in Living /\ Able(r) /\ Seen(r) /\ Coming(r) /\ r.timer = "none"
  BY DEF Satisfied, Calm, Able, Coming
<1>3. \A triggers \in SUBSET Trigger :
        Enter(r, triggers, {}) \in Satisfied /\ Leave(r, triggers, {}) \in Satisfied
  BY <1>2, EnterSatisfies, LeaveSatisfies
<1>4. ClickToggle(r, {}) \in Satisfied /\ HideTip(r, {}) \in Satisfied
  BY <1>2, ClickSatisfies, HideSatisfies
<1> QED BY <1>2, <1>3, <1>4, TransitionSatisfies

--------------------------------------------------------------------------------
(* The steps: what a step does to the modals, and what it does to the tooltips. *)

Mouse(m) == Press(m) \/ ClickIgnored(m) \/ \E around \in BOOLEAN : Release(m, around)

LEMMA ModalSteps ==
  ASSUME Next
  PROVE  \/ \E m \in Modals : \/ Show(m)
                              \/ Hide(m) /\ TipsOfStep(m)
                              \/ Mouse(m) \/ Dispose(m) \/ Transition(m)
         \/ UNCHANGED modalVars
<1>1. ASSUME NEW m \in Modals,
             ToggleModal(m) \/ DismissModal(m) \/ HideModal(m) \/ ClickBeside(m)
      PROVE  Show(m) \/ (Hide(m) /\ TipsOfStep(m))
  BY <1>1 DEF ToggleModal, Toggle, DismissModal, Dismiss, HideModal, ClickBeside, ClickAround
<1>2. ASSUME NEW m \in Modals,
             ShowModal(m) \/ DisposeModal(m) \/ MouseOnModal(m) \/ ModalMoves(m)
      PROVE  Show(m) \/ Mouse(m) \/ Dispose(m) \/ Transition(m)
  BY <1>2 DEF ShowModal, DisposeModal, MouseOnModal, ModalMoves, Mouse
<1>3. ASSUME NEW t \in Tips, Visit(t) \/ ScriptTip(t) \/ TimerFires(t) \/ TipMoves(t)
      PROVE  UNCHANGED modalVars
  BY <1>3 DEF Visit, ScriptTip, TimerFires, TipMoves
<1> QED BY <1>1, <1>2, <1>3 DEF Next

CallOn(t) == MouseEnter(t) \/ MouseLeave(t) \/ FocusIn(t) \/ FocusOut(t) \/ Click(t)
             \/ ScriptCall(t) \/ TipTimer(t) \/ TipTransition(t)

LEMMA TipSteps ==
  ASSUME Next
  PROVE  \/ \E t \in Tips : CallOn(t) \/ DisposeTip(t) \/ Create(t)
         \/ HideAll
         \/ listens' \in {{}, listens} /\ UNCHANGED <<options, tip>>
<1>1. ASSUME NEW m \in Modals,
             ToggleModal(m) \/ DismissModal(m) \/ HideModal(m) \/ ClickBeside(m)
      PROVE  HideAll \/ UNCHANGED tipVars
  BY <1>1 DEF ToggleModal, DismissModal, HideModal, ClickBeside, TipsOfStep
<1>2. ASSUME NEW m \in Modals,
             ShowModal(m) \/ DisposeModal(m) \/ MouseOnModal(m) \/ ModalMoves(m)
      PROVE  listens' \in {{}, listens} /\ UNCHANGED <<options, tip>>
  BY <1>2 DEF ShowModal, DisposeModal, MouseOnModal, ModalMoves, tipVars
<1>3. ASSUME NEW t \in Tips, Visit(t) \/ ScriptTip(t) \/ TimerFires(t) \/ TipMoves(t)
      PROVE  CallOn(t) \/ DisposeTip(t) \/ Create(t)
  BY <1>3 DEF Visit, ScriptTip, TimerFires, TipMoves, CallOn
<1> QED BY <1>1, <1>2, <1>3 DEF Next, tipVars

\* A step leaves every tooltip dead, in what its calls keep, or new.
LEMMA TipsStay ==
  ASSUME TipTypeOK, NEW S \in SUBSET Living, New \in S, Kept(S), tip \in [Tips -> S \cup {Dead}], Next
  PROVE  /\ tip' \in [Tips -> S \cup {Dead}]
         /\ options' = options /\ listens' \in SUBSET Tips
<1>1. listens \in SUBSET Tips
  BY DEF TipTypeOK
<1>2. \A t \in Tips : tip[t].live => tip[t] \in S
  BY DeadIsInstance
<1>3. \A t \in Tips : tip[t].timer # "none" \/ tip[t].pending # <<>> => tip[t] \in S
  <2>1. Dead.timer = "none" /\ Dead.pending = <<>>
    BY DEF Dead, New
  <2>2. \A t \in Tips : tip[t] \in S \/ tip[t] = Dead
    OBVIOUS
  <2> QED BY <2>1, <2>2
<1>4. ASSUME NEW t \in Tips, NEW r \in S, Becomes(t, r)
      PROVE  tip' \in [Tips -> S \cup {Dead}] /\ options' = options /\ listens' \in SUBSET Tips
  BY <1>1, <1>4 DEF Becomes
<1>5. ASSUME NEW t \in Tips, CallOn(t)
      PROVE  \E r \in S : Becomes(t, r)
  <2>1. CASE MouseEnter(t) \/ MouseLeave(t) \/ FocusIn(t) \/ FocusOut(t) \/ Click(t)
    BY <1>2, <2>1 DEF MouseEnter, MouseLeave, FocusIn, FocusOut, Click, Kept, Trigger
  <2>2. CASE ScriptCall(t)
    BY <1>2, <2>2 DEF ScriptCall, Kept
  <2>3. CASE TipTimer(t) \/ TipTransition(t)
    BY <1>3, <2>3 DEF TipTimer, TipTransition, Kept
  <2> QED BY <1>5, <2>1, <2>2, <2>3 DEF CallOn
<1>6. ASSUME NEW t \in Tips, DisposeTip(t) \/ Create(t)
      PROVE  tip' \in [Tips -> S \cup {Dead}] /\ options' = options /\ listens' \in SUBSET Tips
  BY <1>1, <1>6 DEF DisposeTip, Create, ListensAfter, Dead
<1>7. ASSUME HideAll
      PROVE  tip' \in [Tips -> S \cup {Dead}] /\ options' = options /\ listens' \in SUBSET Tips
  <2>1. PICK p \in [Tips -> Prevented] :
          tip' = [t \in Tips |-> IF t \in listens /\ tip[t].live THEN HideTip(tip[t], p[t]) ELSE tip[t]]
    BY <1>7 DEF HideAll
  <2>2. \A t \in Tips : tip[t].live => HideTip(tip[t], p[t]) \in S
    BY <1>2 DEF Kept
  <2> QED BY <1>1, <1>7, <2>1, <2>2 DEF HideAll
<1> QED BY <1>1, <1>4, <1>5, <1>6, <1>7, TipSteps

TipInv ==
  /\ options \in Manners /\ listens \in SUBSET Tips
  /\ tip \in [Tips -> Living \cup {Dead}]
  /\ Undisturbed /\ ~options.delay => tip \in [Tips -> Satisfied \cup {Dead}]

LEMMA TipInvTypes == TipInv => TipTypeOK
  BY DeadIsInstance DEF TipInv, TipTypeOK, Living

LEMMA NewIsSatisfied == New \in Satisfied
  BY NewIsLiving DEF Satisfied, Calm, Able, Seen, New

LEMMA TipInvInit == TipInit => TipInv
  BY NewIsLiving, NewIsSatisfied DEF TipInit, TipInv

LEMMA TipInvNext == TipInv /\ [Next]_vars => TipInv'
<1> SUFFICES ASSUME TipInv, [Next]_vars PROVE TipInv'
  OBVIOUS
<1>1. CASE Next
  <2>1. TipTypeOK
    BY TipInvTypes
  <2>2. tip' \in [Tips -> Living \cup {Dead}] /\ options' = options /\ listens' \in SUBSET Tips
    BY <1>1, <2>1, TipsStay, NewIsLiving, LivingKept DEF TipInv
  <2>3. ASSUME Undisturbed, ~options.delay PROVE tip' \in [Tips -> Satisfied \cup {Dead}]
    BY <1>1, <2>1, <2>3, TipsStay, NewIsSatisfied, SatisfiedKept DEF TipInv, Satisfied
  <2>4. Satisfied' = Satisfied
    BY <2>2 DEF Satisfied, Calm, Able, Seen
  <2> QED BY <2>2, <2>3, <2>4 DEF TipInv, Undisturbed
<1>2. CASE UNCHANGED vars
  BY <1>2 DEF vars, tipVars, TipInv, Undisturbed, Satisfied, Calm, Able, Seen
<1> QED BY <1>1, <1>2

--------------------------------------------------------------------------------
(* The modals.                                                                  *)

\* A modal waits for a transition only while its flag is set, and the removal of its own
\* backdrop is the last thing that it waits for.
FlagInv ==
  \A m \in Modals :
    /\ waits[m] \in {"backdrop", "dialog"} => isShown[m] /\ isTransitioning[m]
    /\ waits[m] = "element" => ~isShown[m] /\ isTransitioning[m]
    /\ leaving[m] = "own" => ~isShown[m] /\ waits[m] = "nothing"

\* While no script disposes of a modal what is to be restored is the page without a modal, and
\* a page with the class "modal-open" has a modal that will take it off.
BodyInv ==
  ~page.disposes => /\ saved = 0 /\ (bodyOpen \/ padding = 0)
                    /\ \A m \in Modals : leaving[m] # "dead"
                    /\ bodyOpen => \E m \in Modals : ~Closed(m)

ModalInv == ModalTypeOK /\ HandlersOfShown /\ FlagWillClear /\ FlagInv /\ BodyInv

LEMMA ModalInvInit == ModalInit => ModalInv
<1> SUFFICES ASSUME ModalInit PROVE ModalInv
  OBVIOUS
<1>1. ModalTypeOK
  BY DEF ModalInit, ModalTypeOK, No
<1>2. HandlersOfShown /\ FlagWillClear /\ FlagInv
  BY DEF ModalInit, No, HandlersOfShown, FlagWillClear, FlagInv
<1>3. BodyInv
  BY DEF ModalInit, BodyInv
<1> QED BY <1>1, <1>2, <1>3 DEF ModalInv

LEMMA ChosenPage ==
  ModalTypeOK => /\ page.fade \in BOOLEAN /\ page.prevents \in BOOLEAN /\ page.disposes \in BOOLEAN
                 /\ page.overflows \in BOOLEAN /\ HasBackdrop \in BOOLEAN
  BY PagesAssumption DEF ModalTypeOK, Page, HasBackdrop

LEMMA BodyTyped ==
  ASSUME ModalTypeOK, ResetBody \/ (bodyOpen' = FALSE /\ UNCHANGED <<padding, saved>>) \/ UNCHANGED bodyVars
  PROVE  bodyOpen' \in BOOLEAN /\ padding' \in Nat /\ saved' \in Nat
<1>1. CASE ResetBody
  BY <1>1 DEF ModalTypeOK, ResetBody
<1>2. CASE bodyOpen' = FALSE /\ UNCHANGED <<padding, saved>>
  BY <1>2 DEF ModalTypeOK
<1>3. CASE UNCHANGED bodyVars
  BY <1>3 DEF ModalTypeOK, bodyVars
<1> QED BY <1>1, <1>2, <1>3

LEMMA ShowStartsOK ==
  ASSUME ModalInv, NEW m \in Modals, ShowStarts(m), ~isShown[m], ~isTransitioning[m],
         live' = live \cup {m}, UNCHANGED <<page, stray, mouseVars>>
  PROVE  ModalInv'
<1>1. ModalTypeOK'
  BY ChosenPage DEF ModalInv, ModalTypeOK, ShowStarts, SetScrollbar, NewBackdrop, mouseVars
<1>2. HandlersOfShown'
  BY NobodyAssumption DEF ModalInv, ModalTypeOK, ShowStarts, HandlersOfShown
<1>3. FlagWillClear'
  BY ChosenPage DEF ModalInv, ModalTypeOK, ShowStarts, NewBackdrop, FlagWillClear
<1>4. FlagInv'
  BY ChosenPage DEF ModalInv, ModalTypeOK, ShowStarts, NewBackdrop, FlagInv
<1>5. BodyInv'
  <2>1. ~Closed(m)'
    BY DEF ModalInv, ModalTypeOK, ShowStarts, Closed
  <2> QED BY <2>1 DEF ModalInv, ModalTypeOK, ShowStarts, SetScrollbar, NewBackdrop, BodyInv
<1> QED BY <1>1, <1>2, <1>3, <1>4, <1>5 DEF ModalInv

LEMMA RefusedOK ==
  ASSUME ModalInv, NEW m \in Modals, Refused, live' = live \cup {m}, UNCHANGED <<page, stray, mouseVars>>
  PROVE  ModalInv'
  BY DEF ModalInv, ModalTypeOK, Refused, HandlersOfShown, FlagWillClear, FlagInv, BodyInv, Closed,
         mouseVars, bodyVars

LEMMA ShowPreventedOK ==
  ASSUME ModalInv, NEW m \in Modals, ShowPrevented(m), ~isShown[m], ~isTransitioning[m],
         live' = live \cup {m}, UNCHANGED <<page, stray, mouseVars>>
  PROVE  ModalInv'
<1>1. ModalTypeOK'
  BY ChosenPage DEF ModalInv, ModalTypeOK, ShowPrevented, mouseVars, bodyVars
<1>2. HandlersOfShown' /\ FlagWillClear'
  BY DEF ModalInv, ModalTypeOK, ShowPrevented, HandlersOfShown, FlagWillClear
<1>3. FlagInv'
  BY DEF ModalInv, ModalTypeOK, ShowPrevented, FlagInv
<1>4. BodyInv'
  BY DEF ModalInv, ModalTypeOK, ShowPrevented, BodyInv, Closed, bodyVars
<1> QED BY <1>1, <1>2, <1>3, <1>4 DEF ModalInv

LEMMA HideStartsOK ==
  ASSUME ModalInv, NEW m \in Modals, HideStarts(m), HideFires(m),
         live' = live \cup {m}, UNCHANGED <<page, stray, mouseVars>>
  PROVE  ModalInv'
<1>1. ModalTypeOK'
  <2>1. bodyOpen' \in BOOLEAN /\ padding' \in Nat /\ saved' \in Nat
    <3>1. ResetBody \/ (bodyOpen' = FALSE /\ UNCHANGED <<padding, saved>>) \/ UNCHANGED bodyVars
      BY DEF HideStarts
    <3> QED BY <3>1, BodyTyped DEF ModalInv
  <2>2. /\ page' \in Pages /\ live' \in SUBSET Modals
        /\ isShown' \in [Modals -> BOOLEAN] /\ isTransitioning' \in [Modals -> BOOLEAN]
        /\ ignoreBackdropClick' \in [Modals -> BOOLEAN] /\ pressed' \in [Modals -> BOOLEAN]
        /\ displayed' \in [Modals -> BOOLEAN] /\ backdrop' \in [Modals -> BOOLEAN]
        /\ stray' \in [Modals -> BOOLEAN]
    BY ChosenPage DEF ModalInv, ModalTypeOK, HideStarts, mouseVars
  <2>3. /\ waits' \in [Modals -> {"nothing", "backdrop", "dialog", "element"}]
        /\ leaving' \in [Modals -> {"none", "own", "old", "dead"}]
        /\ trap' \in Modals \cup {Nobody} /\ resizing' \in SUBSET Modals
    BY DEF ModalInv, ModalTypeOK, HideStarts, TrapAfterHide
  <2> QED BY <2>1, <2>2, <2>3 DEF ModalTypeOK
<1>2. HandlersOfShown'
  BY DEF HideStarts, HandlersOfShown, TrapAfterHide
<1>3. FlagWillClear'
  BY ChosenPage DEF ModalInv, ModalTypeOK, HideStarts, FlagWillClear
<1>4. FlagInv'
  BY ChosenPage DEF ModalInv, ModalTypeOK, HideStarts, FlagInv, HideFires
<1>5. BodyInv'
  <2>1. CASE page.fade
    <3>1. ~Closed(m)'
      BY <2>1 DEF ModalInv, ModalTypeOK, HideStarts, Closed
    <3> QED BY <2>1, <3>1 DEF ModalInv, HideStarts, BodyInv, bodyVars
  <2>2. CASE ~page.fade
    BY <2>2 DEF ModalInv, ModalTypeOK, HideStarts, BodyInv, ResetBody
  <2> QED BY <2>1, <2>2
<1> QED BY <1>1, <1>2, <1>3, <1>4, <1>5 DEF ModalInv

LEMMA MouseOK == ASSUME ModalInv, NEW m \in Modals, Mouse(m) PROVE ModalInv'
<1>1. UNCHANGED <<page, live, isShown, isTransitioning, waits, displayed, backdrop, leaving, stray,
                  bodyVars, trap, resizing>>
  BY DEF Mouse, Press, ClickIgnored, Release
<1>2. ignoreBackdropClick' \in [Modals -> BOOLEAN] /\ pressed' \in [Modals -> BOOLEAN]
  <2>1. CASE Press(m)
    BY <2>1 DEF Press, ModalInv, ModalTypeOK
  <2>2. CASE ClickIgnored(m)
    BY <2>2 DEF ClickIgnored, ModalInv, ModalTypeOK
  <2>3. CASE \E around \in BOOLEAN : Release(m, around)
    BY <2>3 DEF Release, ModalInv, ModalTypeOK
  <2> QED BY <2>1, <2>2, <2>3 DEF Mouse
<1> QED BY <1>1, <1>2 DEF ModalInv, ModalTypeOK, HandlersOfShown, FlagWillClear, FlagInv, BodyInv, Closed,
             bodyVars

LEMMA DisposeOK == ASSUME ModalInv, NEW m \in Modals, Dispose(m) PROVE ModalInv'
<1>1. ModalTypeOK'
  BY DEF ModalInv, ModalTypeOK, Dispose, bodyVars
<1>2. HandlersOfShown' /\ BodyInv'
  BY DEF Dispose, HandlersOfShown, BodyInv
<1>3. FlagWillClear'
  BY DEF ModalInv, ModalTypeOK, Dispose, FlagWillClear
<1>4. FlagInv'
  BY DEF ModalInv, ModalTypeOK, Dispose, FlagInv
<1> QED BY <1>1, <1>2, <1>3, <1>4 DEF ModalInv

LEMMA BackdropShownOK == ASSUME ModalInv, NEW m \in Modals, BackdropShown(m) PROVE ModalInv'
<1>1. ModalTypeOK'
  BY DEF ModalInv, ModalTypeOK, BackdropShown, mouseVars, bodyVars
<1>2. HandlersOfShown'
  BY DEF ModalInv, BackdropShown, HandlersOfShown, FlagInv
<1>3. FlagWillClear'
  BY DEF ModalInv, ModalTypeOK, BackdropShown, FlagWillClear
<1>4. FlagInv'
  BY DEF ModalInv, ModalTypeOK, BackdropShown, FlagInv
<1>5. BodyInv'
  <2>1. ~Closed(m)'
    BY DEF ModalInv, ModalTypeOK, BackdropShown, Closed
  <2> QED BY <2>1 DEF ModalInv, BackdropShown, BodyInv, bodyVars
<1> QED BY <1>1, <1>2, <1>3, <1>4, <1>5 DEF ModalInv

LEMMA DialogShownOK == ASSUME ModalInv, NEW m \in Modals, DialogShown(m) PROVE ModalInv'
<1>1. ModalTypeOK'
  BY DEF ModalInv, ModalTypeOK, DialogShown, mouseVars, bodyVars
<1>2. HandlersOfShown'
  BY DEF ModalInv, DialogShown, HandlersOfShown
<1>3. FlagWillClear'
  BY DEF ModalInv, ModalTypeOK, DialogShown, FlagWillClear
<1>4. FlagInv'
  BY DEF ModalInv, ModalTypeOK, DialogShown, FlagInv
<1>5. BodyInv'
  <2>1. ~Closed(m)'
    BY DEF ModalInv, ModalTypeOK, DialogShown, FlagInv, Closed
  <2> QED BY <2>1 DEF ModalInv, DialogShown, BodyInv, bodyVars
<1> QED BY <1>1, <1>2, <1>3, <1>4, <1>5 DEF ModalInv

LEMMA ElementHiddenOK == ASSUME ModalInv, NEW m \in Modals, ElementHidden(m) PROVE ModalInv'
<1>1. ModalTypeOK'
  <2>1. bodyOpen' \in BOOLEAN /\ padding' \in Nat /\ saved' \in Nat
    <3>1. ResetBody \/ (bodyOpen' = FALSE /\ UNCHANGED <<padding, saved>>) \/ UNCHANGED bodyVars
      BY DEF ElementHidden
    <3> QED BY <3>1, BodyTyped DEF ModalInv
  <2>2. /\ page' \in Pages /\ live' \in SUBSET Modals
        /\ isShown' \in [Modals -> BOOLEAN] /\ isTransitioning' \in [Modals -> BOOLEAN]
        /\ ignoreBackdropClick' \in [Modals -> BOOLEAN] /\ pressed' \in [Modals -> BOOLEAN]
        /\ displayed' \in [Modals -> BOOLEAN] /\ backdrop' \in [Modals -> BOOLEAN]
        /\ stray' \in [Modals -> BOOLEAN]
    BY DEF ModalInv, ModalTypeOK, ElementHidden, mouseVars
  <2>3. /\ waits' \in [Modals -> {"nothing", "backdrop", "dialog", "element"}]
        /\ leaving' \in [Modals -> {"none", "own", "old", "dead"}]
        /\ trap' \in Modals \cup {Nobody} /\ resizing' \in SUBSET Modals
    BY DEF ModalInv, ModalTypeOK, ElementHidden
  <2> QED BY <2>1, <2>2, <2>3 DEF ModalTypeOK
<1>2. HandlersOfShown'
  BY DEF ModalInv, ElementHidden, HandlersOfShown
<1>3. FlagWillClear'
  BY DEF ModalInv, ModalTypeOK, ElementHidden, FlagWillClear
<1>4. FlagInv'
  BY DEF ModalInv, ModalTypeOK, ElementHidden, FlagInv
<1>5. BodyInv'
  <2>1. CASE backdrop[m]
    <3>1. ~Closed(m)'
      BY <2>1 DEF ModalInv, ModalTypeOK, ElementHidden, Closed
    <3> QED BY <2>1, <3>1 DEF ModalInv, ModalTypeOK, ElementHidden, BodyInv, bodyVars
  <2>2. CASE ~backdrop[m]
    BY <2>2 DEF ModalInv, ModalTypeOK, ElementHidden, BodyInv, ResetBody
  <2> QED BY <2>1, <2>2
<1> QED BY <1>1, <1>2, <1>3, <1>4, <1>5 DEF ModalInv

LEMMA BackdropGoneOK == ASSUME ModalInv, NEW m \in Modals, BackdropGone(m) PROVE ModalInv'
<1>1. ModalTypeOK'
  <2>1. bodyOpen' \in BOOLEAN /\ padding' \in Nat /\ saved' \in Nat
    <3>1. ResetBody \/ (bodyOpen' = FALSE /\ UNCHANGED <<padding, saved>>) \/ UNCHANGED bodyVars
      BY DEF BackdropGone
    <3> QED BY <3>1, BodyTyped DEF ModalInv
  <2>2. /\ page' \in Pages /\ live' \in SUBSET Modals
        /\ isShown' \in [Modals -> BOOLEAN] /\ isTransitioning' \in [Modals -> BOOLEAN]
        /\ ignoreBackdropClick' \in [Modals -> BOOLEAN] /\ pressed' \in [Modals -> BOOLEAN]
        /\ displayed' \in [Modals -> BOOLEAN] /\ backdrop' \in [Modals -> BOOLEAN]
        /\ stray' \in [Modals -> BOOLEAN]
    BY DEF ModalInv, ModalTypeOK, BackdropGone, mouseVars
  <2>3. /\ waits' \in [Modals -> {"nothing", "backdrop", "dialog", "element"}]
        /\ leaving' \in [Modals -> {"none", "own", "old", "dead"}]
        /\ trap' \in Modals \cup {Nobody} /\ resizing' \in SUBSET Modals
    BY DEF ModalInv, ModalTypeOK, BackdropGone
  <2> QED BY <2>1, <2>2, <2>3 DEF ModalTypeOK
<1>2. HandlersOfShown'
  BY DEF ModalInv, BackdropGone, HandlersOfShown
<1>3. FlagWillClear'
  <2>1. stray[m] => stray'[m]
    BY DEF ModalInv, ModalTypeOK, BackdropGone
  <2>2. isTransitioning[m] /\ waits[m] # "nothing" =>
          waits'[m] # "nothing" \/ (isShown[m] /\ stray'[m])
    BY DEF ModalInv, ModalTypeOK, BackdropGone, FlagInv
  <2>3. \A n \in Modals \ {m} : stray'[n] = stray[n] /\ waits'[n] = waits[n]
    BY DEF ModalInv, ModalTypeOK, BackdropGone
  <2> QED BY <2>1, <2>2, <2>3 DEF ModalInv, BackdropGone, FlagWillClear
<1>4. FlagInv'
  BY DEF ModalInv, ModalTypeOK, BackdropGone, FlagInv
<1>5. BodyInv'
  BY DEF ModalInv, ModalTypeOK, BackdropGone, BodyInv, ResetBody
<1> QED BY <1>1, <1>2, <1>3, <1>4, <1>5 DEF ModalInv

LEMMA ModalInvNext == ModalInv /\ [Next]_vars => ModalInv'
<1> SUFFICES ASSUME ModalInv, [Next]_vars PROVE ModalInv'
  OBVIOUS
<1>1. CASE UNCHANGED modalVars
  BY <1>1 DEF modalVars, mouseVars, bodyVars, ModalInv, ModalTypeOK, HandlersOfShown, FlagWillClear, FlagInv,
              BodyInv, Closed
<1>2. ASSUME NEW m \in Modals, Show(m) PROVE ModalInv'
  BY <1>2, RefusedOK, ShowPreventedOK, ShowStartsOK DEF Show
<1>3. ASSUME NEW m \in Modals, Hide(m) PROVE ModalInv'
  BY <1>3, RefusedOK, HideStartsOK DEF Hide
<1>4. ASSUME NEW m \in Modals, Transition(m) PROVE ModalInv'
  BY <1>4, BackdropShownOK, DialogShownOK, ElementHiddenOK, BackdropGoneOK DEF Transition
<1>5. CASE Next
  BY <1>1, <1>2, <1>3, <1>4, <1>5, ModalSteps, MouseOK, DisposeOK
<1> QED BY <1>1, <1>5 DEF vars

--------------------------------------------------------------------------------
OverlaysInv == ModalInv /\ TipInv /\ calls \in Nat

\* In every reachable state of a page with modals and tooltips.
LEMMA OverlaysInvHolds == Spec => []OverlaysInv
<1>1. Init => OverlaysInv
  BY ModalInvInit, TipInvInit DEF Init, OverlaysInv
<1>2. OverlaysInv /\ [Next]_vars => OverlaysInv'
  <2>1. ASSUME calls \in Nat, [Next]_vars PROVE calls' \in Nat
    BY <2>1 DEF Next, vars, Called, ToggleModal, DismissModal, HideModal, ClickBeside, ShowModal,
                DisposeModal, MouseOnModal, ModalMoves, Visit, ScriptTip, TimerFires, TipMoves
  <2> QED BY <2>1, ModalInvNext, TipInvNext DEF OverlaysInv
<1> QED BY <1>1, <1>2, PTL DEF Spec

\* The type is right, the handlers on the document and on the window are those of modals that
\* are shown, and a flag that refuses show() and hide() is set only while a transition will
\* clear it, or in the two ways in which it stays set: for any modals, page and tooltips.
THEOREM SharedStateConsistent == Spec => []Consistent
<1>1. OverlaysInv => Consistent
  BY TipInvTypes DEF OverlaysInv, ModalInv, Consistent, TypeOK
<1> QED BY <1>1, OverlaysInvHolds, PTL

\* Modals that overlap in any order give the page back as they found it when all are closed.
THEOREM PageGivenBack == Spec => []PageRestored
<1>1. OverlaysInv => PageRestored
  BY DEF OverlaysInv, ModalInv, BodyInv, PageRestored, ModalTypeOK
<1> QED BY <1>1, OverlaysInvHolds, PTL

\* Without delays a tip that the pointer, the focus or a click wants is shown and in the page,
\* unless it has been put back without its fade, whatever transitions are under way and in
\* whatever order their handlers run.
THEOREM WantedTipsAreShown == Spec => []WantedTipShown
<1>1. OverlaysInv => WantedTipShown
  <2> SUFFICES ASSUME TipInv, Undisturbed, ~options.delay, NEW t \in Tips, tip[t].activeTrigger # {}
               PROVE  tip[t].shown /\ (tip[t].inPage \/ PutBack(t))
    BY DEF OverlaysInv, WantedTipShown
  <2>1. tip[t] \in Satisfied \cup {Dead}
    BY DEF TipInv
  <2>2. tip[t] # Dead
    BY DEF Dead, New
  <2>3. tip[t] \in Living /\ Calm(tip[t]) /\ Seen(tip[t])
    BY <2>1, <2>2 DEF Satisfied
  <2>4. tip[t].shown
    BY <2>3 DEF Calm
  <2>5. CASE options.animation
    BY <2>3, <2>4, <2>5 DEF Seen, PutBack
  <2>6. CASE ~options.animation
    BY <2>3, <2>4, <2>6 DEF Seen, Calm, Able
  <2> QED BY <2>4, <2>5, <2>6
<1> QED BY <1>1, OverlaysInvHolds, PTL

\* Only hide() takes a modal with an instance from the page.
LEMMA OnlyHideCloses ==
  ASSUME ModalTypeOK, Next, isShown[Around], ~isShown'[Around], Around \in live'
  PROVE  HideAll
<1>1. ASSUME NEW m \in Modals, Show(m) PROVE FALSE
  <2>1. CASE isShown' = isShown
    BY <2>1
  <2>2. CASE ShowStarts(m)
    BY <2>2, AroundAssumption DEF ShowStarts, ModalTypeOK
  <2> QED BY <1>1, <2>1, <2>2 DEF Show, Refused, ShowPrevented
<1>2. ASSUME NEW m \in Modals, Hide(m), TipsOfStep(m) PROVE HideAll
  <2>1. isShown' # isShown /\ m = Around
    BY <1>2, AroundAssumption DEF Hide, Refused, HideStarts, ModalTypeOK
  <2>2. HideFires(m)
    BY <1>2, <2>1 DEF Hide, Refused
  <2> QED BY <1>2, <2>1, <2>2 DEF TipsOfStep
<1>3. ASSUME NEW m \in Modals, Mouse(m) \/ Transition(m) PROVE FALSE
  BY <1>3 DEF Mouse, Press, ClickIgnored, Release, Transition, BackdropShown, DialogShown, ElementHidden,
              BackdropGone
<1>4. ASSUME NEW m \in Modals, Dispose(m) PROVE FALSE
  BY <1>4, AroundAssumption DEF Dispose, ModalTypeOK
<1>5. CASE UNCHANGED modalVars
  BY <1>5 DEF modalVars
<1> QED BY <1>1, <1>2, <1>3, <1>4, <1>5, ModalSteps

LEMMA HiddenTipUnwanted ==
  ASSUME NEW r \in Living
  PROVE  HideTip(r, {}).activeTrigger = {} /\ HideTip(r, {}).hoverState # "show"
<1> DEFINE left == [r EXCEPT !.shown = FALSE, !.activeTrigger = {}]
           done == IF left.fades THEN [left EXCEPT !.pending = Append(@, "hidden")] ELSE HiddenDone(left)
<1>1. left \in Living /\ left.activeTrigger = {}
  BY DEF Living, Instance
<1> HIDE DEF left
<1>2. done \in Living /\ done.activeTrigger = {}
  <2>1. CASE left.fades
    BY <1>1, <2>1, WaitsOnly
  <2>2. CASE ~left.fades
    BY <1>1, <2>2, HiddenStays DEF HiddenDone, Living, Instance
  <2> QED BY <2>1, <2>2
<1> HIDE DEF done
<1>3. [done EXCEPT !.hoverState = ""].activeTrigger = {} /\ [done EXCEPT !.hoverState = ""].hoverState = ""
  BY <1>2 DEF Living, Instance
<1> QED BY <1>3 DEF HideTip, done, left

\* A modal that closes takes the tips in it that are told, however it is closed and whatever
\* they were doing.
THEOREM ClosedModalTakesTips == Spec => ModalTakesTips
<1>1. ASSUME OverlaysInv, [Next]_vars, isShown[Around], ~isShown'[Around], Around \in live', Undisturbed,
             NEW t \in listens
      PROVE  tip'[t].activeTrigger = {} /\ tip'[t].hoverState # "show"
  <2>1. ModalTypeOK /\ TipTypeOK /\ t \in Tips /\ tip[t] \in Living \cup {Dead}
    BY <1>1, TipInvTypes DEF OverlaysInv, ModalInv, TipInv
  <2>2. Next
    BY <1>1 DEF vars, modalVars
  <2>3. HideAll
    BY <1>1, <2>1, <2>2, OnlyHideCloses
  <2>4. PICK p \in [Tips -> Prevented] :
          tip' = [s \in Tips |-> IF s \in listens /\ tip[s].live THEN HideTip(tip[s], p[s]) ELSE tip[s]]
    BY <2>3 DEF HideAll
  <2>5. p[t] = {}
    BY <1>1, <2>1, <2>4 DEF Prevented, Undisturbed
  <2>6. CASE tip[t].live
    BY <1>1, <2>1, <2>4, <2>5, <2>6, HiddenTipUnwanted DEF Dead, New
  <2>7. CASE ~tip[t].live
    BY <2>1, <2>4, <2>7 DEF Dead, New, Living
  <2> QED BY <2>6, <2>7
<1>2. OverlaysInv /\ [Next]_vars
        => [isShown[Around] /\ ~isShown'[Around] /\ Around \in live' /\ Undisturbed
              => \A t \in listens : tip'[t].activeTrigger = {} /\ tip'[t].hoverState # "show"]_vars
  BY <1>1
<1> QED BY <1>2, OverlaysInvHolds, PTL DEF Spec, ModalTakesTips
================================================================================
