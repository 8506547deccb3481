\* Two modals, two tooltips in the first; the fifth and sixth call are on the first tooltip.
SPECIFICATION FairSpec
CONSTANTS
  m1 = m1
  m2 = m2
  Modals = {m1, m2}
  Nobody = Nobody
  Around = m1
  Tips = {t1, t2}
  Pages <- MCPages
  Manners <- MCManners
  MaxCalls = 6
  MaxPadding = 2
INVARIANTS Consistent PageRestored WantedTipShown
PROPERTIES ModalTakesTips UnwantedTipLeaves
ACTION_CONSTRAINTS Narrowing
CHECK_DEADLOCK FALSE
