SPECIFICATION Spec
CONSTANTS
  Tabs = {t1, t2}
  Texts = {e, a, b}
  FirstText = e
  NoText = NoText
  Slots = {1, 2}
  NoSlot = NoSlot
  Cap = 1
  MaxVersion = 1
  MaxTyped = 2
  MaxLoaded = 1
  MaxVisits = 2
CHECK_DEADLOCK FALSE
SYMMETRY Symmetry
INVARIANT AskedBeforeLoss
