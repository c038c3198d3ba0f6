SPECIFICATION SlSpec
CONSTANTS
  Item = {i1, i2, i3, i4}
  NoItem = NoItem
  ListVar = {l1, l2}
  ListWord = {"a", "b"}
  Texts <- TwoTexts
INVARIANTS
  ListsHold
CHECK_DEADLOCK FALSE
