SPECIFICATION FairSpec
CONSTANTS
  l1 = l1
  l2 = l2
  Lpar = {l1, l2}
  Own = l1
  Batch = 1
  MaxMessage = 3
  MaxSession = 2
  MaxCommand = 1
INVARIANTS IInv
PROPERTIES EveryMessageIsShown DialogEnds
