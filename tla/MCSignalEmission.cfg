SPECIFICATION FairSpec
CONSTANTS
  l1 = l1  l2 = l2  l3 = l3
  Listeners = {l1, l2, l3}
  None = None
  ListHead = ListHead
  Null = Null
  MaxDepth = 3
  RemovesNext = FALSE
PROPERTIES RemovedNotCalled ImplementsEmission EmissionEnds
