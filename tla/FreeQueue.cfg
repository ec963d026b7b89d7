SPECIFICATION Spec
CONSTANT NumBlocks = 5
INVARIANT IInv
INVARIANT FakesNeverPopped
PROPERTY ImplementsQueue
