CONSTANTS
  Key = {a, b}
  None = None
  MaxChanges = 4
  MaxDeltas = 2
SPECIFICATION Spec
INVARIANTS TypeOK QueueMatchesItems OnlyDeletionsAreMissed LineInOrder
PROPERTIES RelistCorrectsStore StoreConverges ImplementsFeed
