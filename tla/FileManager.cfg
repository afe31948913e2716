SPECIFICATION Spec
CONSTANTS
  Names = {"maps", "passwd"}
  Counts = {1}
  MaxOpen = 5
INVARIANT DescriptorsMatch
PROPERTY DescriptorsFresh
