SPECIFICATION Spec
CONSTANTS
  Channels = {c1, c2, c3}
  Fds = {0, 1, 2}
SYMMETRY Symmetry
INVARIANTS
  AssertsFailForRemovedOnly
  IndicesMatch
PROPERTIES
  ImplementsPollSet
