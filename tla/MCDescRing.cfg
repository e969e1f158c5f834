CONSTANTS
  Size = 3
  Lengths = {1, 2}
  Statuses = {0, 1}
  Completers = {c1, c2}
  MaxSubmits = 6
SPECIFICATION Spec
INVARIANT TypeOK
INVARIANT StaleLogNeedsReuse
PROPERTY FifoRefinement
