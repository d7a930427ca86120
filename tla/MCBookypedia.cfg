SPECIFICATION Spec
CONSTANTS
  Users = {u1, u2}
  Names = {n1, n2}
  Titles = {t1, t2}
  Tags = {x}
  Keep = Keep
  MaxCommands = 3
SYMMETRY MCSymmetry
INVARIANTS
  BooksAreOfOneCommand
PROPERTIES
  DoneMeansDone
