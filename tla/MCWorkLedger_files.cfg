\* Two processes record on one file, with two lines lost, altered or cut short, or the chain
\* computed again.
SPECIFICATION Spec
CONSTANTS
  c1 = c1
  c2 = c2
  Writers = {w1, w2}
  Commits = {c1, c2}
  Ancestors <- History
  NoGit = NoGit
  NoEntry = NoEntry
  MaxRecords = 3
  MaxAccidents = 2
SYMMETRY Symmetry
CONSTRAINT Bounded
INVARIANTS OnlyOrderIsBlamed AnchorsPinHistory CountClosesTheHole
PROPERTIES BreakIsNotCovered
CHECK_DEADLOCK FALSE
