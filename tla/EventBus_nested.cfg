\* Two emissions, nested or not, two handlers, overlapping patterns, a
\* database that may fail; every handler settles.
SPECIFICATION FairSpec
CONSTANTS
  e1 = e1
  e2 = e2
  h1 = h1
  h2 = h2
  Emission <- TwoEmissions
  Handler <- TwoHandlers
  Pattern <- TwoPatterns
  TypeOf <- Types
  Moments = {0, 1}
  MaxSubscribes = 2
INVARIANTS
  ReturnedIsHandled
  RecordsAreTrue
PROPERTIES
  EmitReturns
CHECK_DEADLOCK FALSE
