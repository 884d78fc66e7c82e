SPECIFICATION Spec
\* Every attempt may have been made.
CHECK_DEADLOCK FALSE
CONSTANTS
  n1 = n1
  n2 = n2
  n3 = n3
  r1 = r1
  r2 = r2
  o1 = o1
  o2 = o2
  NoNode = NoNode
  NoOffer = NoOffer
  Nodes <- Three
  Requests <- TwoRequests
  Offers <- TwoOffers
SYMMETRY Alike
INVARIANTS
  RowsAreCurrent
  ScreenIsTrue
PROPERTIES
  PromptIsFirst
