SPECIFICATION Spec
\* Everybody may have said what they had to say.
CHECK_DEADLOCK FALSE
CONSTANTS
  h = h
  a = a
  b = b
  Nodes <- Three
  Host = h
  Meshes <- FullOrNot
  Writers <- HAndA
  MaxLines = 2
  Exports <- OneByA
  Viewers <- OnlyA
  Leavers <- OnlyB
  Fragile <- LinkHA
  MaxVisible = 2
INVARIANTS
  SavedIsWhatIsSeen
  AuthorsAreInOrder
  LinkedMeansDelivered
  NothingIsUnseen
