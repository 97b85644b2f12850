\* Lists with missing and repeated identities; four changes between any selections.
CONSTANTS
  a = a
  plain = plain
  custom = custom
  RawLists <- MCRawLists
  Rests = {plain, custom}
  MaxRows = 3
  MaxEdits = 4
SPECIFICATION Spec
CHECK_DEADLOCK FALSE
INVARIANTS
  RowsAreSound
  SaveTellsTruth
PROPERTIES
  ImplementsEditor
