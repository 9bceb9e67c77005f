SPECIFICATION Spec
CONSTANTS
  CatalogAdmins = {"a", "b"}
  MaxRows = 2
  MaxArchives = 2
  MaxEdits = 3
  MaxStrays = 1
INVARIANTS
  AdminSound
PROPERTIES
  AdminSteps
CHECK_DEADLOCK FALSE
