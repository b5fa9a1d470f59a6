SPECIFICATION Spec
CONSTANTS
  Sizes <- MCSizes
  MaxRequests = 2
  MaxDocuments = 3
INVARIANTS
  TypeOK
  BatchBounded
  
  NothingLeftBehind
PROPERTY
  StoresInOrder
