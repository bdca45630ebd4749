CONSTANTS
  None = None
  Specs <- SomeSpecs

SPECIFICATION Spec

INVARIANTS
  TypeOK
  StoredIsUpdatable
  StoredIsSound
  StoredIsProbed
