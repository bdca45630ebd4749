CONSTANTS
  None = None
  Specs <- SomeSpecs

SPECIFICATION Spec

INVARIANT
  NoPanic
