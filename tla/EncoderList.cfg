SPECIFICATION Spec
CONSTANTS
  Kinds <- MCKinds
  MaxEncoders = 4
INVARIANTS ListInv ResultsPreserved ConflictsFenced
