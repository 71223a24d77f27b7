CONSTANTS
  nameA = nameA
  nameB = nameB
  tagA = tagA
  tagB = tagB
  idA = idA
  idB = idB
  Documents <- MCDocuments
  Scalars <- MCScalars
  ScalarArrays <- MCScalarArrays
  ObjectArrays <- MCObjectArrays
SPECIFICATION Spec
INVARIANTS
  FieldEventsTellAll
  ItemEventsTellAll
