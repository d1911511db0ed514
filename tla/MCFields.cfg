SPECIFICATION FieldsSpec
CONSTANTS
  FieldNames = {"a", "b"}
  References <- MCReferences
  Properties <- MCProperties
INVARIANTS RowidSound ActionsSound
CONSTRAINT Bounded
CHECK_DEADLOCK FALSE
