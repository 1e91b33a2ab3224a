\* Every request of MCReader on both stores, with up to two writes while it
\* is worked on.
SPECIFICATION Spec
CONSTANTS
  Backends = {"bolt", "postgres"}
  Objects <- MCObjects
  Relations <- MCRelations
  ObjectOrder <- MCObjectOrder
  KeyOrder <- MCKeyOrder
  IdPrefix <- MCIdPrefix
  Cases <- MCCases
  Written <- MCWritten
  MaxWrites = 2
INVARIANTS PagesExact SnapshotAnswers AnswersBracketed GetRelationExact
CHECK_DEADLOCK FALSE
