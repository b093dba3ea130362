SPECIFICATION Spec
CONSTANTS
  Cases <- ConnCases
  InCapacity = 2
  OutCapacity = 2
INVARIANTS
  TypeOK
  AnswersHonest
  AnswersInOrder
  NothingSkipped
PROPERTIES
  HangsUpRightly
  HandlerReturns
  EveryRequestAnswered
