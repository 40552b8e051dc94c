SPECIFICATION Spec
CONSTANTS
  x = x
  y = y
  z = z
  Tasks = {t1}
  Names <- CaseNames
  Types = {"A", "AAAA"}
  Answers <- AllAnswers
  NProviders = 2
  Capacity = 2
  MinTtl = 1
  MaxTtl = 4
  NegativeTtl = 2
  Ticks = 2
INVARIANTS
  ServedInTime
  CountedDown
  AnswersQuestion
