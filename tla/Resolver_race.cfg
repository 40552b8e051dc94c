SPECIFICATION FairSpec
CONSTANTS
  x = x
  y = y
  z = z
  Tasks = {t1, t2}
  Names <- ThreeNames
  Types = {"A"}
  Answers <- FewAnswers
  NProviders = 2
  Capacity = 2
  MinTtl = 1
  MaxTtl = 2
  NegativeTtl = 2
  Ticks = 1
INVARIANTS
  Bounded
  LastResort
PROPERTIES
  LiveKept
  Answered
