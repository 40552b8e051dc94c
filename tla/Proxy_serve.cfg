SPECIFICATION FairSpec
CONSTANTS
  Tasks = {t1, t2}
  Ports = {c1, c2}
  NServers = 2
  Servfail = Servfail
  PortReuse = FALSE
  Queries <- MCQueries
  LowerCase <- MCLowerCase
  U8 <- MCU8
  Rules <- MCRules
  Sizes <- MCSizes
  LogCapacity = 1
  LogSlice = 1
  MaxQueries = 2
INVARIANTS
  OwnReply
  AllServersTried
  OwnId
  FitsClient
  LogAccounts
  SnapshotCounts
PROPERTY EveryQueryAnswered
