SPECIFICATION Spec
CONSTANTS
  Configs <- MCConfigs
  Profiles = {"game"}
  Names <- MCNames
  Default <- MCDefault
  Askers = {"command"}
  Files <- MCFiles
  LowerCase <- MCLowerCase
  U8 <- MCU8
  Addresses = {"a", "b", "r"}
  Restricted = {"r"}
  Faults = {"crash", "nospace", "edit", "unlisted"}
INVARIANTS
  LoadedValid
  LocalStays
  ProfileOnlyAdds
  CommandComparesIsp
  VerdictRight
