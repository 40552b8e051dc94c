SPECIFICATION Spec
CONSTANTS
  Configs <- MCConfigs
  Profiles = {"game"}
  Names <- MCNames
  Default <- MCDefault
  Askers = {"window", "command"}
  Files <- MCFiles
  LowerCase <- MCLowerCase
  U8 <- MCU8
  Addresses = {"a", "b", "r"}
  Restricted = {"r"}
  Faults = {"crash", "unlisted", "edit"}
\* Each is refuted on its own: keep one of them.  Beside it, the fault it needs.
INVARIANT NotSilentlyDefault  \* crash
INVARIANT RedirectsUsable     \* none: a file that the user edited
INVARIANT CommandNeverUs      \* unlisted
INVARIANT WindowComparesIsp   \* none
INVARIANT BothAnswered        \* none
INVARIANT LinkLocalStays      \* none
INVARIANT ForcedRegardless    \* none
INVARIANT AgreeWhenHealthy    \* none
