SPECIFICATION Spec
CONSTANTS
  Unset = unset
  Marker = marker
  Name <- Names
  Simple <- SimpleNames
  Flag = {"-p", "-w"}
  Equals = {"=x"}
  Literal <- Literals
  VerbName = {"wifi.info", "wifi.connection-info", "location.stream"}
  Alias <- Aliases
  Binaries <- Allowlist
  Setting = {"task_timeout_s"}
  Default <- Defaults
  File <- Files
  Post <- Posts
INVARIANT BinaryKept
INVARIANT PairsWhole
INVARIANT BudgetHonored
CHECK_DEADLOCK FALSE
