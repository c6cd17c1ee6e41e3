SPECIFICATION LiveSpec
CONSTANTS
  MaxPlugs = 2
  MaxConfigs = 2
INVARIANTS TypeOK HostAlone NeverUndercounted
PROPERTIES RequestGranted
CHECK_DEADLOCK FALSE
