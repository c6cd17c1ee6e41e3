SPECIFICATION LiveSpec
CONSTANTS
  MaxPlugs = 1
  MaxConfigs = 2
PROPERTIES BackInBusiness
CHECK_DEADLOCK FALSE
