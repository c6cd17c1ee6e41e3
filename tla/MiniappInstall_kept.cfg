\* Power is lost twice, at any step, and one disk operation fails.
CONSTANTS
    one = one
    two = two
    twoB = twoB
    Packages <- MCPackages
    Version <- MCVersion
    None = None
    MaxScans = 3
    MaxFaults = 1
    MaxCrashes = 2
SPECIFICATION LiveSpec
INVARIANTS TypeOK NoLeftovers Delivered CatalogTrue
PROPERTIES ImplementsAtomic ScanEnds
CHECK_DEADLOCK FALSE
