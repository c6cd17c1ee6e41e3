\* Settings and queue change, also while a save waits for the disk; a disk operation
\* may fail, and power may be lost at any step.
CONSTANTS
    a = a
    b = b
    Tracks <- MCTracks
    Queues <- MCQueues
    SettingValues = {v0, v1}
    Default = v0
    Missing = Missing
    MaxRetryShift = 0
    MaxGen = 2
    MaxFaults = 1
    MaxCrashes = 1
SPECIFICATION Spec
INVARIANTS TypeOK NothingForgotten ResumeSafe
