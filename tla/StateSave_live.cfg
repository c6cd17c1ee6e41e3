\* The disk fails and recovers: what is dirty is saved, at the time the UI loop waits for.
CONSTANTS
    a = a
    b = b
    Tracks <- MCTrack
    Queues <- MCShort
    SettingValues = {v0, v1}
    Default = v0
    Missing = Missing
    MaxRetryShift = 1
    MaxGen = 2
    MaxFaults = 2
    MaxCrashes = 1
SPECIFICATION LiveSpec
INVARIANTS WaitMeetsDue
PROPERTIES DirtyIsSaved
