\* One worker that dies or loses a call, rows queued by the schedule only.
CONSTANTS
    nightly = nightly    weekly = weekly
    Worker = {w1}    Launch = {nightly, weekly}    Item <- Two    Serves <- MCServes
    MaxParallel <- MCMaxParallel    MaxRuns <- MCMaxRuns    MaxAttempts <- MCMaxAttempts
    NoWorker = NoWorker    NoLaunch = NoLaunch
    MaxFaults = 1    MaxCancels = 0
SPECIFICATION SerialSpec
INVARIANT WithinSchedule
PROPERTIES ItemsFollowLifecycle QueueDrains
