\* One worker, rows queued by hand.
CONSTANTS
    nightly = nightly    weekly = weekly
    Worker = {w1}    Launch = {nightly}    Item <- Two    Serves <- MCServes
    MaxParallel <- MCMaxParallel    MaxRuns <- MCMaxRuns    MaxAttempts <- MCMaxAttempts
    NoWorker = NoWorker    NoLaunch = NoLaunch
    MaxFaults = 0    MaxCancels = 0
SPECIFICATION Spec
PROPERTY OldestFirst
