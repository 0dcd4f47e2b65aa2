\* Two workers, no faults.
CONSTANTS
    nightly = nightly    weekly = weekly
    Worker = {w1, w2}    Launch = {nightly}    Item <- One    Serves <- MCServes
    MaxParallel <- MCMaxParallel    MaxRuns <- MCMaxRuns    MaxAttempts <- MCMaxAttempts
    NoWorker = NoWorker    NoLaunch = NoLaunch
    MaxFaults = 0    MaxCancels = 0
SPECIFICATION Spec
PROPERTY TerminalIsFinal
