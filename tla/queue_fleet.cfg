\* Two workers at any time, rows queued by hand as well.
CONSTANTS
    nightly = nightly    weekly = weekly
    Worker = {w1, w2}    Launch = {nightly}    Item <- One    Serves <- MCServes
    MaxParallel <- MCMaxParallel    MaxRuns <- MCMaxRuns    MaxAttempts <- MCMaxAttempts
    NoWorker = NoWorker    NoLaunch = NoLaunch
    MaxFaults = 1    MaxCancels = 1
SPECIFICATION Spec
INVARIANTS TypeOK RunningIsRecorded CompletedMeansSucceeded LatestAttemptDecides AttemptsAreBounded
SYMMETRY MCSymmetry
