\* One cancel while the run executes.
CONSTANTS
    Nodes <- MCNodes    States <- MCStates    InitialState = "main"    NoState = ""
    Entry <- MCEntry    Child <- MCChild    Triggers <- MCTriggers    Goto <- MCGoto
    Kind <- MCKind    Retry <- MCRetry    Suggests <- MCSuggests
    Rejectable = {"undo"}    MaxDepth = 4
    Exec = {e1, e2}    Sig = {g1}    None = None
    MaxSignals = 0    MaxCancels = 1    MaxCrashes = 0    MaxReloads = 0
SPECIFICATION Spec
PROPERTY FinishedIsFinal
\* A finished or waiting run may stay as it is forever.
CHECK_DEADLOCK FALSE
