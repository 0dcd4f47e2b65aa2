\* Signals (two at once) and cancels at any time, a crash at any point.
CONSTANTS
    Nodes <- MCNodes    States <- MCStates    InitialState = "main"    NoState = ""
    Entry <- MCEntry    Child <- MCChild    Triggers <- MCTriggers    Goto <- MCGoto
    Kind <- MCKind    Retry <- MCRetry    Suggests <- MCSuggests
    Rejectable = {"undo"}    MaxDepth = 4
    Exec = {e1, e2}    Sig = {g1, g2}    None = None
    MaxSignals = 2    MaxCancels = 1    MaxCrashes = 1    MaxReloads = 0
SPECIFICATION Spec
INVARIANTS TypeOK EffectsAreBounded ApprovalFirst
PROPERTY NodesFollowLifecycle
SYMMETRY MCSymmetry
\* A finished or waiting run may stay as it is forever.
CHECK_DEADLOCK FALSE
