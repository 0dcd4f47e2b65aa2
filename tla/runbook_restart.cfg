\* Callers that answer waiting runs, two crashes at any point.
CONSTANTS
    Nodes <- MCNodes    States <- MCStates    InitialState = "main"    NoState = ""
    Entry <- MCEntry    Child <- MCChild    Triggers <- MCTriggers    Goto <- MCGoto
    Kind <- MCKind    Retry <- MCRetry    Suggests <- MCSuggests
    Rejectable = {"undo"}    MaxDepth = 4
    Exec = {e1, e2}    Sig = {g1}    None = None
    MaxSignals = 3    MaxCancels = 0    MaxCrashes = 2    MaxReloads = 1
SPECIFICATION PatientSpec
INVARIANTS WaitingHasQuestion VerdictsAgree InboxIsClean
PROPERTIES FinishedIsFinal RunSettles AnswerIsFollowedUp
\* A finished or waiting run may stay as it is forever.
CHECK_DEADLOCK FALSE
