\* Two captures and three starts of a daemon; three captures, three clients and two
\* removals; seven requests on one task; one query on four nodes and seven edges.
CONSTANTS
    Write = {w1, w2}    Shapes <- MCShapes    NoFile = NoFile    NoSnapshot = NoSnapshot
    MaxStarts = 3    MaxKills = 1
    a = a    b = b    c = c    Caller = {a, b, c}    Asked <- MCAsked    Correcting = {a, c}
    NoRow = NoRow    MaxTries = 2    MaxCaptureKills = 1
    p1 = p1    p2 = p2    p3 = p3
    Client = {p1, p2, p3}    Sweeping = {p3}    Remover = {x, y}    DeletingFiles = {x}    MaxHandles = 3
    n1 = n1    n2 = n2    m1 = m1    c1 = c1    o1 = o1
    Creating = {n1, n2}    Patching = {c1, o1}    StatusOf <- MCStatusOf
    Renaming = {r1}    Moving = {m1}    Deleting = {d1}    ProjectOf <- MCProjectOf    MaxAtOnce = 2
    GraphNode = {1, 2, 3, 4}    GraphEdge = {1, 2, 3, 4, 5, 6, 7}    From <- MCFrom    To <- MCTo
    NodePlace <- MCNodePlace    EdgePlace <- MCEdgePlace    Rank <- MCRank    Asks <- MCAsks
    Starts = {1, 2, 4}    Targets = {1, 2, 4}    Readable0 <- MCReadable    Active0 <- MCActive
    Fading = {3}    Severed = {3, 5}    MaxRoots = 3    MaxPaths = 9    MaxMutations = 2
SPECIFICATION Spec
INVARIANTS MemoryTypeOK SnapshotsHold QueryIsExact FilesMatchRows AnsweredIsStored OpenIsOwned
           TaskReadsBack
PROPERTIES CapturedOnce
SYMMETRY MCSymmetry
\* Every request may be over, and the daemon stopped.
CHECK_DEADLOCK FALSE
