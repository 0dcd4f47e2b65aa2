\* Five requests on two definitions, three of them in a behaviour, and two writers of
\* files; two invites, two paired targets, two users; three turns of two chats.
CONSTANTS
    d1 = d1    d2 = d2    own = own    p1 = p1    v1 = v1    x1 = x1    e1 = e1    f1 = f1    f2 = f2
    Definition = {d1, d2}    Draft = {d1, d2, own}    Listing = {l1}    Publishing = {p1}
    Validating = {v1}    Deleting = {x1}    Editing = {e1}    Deploying = {f1, f2}    Removing = {f2}
    About <- MCAbout    BodyId <- MCBodyId    Boot = Boot    None = None
    MaxAtOnce = 2    MaxRequests = 3    MaxRestarts = 1
    i1 = i1    i2 = i2    g1 = g1    g2 = g2    u1 = u1    u2 = u2
    Inviting = {i1, i2}    Registering = {g1, g2}    Updating = {u1, u2}    With <- MCWith
    Edits <- MCEdits    Local = Local    Unsaid = Unsaid    Life = 1    MaxTime = 2    MaxOpens = 2
    a = a    b = b    c = c    s1 = s1    s2 = s2    Turn = {a, b, c}    Session = {s1, s2}
    SessionOf <- MCSessionOf    Domain = {"main", "shared"}    WriteDomain = "main"    Confirming = {b}
    Flows = {}    Unjudged = Unjudged    MaxTurns = 2    MaxFailures = 1    MaxReboots = 1
SPECIFICATION Spec
INVARIANTS HarnessTypeOK DefinitionsInStep EditIsKept InvitesAreAccepted EditsOutliveHeartbeats NoEventSkipped AnswersKeepToFlows
\* Every request and every turn may be over.
CHECK_DEADLOCK FALSE
