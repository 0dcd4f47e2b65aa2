-------------------------- MODULE RunbookAuthoring --------------------------
(***************************************************************************)
(* The definitions of the runbook service and the drafts made of them      *)
(* (harness services runbook/runtime: service.go, authoring.go).  YAML     *)
(* files are what is deployed; the service keeps a loaded copy, a table of *)
(* definitions, a table of which draft published which definition, and     *)
(* editable drafts, and brings them in step by reloads.  Files are also    *)
(* written by others; the file system and SQLite are external.             *)
(***************************************************************************)
EXTENDS FiniteSets, Naturals

CONSTANTS
    Definition,   \* ids; the draft "draft_d" that mirrors d is called d here
    Draft,        \* ids of drafts, the mirrors among them
    Listing,      \* requests: ListDrafts, ListDefinitions, StartRunbook
    Publishing, Validating, Deleting, Editing,
    Deploying,    \* writers of files outside the service
    About,        \* request |-> its draft; Deploying: its definition
    BodyId,       \* Editing request |-> id in the body it saves
    Removing,     \* those of Deploying that remove the file
    Boot,         \* the reload of Open
    None,
    MaxAtOnce,    \* bound: requests under way
    MaxRequests,  \* bound: requests in all
    MaxRestarts   \* bound: ends of the process

Mirror(d) == d
Request == Listing \cup Publishing \cup Validating \cup Deleting \cup Editing
Worker == Request \cup {Boot}

\* A request is of one kind.
ASSUME AuthoringAssumption ==
    /\ Definition \subseteq Draft /\ Definition # {} /\ Removing \subseteq Deploying
    /\ Listing \cap (Publishing \cup Validating \cup Deleting \cup Editing) = {}
    /\ Publishing \cap (Validating \cup Deleting \cup Editing) = {}
    /\ Validating \cap (Deleting \cup Editing) = {} /\ Deleting \cap Editing = {}
    /\ \A r \in Publishing \cup Validating \cup Deleting \cup Editing : About[r] \in Draft
    /\ \A r \in Editing : BodyId[r] \in Definition
    /\ \A x \in Deploying : About[x] \in Definition
    /\ Boot \notin Request /\ None \notin Worker \cup Deploying \cup {"base", "torn"}
    /\ MaxAtOnce \in Nat /\ MaxRequests \in Nat /\ MaxRestarts \in Nat

VARIABLES
    deployed,    \* definition |-> content of its file, None or "torn"
    defs,        \* Service.defs
    loadedFrom,  \* Service.definitionSnapshot: the files as they were read
    reloading,   \* who holds defReloadMu
    table,       \* runbook_definitions: definition |-> content
    published,   \* runbook_published_definitions: definition |-> draft
    drafts,      \* runbook_drafts: draft |-> [def, content, status] or None
    pc,          \* worker |-> next step
    row,         \* worker |-> draft it has read
    image,       \* worker |-> files its reload has read for the snapshot
    found,       \* worker |-> definitions its reload has loaded
    todo,        \* worker |-> definitions it has still to store or mirror
    doomed,      \* worker |-> drafts it has still to delete
    restarts,
    past,        \* history: definition |-> contents its file has had
    cameBack,    \* history: a file was put back as a reload had read it before
    cut,         \* history: the last reload was cut short
    edited,      \* history: draft |-> content of its last edit, until that is published
    overlapped,  \* history: drafts edited while somebody held an older reading
    calm         \* history: Listing requests during and after which no file has changed

deployVars == <<deployed, past, cameBack, calm>>
loadedVars == <<defs, loadedFrom>>
localVars == <<row, image, found, todo, doomed>>
authoringVars == <<deployVars, loadedVars, reloading, table, published, drafts,
                   pc, localVars, restarts, cut, edited, overlapped>>

Contents == {"base"} \cup Editing \cup Deploying
Drafts == [def : Definition, content : Contents, status : {"draft", "published"}]
Files == [Definition -> Contents \cup {None, "torn"}]
Loaded == [Definition -> Contents \cup {None}]

ASSUME NoneAssumption == None \notin Drafts /\ None \notin Files

Loadable(files) == [d \in Definition |-> IF files[d] \in Contents THEN files[d] ELSE None]
Nothing == [d \in Definition |-> None]
Sources(w) == {d \in Definition : found[w][d] # None}

\* A definition deployed by hand, and a draft of the user's own.
AuthoringInit ==
    /\ \E files \in [Definition -> {None, "base"}] : deployed = files
    /\ past = [d \in Definition |-> {deployed[d]}] /\ cameBack = FALSE /\ calm = {}
    /\ defs = Nothing /\ loadedFrom = None /\ reloading = Boot
    /\ table = Nothing /\ published = Nothing
    /\ drafts = [q \in Draft |->
          IF q \in Definition THEN None
          ELSE [def |-> CHOOSE d \in Definition : TRUE, content |-> "base", status |-> "draft"]]
    /\ pc = [w \in Worker |-> IF w = Boot THEN "snapshot" ELSE "idle"]
    /\ row = [w \in Worker |-> None] /\ image = [w \in Worker |-> None]
    /\ found = [w \in Worker |-> Nothing]
    /\ todo = [w \in Worker |-> {}] /\ doomed = [w \in Worker |-> {}]
    /\ restarts = 0 /\ cut = FALSE
    /\ edited = [q \in Draft |-> None] /\ overlapped = {}

Up == pc[Boot] = "over"
Goes(w, step) == pc' = [pc EXCEPT ![w] = step]
UnderWay == {r \in Request : pc[r] \notin {"idle", "over"}}
Readings == ({loadedFrom} \cup {image[w] : w \in Worker}) \ {None}
PutFile(d, content) ==
    /\ deployed' = [deployed EXCEPT ![d] = content]
    /\ past' = [past EXCEPT ![d] = @ \cup {content}]
    /\ cameBack' = (cameBack \/ (deployed[d] # content /\ \E files \in Readings : files[d] = content))
    /\ calm' = {}
PutDraft(q, r) == drafts' = [drafts EXCEPT ![q] = r]

Arrive(r) ==
    /\ Up /\ pc[r] = "idle" /\ Cardinality(UnderWay) < MaxAtOnce
    /\ Cardinality({q \in Request : pc[q] # "idle"}) < MaxRequests
    /\ Goes(r, IF r \in Listing THEN "lock" ELSE "read")
    /\ calm' = IF r \in Listing THEN calm \cup {r} ELSE calm
    /\ UNCHANGED <<deployed, past, cameBack, loadedVars, reloading, table, published, drafts, localVars, restarts, cut, edited, overlapped>>

-----------------------------------------------------------------------------
(* ReloadDefinitions and syncDefinitionsFromDisk.                           *)

\* Fault: reloads do not exclude one another.
Lock_Shared(r) ==
    /\ pc[r] = "lock"
    /\ reloading' = r /\ cut' = FALSE
    /\ Goes(r, IF r \in Listing THEN "compare" ELSE "snapshot")
    /\ UNCHANGED <<deployVars, loadedVars, table, published, drafts, localVars, restarts, edited, overlapped>>

Lock(r) ==
    /\ pc[r] = "lock" /\ reloading = None
    /\ reloading' = r
    /\ Goes(r, IF r \in Listing THEN "compare" ELSE "snapshot")
    /\ UNCHANGED <<deployVars, loadedVars, table, published, drafts, localVars, restarts, cut, edited, overlapped>>

\* Fault: only the names of the files are compared.
Compare_Names(w) ==
    /\ pc[w] = "compare"
    /\ IF \A d \in Definition : deployed[d] = None <=> loadedFrom[d] = None
       THEN found' = [found EXCEPT ![w] = table] /\ Goes(w, "drafts")
       ELSE Goes(w, "snapshot") /\ UNCHANGED found
    /\ UNCHANGED <<deployVars, loadedVars, reloading, table, published, drafts, row, image, todo, doomed, restarts, cut, edited, overlapped>>

\* Nothing changed on the disk: the stored definitions are mirrored again.
Compare(w) ==
    /\ pc[w] = "compare"
    /\ IF deployed = loadedFrom
       THEN found' = [found EXCEPT ![w] = table] /\ Goes(w, "drafts")
       ELSE Goes(w, "snapshot") /\ UNCHANGED found
    /\ UNCHANGED <<deployVars, loadedVars, reloading, table, published, drafts, row, image, todo, doomed, restarts, cut, edited, overlapped>>

Snapshot(w) ==
    /\ pc[w] = "snapshot"
    /\ image' = [image EXCEPT ![w] = deployed]
    /\ cut' = TRUE
    /\ Goes(w, "load")
    /\ UNCHANGED <<deployVars, loadedVars, reloading, table, published, drafts, row, found, todo, doomed, restarts, edited, overlapped>>

\* The files are read again; one that is torn is skipped with a warning.
Load(w) ==
    /\ pc[w] = "load"
    /\ found' = [found EXCEPT ![w] = Loadable(deployed)]
    /\ todo' = [todo EXCEPT ![w] = {d \in Definition : found'[w][d] # None}]
    /\ Goes(w, "store")
    /\ UNCHANGED <<deployVars, loadedVars, reloading, table, published, drafts, row, image, doomed, restarts, cut, edited, overlapped>>

\* UpsertDefinition and UpsertDefinitionSource, which keeps the draft of a row.
Store(w) ==
    /\ pc[w] = "store"
    /\ \E d \in todo[w] :
          /\ table' = [table EXCEPT ![d] = found[w][d]]
          /\ published' = [published EXCEPT ![d] = IF @ = None THEN Mirror(d) ELSE @]
          /\ todo' = [todo EXCEPT ![w] = @ \ {d}]
    /\ UNCHANGED <<deployVars, loadedVars, reloading, drafts, pc, row, image, found, doomed, restarts, cut, edited, overlapped>>

\* DeleteDefinitionsExcept, DeletePublishedDefinitionsExcept.
Prune(w) ==
    /\ pc[w] = "store" /\ todo[w] = {}
    /\ table' = [d \in Definition |-> IF d \in Sources(w) THEN table[d] ELSE None]
    /\ published' = [d \in Definition |-> IF d \in Sources(w) THEN published[d] ELSE None]
    /\ Goes(w, "drafts")
    /\ UNCHANGED <<deployVars, loadedVars, reloading, drafts, localVars, restarts, cut, edited, overlapped>>

\* Fault: edited drafts are deleted with their definition, too.
Orphan_Edited(w, q) ==
    drafts[q] # None /\ drafts[q].def \notin Sources(w) /\ q = Mirror(drafts[q].def)

\* A mirror nobody has edited, of a definition that is gone.
Orphan(w, q) ==
    /\ drafts[q] # None /\ drafts[q].def \notin Sources(w)
    /\ drafts[q].status = "published" /\ q = Mirror(drafts[q].def)

Mirrored(d) == drafts[Mirror(d)] # None \/ \E q \in Draft : drafts[q] # None /\ drafts[q].def = d

\* ensureDraftsForDefinitions lists the drafts once, and acts on the list; without any
\* definition it does nothing.
ListRows(w) ==
    /\ pc[w] = "drafts"
    /\ doomed' = [doomed EXCEPT ![w] = {q \in Draft : Sources(w) # {} /\ Orphan(w, q)}]
    /\ todo' = [todo EXCEPT ![w] = {d \in Sources(w) : ~Mirrored(d)}]
    /\ Goes(w, "mirror")
    /\ UNCHANGED <<deployVars, loadedVars, reloading, table, published, drafts, row, image, found, restarts, cut, edited, overlapped>>

DropMirror(w) ==
    /\ pc[w] = "mirror"
    /\ \E q \in doomed[w] :
          /\ PutDraft(q, None)
          /\ doomed' = [doomed EXCEPT ![w] = @ \ {q}]
    /\ UNCHANGED <<deployVars, loadedVars, reloading, table, published, pc, row, image, found, todo, restarts, cut, edited, overlapped>>

AddMirror(w) ==
    /\ pc[w] = "mirror" /\ doomed[w] = {}
    /\ \E d \in todo[w] :
          /\ PutDraft(Mirror(d), [def |-> d, content |-> found[w][d], status |-> "published"])
          /\ todo' = [todo EXCEPT ![w] = @ \ {d}]
    /\ UNCHANGED <<deployVars, loadedVars, reloading, table, published, pc, row, image, found, doomed, restarts, cut, edited, overlapped>>

\* Where the request goes on.
AfterReload(w) == IF w \in Publishing THEN "record" ELSE "over"
Drop(r) == row' = [row EXCEPT ![r] = None]
Forget(w) == image' = [image EXCEPT ![w] = None] /\ found' = [found EXCEPT ![w] = Nothing]

Install(w) ==
    /\ pc[w] = "mirror" /\ doomed[w] = {} /\ todo[w] = {}
    /\ IF image[w] = None THEN UNCHANGED <<loadedVars, cut>>
       ELSE defs' = found[w] /\ loadedFrom' = image[w] /\ cut' = FALSE
    /\ reloading' = None
    /\ Goes(w, AfterReload(w))
    /\ Forget(w)
    /\ UNCHANGED <<deployVars, table, published, drafts, row, todo, doomed, restarts, edited, overlapped>>

-----------------------------------------------------------------------------
(* Requests on one draft.                                                   *)

ReadDraft(r) ==
    /\ pc[r] = "read"
    /\ row' = [row EXCEPT ![r] = drafts[About[r]]]
    /\ Goes(r, IF row'[r] = None THEN "over"
               ELSE IF r \in Publishing THEN "truncate"
               ELSE IF r \in Deleting THEN "source" ELSE "save")
    /\ UNCHANGED <<deployVars, loadedVars, reloading, table, published, drafts, image, found, todo, doomed, restarts, cut, edited, overlapped>>

\* os.WriteFile: the old content goes before the new one comes.
Truncate(r) ==
    /\ pc[r] = "truncate"
    /\ PutFile(row[r].def, "torn")
    /\ Goes(r, "write")
    /\ UNCHANGED <<loadedVars, reloading, table, published, drafts, localVars, restarts, cut, edited, overlapped>>

WriteFile(r) ==
    /\ pc[r] = "write"
    /\ PutFile(row[r].def, row[r].content)
    /\ Goes(r, "lock")
    /\ UNCHANGED <<loadedVars, reloading, table, published, drafts, localVars, restarts, cut, edited, overlapped>>

\* UpsertPublishedDefinition.
Record(r) ==
    /\ pc[r] = "record"
    /\ published' = [published EXCEPT ![row[r].def] = About[r]]
    /\ Goes(r, "save")
    /\ UNCHANGED <<deployVars, loadedVars, reloading, table, drafts, localVars, restarts, cut, edited, overlapped>>

\* Those who will write back, or delete, what they read of a draft before.
Readers(q) ==
    {r \in Publishing \cup Validating : About[r] = q /\ row[r] # None /\ pc[r] # "over"}
       \cup {r \in Deleting : About[r] = q /\ pc[r] \notin {"idle", "over"}}
       \cup {w \in Worker : q \in doomed[w] \/ q \in todo[w]}

\* UpsertDraft: a publication and a validation write the whole row they read,
\* an edit its own body.
Save(r) ==
    /\ pc[r] = "save"
    /\ LET q == About[r] IN
       /\ PutDraft(q, CASE r \in Publishing -> [row[r] EXCEPT !.status = "published"]
                        [] r \in Validating -> row[r]
                        [] r \in Editing -> [def |-> BodyId[r], content |-> r, status |-> "draft"])
       /\ edited' = CASE r \in Publishing -> [edited EXCEPT ![q] = None]
                       [] r \in Validating -> edited
                       [] r \in Editing -> [edited EXCEPT ![q] = r]
       /\ overlapped' = IF r \in Editing /\ Readers(q) # {} THEN overlapped \cup {q} ELSE overlapped
    /\ Goes(r, "over") /\ Drop(r)
    /\ UNCHANGED <<deployVars, loadedVars, reloading, table, published, image, found, todo, doomed, restarts, cut>>

\* DeleteDraft: the file the draft has published, the draft, the row, a reload.
RemoveFile(r) ==
    /\ pc[r] = "source"
    /\ LET mine == {d \in Definition : published[d] = About[r]} IN
       IF mine = {} THEN /\ todo' = [todo EXCEPT ![r] = {}]
                         /\ UNCHANGED deployVars
       ELSE \E d \in mine : todo' = [todo EXCEPT ![r] = {d}] /\ PutFile(d, None)
    /\ Goes(r, "delete")
    /\ UNCHANGED <<loadedVars, reloading, table, published, drafts, row, image, found, doomed, restarts, cut, edited, overlapped>>

DeleteRow(r) ==
    /\ pc[r] = "delete"
    /\ PutDraft(About[r], None)
    /\ edited' = [edited EXCEPT ![About[r]] = None]
    /\ Goes(r, IF todo[r] = {} THEN "over" ELSE "forget") /\ Drop(r)
    /\ UNCHANGED <<deployVars, loadedVars, reloading, table, published, image, found, todo, doomed, restarts, cut, overlapped>>

ForgetSource(r) ==
    /\ pc[r] = "forget"
    /\ published' = [d \in Definition |-> IF d \in todo[r] THEN None ELSE published[d]]
    /\ todo' = [todo EXCEPT ![r] = {}]
    /\ Goes(r, "lock")
    /\ UNCHANGED <<deployVars, loadedVars, reloading, table, drafts, row, image, found, doomed, restarts, cut, edited, overlapped>>

-----------------------------------------------------------------------------
\* A file is put in place, or removed, by somebody else.
Deploy(x) ==
    /\ x \notin UNION {past[d] : d \in Definition}
    /\ IF x \in Removing THEN deployed[About[x]] \in Contents /\ PutFile(About[x], None)
       ELSE PutFile(About[x], x)
    /\ UNCHANGED <<loadedVars, reloading, table, published, drafts, pc, localVars, restarts, cut, edited, overlapped>>

\* An error, or the client is gone: what was written stays.
Break(r) ==
    /\ r \in UnderWay
    /\ Goes(r, "over")
    /\ reloading' = IF reloading = r THEN None ELSE reloading
    /\ Forget(r) /\ Drop(r)
    /\ todo' = [todo EXCEPT ![r] = {}] /\ doomed' = [doomed EXCEPT ![r] = {}]
    /\ calm' = calm \ {r}
    /\ UNCHANGED <<deployed, past, cameBack, loadedVars, table, published, drafts, restarts, cut, edited, overlapped>>

\* The process ends and is started again.
Restart ==
    /\ restarts < MaxRestarts
    /\ restarts' = restarts + 1
    /\ pc' = [w \in Worker |-> IF w = Boot THEN "snapshot" ELSE IF pc[w] = "idle" THEN "idle" ELSE "over"]
    /\ reloading' = Boot /\ defs' = Nothing /\ loadedFrom' = None
    /\ row' = [w \in Worker |-> None]
    /\ image' = [w \in Worker |-> None] /\ found' = [w \in Worker |-> Nothing]
    /\ todo' = [w \in Worker |-> {}] /\ doomed' = [w \in Worker |-> {}]
    /\ calm' = {}
    /\ UNCHANGED <<deployed, past, cameBack, table, published, drafts, cut, edited, overlapped>>

Reload(w) ==
    \/ Snapshot(w) \/ Load(w) \/ Store(w) \/ Prune(w)
    \/ ListRows(w) \/ DropMirror(w) \/ AddMirror(w) \/ Install(w)

DraftStep(r) ==
    \/ ReadDraft(r) \/ Truncate(r) \/ WriteFile(r) \/ Record(r) \/ Save(r)
    \/ RemoveFile(r) \/ DeleteRow(r) \/ ForgetSource(r)

AuthoringNext ==
    \/ \E w \in Worker : Reload(w)
    \/ \E r \in Request : Arrive(r) \/ Lock(r) \/ Compare(r) \/ DraftStep(r) \/ Break(r)
    \/ \E x \in Deploying : Deploy(x)
    \/ Restart

AuthoringSpec == AuthoringInit /\ [][AuthoringNext]_authoringVars

-----------------------------------------------------------------------------
(* Properties.                                                              *)

Steps == {"idle", "lock", "compare", "snapshot", "load", "store", "drafts", "mirror", "read",
          "truncate", "write", "record", "save", "source", "delete", "forget", "over"}

\* The state is well typed; who reloads holds defReloadMu.
AuthoringTypeOK ==
    /\ deployed \in Files /\ past \in [Definition -> SUBSET (Contents \cup {None, "torn"})]
    /\ defs \in Loaded /\ table \in Loaded /\ loadedFrom \in Files \cup {None}
    /\ published \in [Definition -> Draft \cup {None}]
    /\ drafts \in [Draft -> Drafts \cup {None}] /\ row \in [Worker -> Drafts \cup {None}]
    /\ pc \in [Worker -> Steps] /\ reloading \in Worker \cup {None}
    /\ \A w \in Worker : pc[w] \in {"compare", "snapshot", "load", "store", "drafts", "mirror"} => reloading = w
    /\ image \in [Worker -> Files \cup {None}] /\ found \in [Worker -> Loaded]
    /\ todo \in [Worker -> SUBSET Definition] /\ doomed \in [Worker -> SUBSET Draft]
    /\ restarts \in 0..MaxRestarts /\ cut \in BOOLEAN /\ cameBack \in BOOLEAN
    /\ calm \subseteq Listing /\ edited \in [Draft -> Editing \cup {None}] /\ overlapped \subseteq Draft

\* "syncDefinitionsFromDisk reloads definitions when user-deployable YAML files changed"
\* (service.go:206): what a request that lists or starts runbooks goes by is what is
\* deployed, as long as no file is put back as it was between two readings, and the stored
\* definitions are the loaded ones unless a reload was cut short.
DefinitionsInStep ==
    /\ \A r \in calm : pc[r] = "over" /\ ~cameBack => defs = Loadable(deployed)
    /\ Up /\ reloading = None /\ ~cut => table = defs

\* An edit of a draft that nobody held an older reading of is kept until it is
\* published or deleted, whatever reloads, removals of the definition, publications that
\* fail and restarts follow.
EditIsKept ==
    \A q \in Draft \ overlapped :
       edited[q] # None => drafts[q] # None /\ drafts[q].content = edited[q]
=============================================================================
