----------------------------- MODULE TaskGraph -----------------------------
(***************************************************************************)
(* One task of one domain of memoryd (memory/graph/repository/tasks.go)    *)
(* under concurrent requests.  No operation on tasks runs in a             *)
(* transaction: a request is a sequence of statements, and the statements  *)
(* of two requests alternate on the domain's one connection.  SQLite, with *)
(* its unique index over kind and stable key, is external.                 *)
(***************************************************************************)
EXTENDS FiniteSets, Naturals

CONSTANTS
    Creating, Patching, Renaming, Moving, Deleting,   \* the requests
    StatusOf,   \* status each Creating and Patching request writes; "open" is any that
                \* is neither done nor canceled
    ProjectOf,  \* project each Creating and Moving request names
    MaxAtOnce   \* bound: requests under way

VARIABLES
    at,         \* request |-> its next statement
    node,       \* the task's node: none, active or deleted
    inserted,   \* history: INSERTs of a node with the key
    status,     \* the properties of the node
    completed, canceled,
    projects,   \* active part_of edges to a project
    listed,     \* Moving request |-> edges it found and has yet to archive
    settled,    \* history: the last writer of status finished and was not crowded
    crowded,    \* history: requests during which another status was written
    crossed     \* history: two requests wrote the project at a time

historyVars == <<inserted, settled, crowded, crossed>>
propertyVars == <<status, completed, canceled>>
taskVars == <<at, node, propertyVars, projects, listed, historyVars>>

\* Each request is of one kind.
ASSUME TaskAssumption ==
    /\ Creating \cap (Patching \cup Renaming \cup Moving \cup Deleting) = {}
    /\ Patching \cap (Renaming \cup Moving \cup Deleting) = {}
    /\ StatusOf \in [Creating \cup Patching -> {"open", "done", "canceled"}]

Request == Creating \cup Patching \cup Renaming \cup Moving \cup Deleting

TaskInit ==
    /\ at = [r \in Request |-> IF r \in Creating THEN "lookup" ELSE "read"]
    /\ node = "none" /\ inserted = 0
    /\ status = "none" /\ completed = FALSE /\ canceled = FALSE
    /\ projects = {} /\ listed = [r \in Moving |-> {}]
    /\ settled = TRUE /\ crowded = {} /\ crossed = FALSE

Then(r, x) == at' = [at EXCEPT ![r] = x]
Stamping(r) == at[r] \in {"stamp", "clear"}
Making(r) == r \in Creating /\ at[r] \in {"status", "stamp"}
WritingStatus(r) == Stamping(r) \/ Making(r)
ReplacingProject(r) == at[r] \in {"archive", "add"} \/ Making(r)

\* taskNode: the task is there and not deleted.
Found(r) == node = "active"

UnderWay(r) == at[r] \notin {"lookup", "read", "over"}
Room == Cardinality({r \in Request : UnderWay(r)}) < MaxAtOnce

Read(r) ==
    /\ at[r] = "read" /\ Room
    /\ Then(r, IF ~Found(r) THEN "over"
                ELSE IF r \in Patching THEN "status"
                ELSE IF r \in Renaming THEN "rename"
                ELSE IF r \in Moving THEN "list" ELSE "mark")
    /\ UNCHANGED <<node, propertyVars, projects, listed, historyVars>>

-----------------------------------------------------------------------------
(* CreateTask.                                                              *)

\* The idempotency key is looked up; a task that has it is the answer.
LookUpTask(r) ==
    /\ at[r] = "lookup" /\ Room
    /\ Then(r, IF node = "none" THEN "find" ELSE "over")
    /\ UNCHANGED <<node, propertyVars, projects, listed, historyVars>>

\* UpsertNode looks again, and updates a node that has come in between.
FindNode(r) ==
    /\ at[r] = "find"
    /\ IF node = "none" THEN Then(r, "insert") /\ UNCHANGED <<node, crowded, crossed>>
       ELSE /\ Then(r, "status") /\ node' = "active"
            /\ crowded' = crowded \cup {r} /\ crossed' = TRUE
    /\ UNCHANGED <<propertyVars, projects, listed, inserted, settled>>

\* INSERT, which the unique index refuses when another request was faster.
InsertNode(r) ==
    /\ at[r] = "insert"
    /\ IF node = "none"
       THEN node' = "active" /\ inserted' = inserted + 1 /\ Then(r, "status")
       ELSE Then(r, "over") /\ UNCHANGED <<node, inserted>>
    /\ UNCHANGED <<propertyVars, projects, listed, settled, crowded, crossed>>

-----------------------------------------------------------------------------
(* The properties: the status, the stamp that goes with it, and for a patch  *)
(* the other stamp, which it clears; a patch to an open status clears both.  *)

WriteStatus(r) ==
    /\ at[r] = "status"
    /\ status' = StatusOf[r]
    /\ LET rivals == {q \in Request \ {r} : WritingStatus(q) /\ StatusOf[q] # StatusOf[r]}
           last == r \in Creating /\ StatusOf[r] = "open"
       IN /\ crowded' = IF rivals = {} THEN crowded ELSE crowded \cup rivals \cup {r}
          /\ settled' = (last /\ r \notin crowded')
          /\ Then(r, IF last THEN "add" ELSE "stamp")
    /\ UNCHANGED <<node, completed, canceled, projects, listed, inserted, crossed>>

Stamp(r) ==
    /\ at[r] = "stamp"
    /\ IF StatusOf[r] = "canceled" THEN canceled' = TRUE /\ UNCHANGED completed
       ELSE completed' = (StatusOf[r] = "done") /\ UNCHANGED canceled
    /\ IF r \in Creating THEN Then(r, "add") /\ settled' = (r \notin crowded)
       ELSE Then(r, "clear") /\ UNCHANGED settled
    /\ UNCHANGED <<node, status, projects, listed, inserted, crowded, crossed>>

\* Fault: the stamp of the other status stays.
Clear_Other(r) ==
    /\ at[r] = "clear"
    /\ settled' = (r \notin crowded)
    /\ Then(r, "over")
    /\ UNCHANGED <<node, propertyVars, projects, listed, inserted, crowded, crossed>>

Clear(r) ==
    /\ at[r] = "clear"
    /\ IF StatusOf[r] = "canceled" THEN completed' = FALSE /\ UNCHANGED canceled
       ELSE canceled' = FALSE /\ UNCHANGED completed
    /\ settled' = (r \notin crowded)
    /\ Then(r, "over")
    /\ UNCHANGED <<node, status, projects, listed, inserted, crowded, crossed>>

-----------------------------------------------------------------------------
(* Facets, renames and deletes.                                             *)

\* replaceTaskFacetEdges: the active edges are listed,
ListProjects(r) ==
    /\ at[r] = "list"
    /\ listed' = [listed EXCEPT ![r] = projects]
    /\ crossed' = (crossed \/ \E q \in Request : ReplacingProject(q))
    /\ Then(r, "archive")
    /\ UNCHANGED <<node, propertyVars, projects, inserted, settled, crowded>>

\* archived one by one,
ArchiveProject(r) ==
    /\ at[r] = "archive"
    /\ IF listed[r] = {} THEN Then(r, "add") /\ UNCHANGED <<projects, listed>>
       ELSE \E p \in listed[r] :
               /\ projects' = projects \ {p}
               /\ listed' = [listed EXCEPT ![r] = @ \ {p}]
               /\ UNCHANGED at
    /\ UNCHANGED <<node, propertyVars, historyVars>>

\* and the new one is written, as writeTaskFacetEdges does for a new task.
AddProject(r) ==
    /\ at[r] = "add"
    /\ projects' = projects \cup {ProjectOf[r]}
    /\ crossed' = (crossed \/ \E q \in Request \ {r} : ReplacingProject(q))
    /\ Then(r, "over")
    /\ UNCHANGED <<node, propertyVars, listed, inserted, settled, crowded>>

\* UpdateTask with a new title writes the whole row back, with the status it read.
Rename(r) ==
    /\ at[r] = "rename"
    /\ node' = "active"
    /\ Then(r, "over")
    /\ UNCHANGED <<propertyVars, projects, listed, historyVars>>

\* SetNodeStatus.
MarkDeleted(r) ==
    /\ at[r] = "mark"
    /\ node' = "deleted"
    /\ Then(r, "over")
    /\ UNCHANGED <<propertyVars, projects, listed, inserted, settled, crowded, crossed>>

\* An error, or the client or the process is gone: what was written stays.
Cut(r) ==
    /\ UnderWay(r)
    /\ Then(r, "over")
    /\ UNCHANGED <<node, propertyVars, projects, listed, historyVars>>

TaskNext ==
    \E r \in Request :
       \/ Read(r) \/ LookUpTask(r) \/ FindNode(r) \/ InsertNode(r)
       \/ WriteStatus(r) \/ Stamp(r) \/ Clear(r)
       \/ ListProjects(r) \/ ArchiveProject(r) \/ AddProject(r)
       \/ Rename(r) \/ MarkDeleted(r) \/ Cut(r)

TaskSpec == TaskInit /\ [][TaskNext]_taskVars

-----------------------------------------------------------------------------
(* Properties.                                                              *)

Statements == {"lookup", "find", "insert", "read", "status", "stamp", "clear", "list",
               "archive", "add", "rename", "mark", "over"}

\* The state is well typed, and a key has one task, however many requests create it at a
\* time and look for it before its node is there.
TaskTypeOK ==
    /\ at \in [Request -> Statements]
    /\ node \in {"none", "active", "deleted"} /\ inserted \in 0..1
    /\ status \in {"none", "open", "done", "canceled"}
    /\ completed \in BOOLEAN /\ canceled \in BOOLEAN
    /\ projects \subseteq {ProjectOf[r] : r \in Creating \cup Moving}
    /\ listed \in [Moving -> SUBSET {ProjectOf[r] : r \in Creating \cup Moving}]
    /\ settled \in BOOLEAN /\ crowded \subseteq Request
    /\ crossed \in BOOLEAN

\* What taskFromNode reads back is one task: completed_at and canceled_at agree with
\* status whenever its last writer has finished, if no request writing another status
\* overlapped it (a creation that found the task already there counts as overlapped).
\* Requests that were cut off or overlapped before it, and repeats of the same request
\* beside it, do not matter.  And there is one project, unless two requests replaced it
\* at the same time.
TaskReadsBack ==
    /\ settled => /\ status = "done" => completed /\ ~canceled
                  /\ status = "canceled" => canceled /\ ~completed
                  /\ status \in {"none", "open"} => ~completed /\ ~canceled
    /\ ~crossed => Cardinality(projects) <= 1
=============================================================================
