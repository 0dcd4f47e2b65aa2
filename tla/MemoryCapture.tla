--------------------------- MODULE MemoryCapture ---------------------------
(***************************************************************************)
(* Captures and corrections in one domain of memoryd: Repository.Capture   *)
(* and CreateCorrection (graph/repository/repository.go) in a unit of work *)
(* (graph/store/store.go), and the source file each has beside its rows    *)
(* (evidence_files.go, evidence_blobs.go).  A handler holds the domain's   *)
(* one connection from Begin until its transaction ends.  The source row   *)
(* a transaction writes is in path until Commit; SQLite is external.       *)
(***************************************************************************)
EXTENDS Naturals, FiniteSets

CONSTANTS
    Caller,         \* handlers
    Asked,          \* caller |-> [key, content] of its capture
    Correcting,     \* callers of CreateCorrection
    NoRow,
    MaxTries,       \* bound: attempts of a caller
    MaxCaptureKills \* bound: ends of the process

Key == {Asked[c].key : c \in Caller}

\* A source file: its node, made by the nth attempt of a caller, and its content.
Source == [node : Caller \X (1..MaxTries), content : {Asked[c].content : c \in Caller}]

ASSUME CaptureAssumption ==
    /\ MaxTries \in Nat /\ MaxCaptureKills \in Nat
    /\ Correcting \subseteq Caller
    /\ NoRow \notin Source

VARIABLES
    stage,       \* caller |-> where its handler is
    tries,       \* caller |-> attempts so far
    path,        \* caller |-> the source file of its attempt
    rows,        \* key |-> source file its committed rows name, or NoRow
    links,       \* keys with a committed refers_to edge
    files,       \* source files: [node, content], the name writeEvidenceFile gives
    temps,       \* callers whose .source-*.tmp exists
    made,        \* callers that renamed their file into place
    superseded,  \* caller |-> files to remove after its commit
    captureKills,
    littered     \* history: files a removal that failed has left

captureVars == <<stage, tries, path, rows, links, files, temps, made, superseded, captureKills, littered>>

Captured(c) == rows[Asked[c].key] # NoRow

\* Fault: the id is made of the key.
Node_OfKey(c) == <<CHOOSE d \in Caller : Asked[d].key = Asked[c].key, 1>>

\* UpsertNode: the node of the key, or one with a new random id.
Node(c) == IF Captured(c) THEN rows[Asked[c].key].node ELSE <<c, tries[c]>>

CaptureInit ==
    /\ stage = [c \in Caller |-> "idle"]
    /\ tries = [c \in Caller |-> 0] /\ path = [c \in Caller |-> NoRow]
    /\ rows = [k \in Key |-> NoRow] /\ links = {}
    /\ files = {} /\ temps = {} /\ made = {}
    /\ superseded = [c \in Caller |-> {}]
    /\ captureKills = 0 /\ littered = {}

Goes(c, s) == stage' = [stage EXCEPT ![c] = s]
InTransaction(c) == stage[c] \in {"begun", "staged", "written", "published"}

\* Fault: the edge is taken to be there when the capture was.
Result_Unlinked(c) == IF c \in Correcting /\ ~Captured(c) THEN "link" ELSE "answered"

\* A capture is over; a correction still has its edge to write.
Result(c) == IF c \in Correcting THEN "link" ELSE "answered"

Ask(c) ==
    /\ stage[c] \in {"idle", "failed"} /\ tries[c] < MaxTries
    /\ tries' = [tries EXCEPT ![c] = @ + 1]
    /\ Goes(c, "lookup")
    /\ UNCHANGED <<path, rows, links, files, temps, made, superseded, captureKills, littered>>

\* captureByIdempotency before the transaction, on the free connection.
LookUp(c) ==
    /\ stage[c] = "lookup" /\ \A d \in Caller : ~InTransaction(d)
    /\ Goes(c, IF Captured(c) THEN Result(c) ELSE "begin")
    /\ UNCHANGED <<tries, path, rows, links, files, temps, made, superseded, captureKills, littered>>

\* Fault: the key is not looked up again in the transaction.
Begin_Unchecked(c) ==
    /\ stage[c] = "begin" /\ \A d \in Caller : ~InTransaction(d)
    /\ Goes(c, "begun")
    /\ UNCHANGED <<tries, path, rows, links, files, temps, made, superseded, captureKills, littered>>

\* Fault: a transaction begins beside another one.
Begin_Shared(c) ==
    /\ stage[c] = "begin"
    /\ Goes(c, IF Captured(c) THEN Result(c) ELSE "begun")
    /\ UNCHANGED <<tries, path, rows, links, files, temps, made, superseded, captureKills, littered>>

\* WithUnitOfWork, and captureByIdempotency again inside it.
Begin(c) ==
    /\ stage[c] = "begin" /\ \A d \in Caller : ~InTransaction(d)
    /\ Goes(c, IF Captured(c) THEN Result(c) ELSE "begun")
    /\ UNCHANGED <<tries, path, rows, links, files, temps, made, superseded, captureKills, littered>>

\* writeEvidenceFile: a file that is there already is used.
Stage(c) ==
    /\ stage[c] = "begun"
    /\ path' = [path EXCEPT ![c] = [node |-> Node(c), content |-> Asked[c].content]]
    /\ temps' = IF path'[c] \in files THEN temps ELSE temps \cup {c}
    /\ Goes(c, "staged")
    /\ UNCHANGED <<tries, rows, links, files, made, superseded, captureKills, littered>>

\* The rows of captureNormalized, uncommitted; the file of an older row is listed
\* for removal.
WriteRows(c) ==
    /\ stage[c] = "staged"
    /\ superseded' = [superseded EXCEPT ![c] =
          IF Captured(c) THEN {rows[Asked[c].key]} \ {path[c]} ELSE {}]
    /\ Goes(c, "written")
    /\ UNCHANGED <<tries, path, rows, links, files, temps, made, captureKills, littered>>

\* commitEvidenceFiles: rename, or drop the staged file when another is in place.
Publish(c) ==
    /\ stage[c] = "written"
    /\ temps' = temps \ {c}
    /\ made' = IF c \in temps /\ path[c] \notin files THEN made \cup {c} ELSE made
    /\ files' = IF c \in temps THEN files \cup {path[c]} ELSE files
    /\ Goes(c, "published")
    /\ UNCHANGED <<tries, path, rows, links, superseded, captureKills, littered>>

Commit(c) ==
    /\ stage[c] = "published"
    /\ rows' = [rows EXCEPT ![Asked[c].key] = path[c]]
    /\ Goes(c, "committed")
    /\ UNCHANGED <<tries, path, links, files, temps, made, superseded, captureKills, littered>>

\* os.Remove fails, which every caller ignores, or the file goes.
Removes(old) ==
    \/ files' = files \ old /\ UNCHANGED littered
    \/ littered' = littered \cup old /\ UNCHANGED files

\* cleanupSupersededEvidenceFiles, when the connection is free again.
RemoveSuperseded(c) ==
    /\ stage[c] = "committed"
    /\ Removes(superseded[c])
    /\ superseded' = [superseded EXCEPT ![c] = {}] /\ made' = made \ {c}
    /\ Goes(c, Result(c))
    /\ UNCHANGED <<tries, path, rows, links, temps, captureKills>>

\* The work, the rename, the sync of the directory or the commit fails, or the
\* client went away: the transaction is rolled back and the connection is free.
GiveUp(c) ==
    /\ InTransaction(c)
    /\ Goes(c, "cleanup")
    /\ UNCHANGED <<tries, path, rows, links, files, temps, made, superseded, captureKills, littered>>

\* cleanupEvidenceFiles.
CleanUp(c) ==
    /\ stage[c] = "cleanup"
    /\ temps' = temps \ {c} /\ made' = made \ {c}
    /\ Removes(IF c \in made THEN {path[c]} ELSE {})
    /\ superseded' = [superseded EXCEPT ![c] = {}]
    /\ Goes(c, "failed")
    /\ UNCHANGED <<tries, path, rows, links, captureKills>>

\* CreateCorrection, after its capture or the one it was a duplicate of: the edge
\* is a statement of its own.
Link(c) ==
    /\ stage[c] = "link" /\ \A d \in Caller : ~InTransaction(d)
    /\ \/ links' = links \cup {Asked[c].key} /\ Goes(c, "answered")
       \/ Goes(c, "failed") /\ UNCHANGED links
    /\ UNCHANGED <<tries, path, rows, files, temps, made, superseded, captureKills, littered>>

\* The process ends; what was committed and what was renamed stays.
Kill ==
    /\ captureKills < MaxCaptureKills
    /\ captureKills' = captureKills + 1
    /\ stage' = [c \in Caller |-> IF stage[c] \in {"idle", "answered"} THEN stage[c] ELSE "failed"]
    /\ made' = {} /\ superseded' = [c \in Caller |-> {}]
    /\ UNCHANGED <<tries, path, rows, links, files, temps, littered>>

CaptureStep(c) ==
    \/ LookUp(c) \/ Begin(c) \/ Stage(c) \/ WriteRows(c) \/ Publish(c) \/ Commit(c)
    \/ RemoveSuperseded(c) \/ CleanUp(c) \/ Link(c)

CaptureNext == Kill \/ \E c \in Caller : Ask(c) \/ CaptureStep(c) \/ GiveUp(c)

CaptureSpec == CaptureInit /\ [][CaptureNext]_captureVars

-----------------------------------------------------------------------------
(* Properties.                                                              *)

CaptureStages == {"idle", "lookup", "begin", "begun", "staged", "written", "published",
                  "committed", "link", "cleanup", "answered", "failed"}

\* The state is well typed; one handler is in a transaction.
CaptureTypeOK ==
    /\ stage \in [Caller -> CaptureStages]
    /\ tries \in [Caller -> 0..MaxTries]
    /\ path \in [Caller -> Source \cup {NoRow}]
    /\ rows \in [Key -> Source \cup {NoRow}]
    /\ links \subseteq Key
    /\ files \subseteq Source /\ littered \subseteq Source
    /\ temps \subseteq Caller /\ made \subseteq Caller
    /\ superseded \in [Caller -> SUBSET Source]
    /\ captureKills \in 0..MaxCaptureKills
    /\ \A c, d \in Caller : InTransaction(c) /\ InTransaction(d) => c = d

\* An idempotency key is captured once: a racing or repeated request with the same key
\* does not replace what the first one stored.
CapturedOnce == [][\A k \in Key : rows[k] # NoRow => rows'[k] = rows[k]]_captureVars

\* A caller that has its answer finds its capture stored and its correction linked to
\* the memory it corrects, also when an earlier attempt was cut between the two.
AnsweredIsStored ==
    \A c \in Caller :
       stage[c] = "answered" => Captured(c) /\ (c \in Correcting => Asked[c].key \in links)

\* Rows and source files agree, whatever was rolled back, cleaned up or cut short: a row
\* names a file that exists, although cleanupEvidenceFiles removes files after its
\* transaction has ended, when the next one may be under way; and without a kill no file
\* is left that neither a row names nor a handler will still name or remove, but for those
\* whose removal failed.
FilesMatchRows ==
    /\ \A k \in Key : rows[k] # NoRow => rows[k] \in files
    /\ captureKills = 0 =>
          \A f \in files \ littered : (\E k \in Key : rows[k] = f) \/ (\E c \in made : path[c] = f)
=============================================================================
