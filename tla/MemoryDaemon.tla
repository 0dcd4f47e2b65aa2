---------------------------- MODULE MemoryDaemon ----------------------------
(***************************************************************************)
(* One memoryd after the other on one machine (memory/cmd/memoryd), and    *)
(* the snapshot each restores before it serves and saves after it has      *)
(* (memory/persistence/snapshot.go).  A path holds a content or nothing.   *)
(* The domain databases lie under the data path: source files, a database  *)
(* file (base) and its write-ahead log; the snapshot's own database is the *)
(* one of the -db flag.  SQLite, the file system and the endpoint are      *)
(* external.                                                               *)
(***************************************************************************)
EXTENDS Naturals, Sequences, FiniteSets

CONSTANTS
    Write,       \* captures a client may ask for
    Shapes,      \* sets of paths a machine or a snapshot starts with
    NoFile,
    NoSnapshot,
    MaxStarts,   \* bound: daemons started
    MaxKills     \* bound: daemons killed

VARIABLES
    daemon,      \* phase of main: off, download, promote, rollback, serving,
                 \*    draining, saving, sending
    live,        \* path |-> content
    snapshot,    \* what the endpoint stores: path |-> content, or NoSnapshot
    staged,      \* what Restore has extracted
    move, step,  \* promoteSnapshot: the move it is at, and the step of it
    backups,     \*    paths it has moved aside
    promoted,    \*    paths it has put in place
    aside,       \* backup directories on disk: path |-> contents
    before,      \* history: live when the restore began
    restored,    \* history: how the start ended: done once memoryd serves
    botched,     \* history: paths at which an operation of the rollback failed
    request,     \* write |-> state of its handler
    pool,        \* open, closed, or reopened by a late handler
    quiet,       \* history: no handler ran when the pool was closed
    archive,     \* what buildSnapshot has read
    promised,    \* history: acknowledged writes a save has stored
    starts, kills

promoteVars == <<staged, move, step, backups, promoted>>
restoreVars == <<promoteVars, before, restored, botched>>
saveVars == <<quiet, archive, promised>>
memorydVars == <<daemon, live, snapshot, restoreVars, aside, request, pool, saveVars, starts, kills>>

Order == <<"db", "wal", "shm", "data">>
Path == {"db", "wal", "shm", "data"}
Content == [gen : {"old", "new"}, sources : SUBSET Write, base : SUBSET Write, log : SUBSET Write]
Fresh(gen) == [gen |-> gen, sources |-> {}, base |-> {}, log |-> {}]
Files(present, gen) == [p \in Path |-> IF p \in present THEN Fresh(gen) ELSE NoFile]
Images == [Path -> Content \cup {NoFile}]

\* What is not there is neither a file nor an archive.
ASSUME MemorydAssumption ==
    /\ Shapes \subseteq SUBSET Path
    /\ NoFile \notin Content /\ NoSnapshot \notin Images
    /\ MaxStarts \in Nat /\ MaxKills \in Nat

MemorydInit ==
    /\ daemon = "off"
    /\ \E s \in Shapes : live = Files(s, "old")
    /\ \/ snapshot = NoSnapshot
       \/ \E s \in Shapes \ {{}} : snapshot = Files(s, "new")
    /\ staged = NoSnapshot /\ move = 1 /\ step = "backup"
    /\ backups = <<>> /\ promoted = <<>> /\ aside = [p \in Path |-> {}]
    /\ before = live /\ restored = "no" /\ botched = {}
    /\ request = [w \in Write |-> "idle"] /\ pool = "closed"
    /\ quiet = FALSE /\ archive = NoSnapshot /\ promised = {}
    /\ starts = 0 /\ kills = 0

-----------------------------------------------------------------------------
(* Restore.                                                                 *)

Start ==
    /\ daemon = "off" /\ starts < MaxStarts
    /\ daemon' = "download" /\ starts' = starts + 1
    /\ before' = live /\ restored' = "no" /\ botched' = {}
    /\ UNCHANGED <<live, snapshot, promoteVars, aside, request, pool, saveVars, kills>>

\* What extractSnapshot remembers ends with it.
Forget ==
    /\ staged' = NoSnapshot /\ move' = 1 /\ step' = "backup"
    /\ backups' = <<>> /\ promoted' = <<>>

\* Restore returns; OpenPool opens the domain databases, or creates them.
Open ==
    /\ daemon' = "serving" /\ pool' = "open" /\ restored' = "done"
    /\ live' = [live EXCEPT !["data"] = IF @ = NoFile THEN Fresh("old") ELSE @]
    /\ before' = live' /\ UNCHANGED botched
    /\ Forget

\* 404, or an empty body: memoryd starts on what there is.
NothingToRestore ==
    /\ daemon = "download" /\ snapshot = NoSnapshot
    /\ Open
    /\ UNCHANGED <<snapshot, aside, request, saveVars, starts, kills>>

\* No answer, an archive that does not extract or lacks its files: log.Fatal.
DownloadFails ==
    /\ daemon = "download"
    /\ daemon' = "off" /\ restored' = "failed"
    /\ UNCHANGED <<live, snapshot, promoteVars, aside, before, botched, request, pool, saveVars, starts, kills>>

\* The staging directory of the data always exists.
Extract ==
    /\ daemon = "download" /\ snapshot # NoSnapshot
    /\ daemon' = "promote"
    /\ staged' = [snapshot EXCEPT !["data"] = IF @ = NoFile THEN Fresh("new") ELSE @]
    /\ UNCHANGED <<live, snapshot, move, step, backups, promoted, aside, before, restored, botched, request, pool, saveVars, starts, kills>>

InMove == daemon = "promote" /\ move <= Len(Order)
Target == Order[move]

\* Fault: a live path that nothing replaces stays.
MoveAside_Replaced ==
    /\ InMove /\ step = "backup"
    /\ IF live[Target] # NoFile /\ staged[Target] # NoFile
       THEN /\ live' = [live EXCEPT ![Target] = NoFile]
            /\ aside' = [aside EXCEPT ![Target] = @ \cup {live[Target]}]
            /\ backups' = Append(backups, Target)
       ELSE UNCHANGED <<live, aside, backups>>
    /\ IF staged[Target] # NoFile THEN step' = "rename" /\ UNCHANGED move
       ELSE move' = move + 1 /\ UNCHANGED step
    /\ UNCHANGED <<daemon, snapshot, staged, promoted, before, restored, botched, request, pool, saveVars, starts, kills>>

\* backupRestoreTarget: a live path goes aside, whether or not one replaces it.
MoveAside ==
    /\ InMove /\ step = "backup"
    /\ IF live[Target] # NoFile
       THEN /\ live' = [live EXCEPT ![Target] = NoFile]
            /\ aside' = [aside EXCEPT ![Target] = @ \cup {live[Target]}]
            /\ backups' = Append(backups, Target)
       ELSE UNCHANGED <<live, aside, backups>>
    /\ IF staged[Target] # NoFile THEN step' = "rename" /\ UNCHANGED move
       ELSE move' = move + 1 /\ UNCHANGED step
    /\ UNCHANGED <<daemon, snapshot, staged, promoted, before, restored, botched, request, pool, saveVars, starts, kills>>

Promote ==
    /\ InMove /\ step = "rename"
    /\ live' = [live EXCEPT ![Target] = staged[Target]]
    /\ promoted' = Append(promoted, Target)
    /\ step' = "sync"
    /\ UNCHANGED <<daemon, snapshot, staged, move, backups, aside, before, restored, botched, request, pool, saveVars, starts, kills>>

Sync ==
    /\ InMove /\ step = "sync"
    /\ move' = move + 1 /\ step' = "backup"
    /\ UNCHANGED <<daemon, live, snapshot, staged, backups, promoted, aside, before, restored, botched, request, pool, saveVars, starts, kills>>

\* mkdir, rename or sync fails.
MoveFails ==
    /\ InMove
    /\ daemon' = "rollback"
    /\ UNCHANGED <<live, snapshot, restoreVars, aside, request, pool, saveVars, starts, kills>>

Front(s) == SubSeq(s, 1, Len(s) - 1)

\* What an os.RemoveAll that fails leaves of a path: all of it, or of the data directory
\* a part.  Which part is not told apart: nobody reads it before the next restore moves it
\* aside, for the endpoint still has the snapshot.
Remnants(p) == {live[p]} \cup IF p = "data" /\ live[p] # NoFile THEN {Fresh(live[p].gen)} ELSE {}

Leave(p, content) == live' = [live EXCEPT ![p] = content]

\* rollback: what was promoted is removed, the last first; an error is ignored.
RollBack ==
    /\ daemon = "rollback" /\ promoted # <<>>
    /\ LET p == promoted[Len(promoted)] IN
          \/ Leave(p, NoFile) /\ UNCHANGED botched
          \/ (\E left \in Remnants(p) : Leave(p, left)) /\ botched' = botched \cup {p}
    /\ promoted' = Front(promoted)
    /\ UNCHANGED <<daemon, snapshot, staged, move, step, backups, aside, before, restored, request, pool, saveVars, starts, kills>>

\* Then the backups come back, the last first.  restore removes the target once more
\* and renames the backup; when that fails the backup stays aside, and the loop goes on.
PutBack ==
    /\ daemon = "rollback" /\ promoted = <<>> /\ backups # <<>>
    /\ LET p == backups[Len(backups)] IN
          \/ /\ Leave(p, before[p])
             /\ aside' = [aside EXCEPT ![p] = @ \ {before[p]}]
             /\ botched' = botched \ {p}
          \/ /\ \E left \in {NoFile} \cup Remnants(p) : Leave(p, left)
             /\ botched' = botched \cup {p}
             /\ UNCHANGED aside
    /\ backups' = Front(backups)
    /\ UNCHANGED <<daemon, snapshot, staged, move, step, promoted, before, restored, request, pool, saveVars, starts, kills>>

\* main: log.Fatal.
RestoreFails ==
    /\ daemon = "rollback" /\ promoted = <<>> /\ backups = <<>>
    /\ daemon' = "off" /\ restored' = "failed"
    /\ Forget
    /\ UNCHANGED <<live, snapshot, aside, before, botched, request, pool, saveVars, starts, kills>>

\* All is in place: the backups go, and the pool opens.  (What a removal that fails
\* leaves in a backup directory is not kept here: nothing reads it.)
RestoreEnds ==
    /\ daemon = "promote" /\ move > Len(Order)
    /\ aside' = [p \in Path |-> aside[p] \ (IF p \in {backups[i] : i \in DOMAIN backups}
                                            THEN {before[p]} ELSE {})]
    /\ Open
    /\ UNCHANGED <<snapshot, request, saveVars, starts, kills>>

-----------------------------------------------------------------------------
(* Captures: a transaction on the one connection of the domain's handle.    *)

InFlight(w) == request[w] \in {"accepted", "begun", "filed", "committed"}
Holder(w) == request[w] \in {"begun", "filed"}
Become(w, state) == request' = [request EXCEPT ![w] = state]
Data(f, v) == live' = [live EXCEPT !["data"] = [@ EXCEPT ![f] = v]]

Accept(w) ==
    /\ daemon = "serving" /\ request[w] = "idle"
    /\ Become(w, "accepted")
    /\ UNCHANGED <<daemon, live, snapshot, restoreVars, aside, pool, saveVars, starts, kills>>

\* repoForDomain opens the domain of a pool that was closed.
BeginCapture(w) ==
    /\ request[w] = "accepted" /\ \A v \in Write : ~Holder(v)
    /\ Become(w, "begun")
    /\ pool' = IF pool = "closed" THEN "reopened" ELSE pool
    /\ UNCHANGED <<daemon, live, snapshot, restoreVars, aside, saveVars, starts, kills>>

\* commitEvidenceFiles.
PublishFile(w) ==
    /\ request[w] = "begun"
    /\ Data("sources", live["data"].sources \cup {w})
    /\ Become(w, "filed")
    /\ UNCHANGED <<daemon, snapshot, restoreVars, aside, pool, saveVars, starts, kills>>

CommitCapture(w) ==
    /\ request[w] = "filed"
    /\ Data("log", live["data"].log \cup {w})
    /\ Become(w, "committed")
    /\ UNCHANGED <<daemon, snapshot, restoreVars, aside, pool, saveVars, starts, kills>>

Acknowledge(w) ==
    /\ request[w] = "committed"
    /\ Become(w, "acked")
    /\ UNCHANGED <<daemon, live, snapshot, restoreVars, aside, pool, saveVars, starts, kills>>

\* An error of the work, or a handle that was closed under it; the file goes too.
CaptureFails(w) ==
    /\ request[w] \in {"accepted", "begun", "filed"}
    /\ Data("sources", live["data"].sources \ {w})
    /\ Become(w, "failed")
    /\ UNCHANGED <<daemon, snapshot, restoreVars, aside, pool, saveVars, starts, kills>>

\* SQLite moves the log into the database when the last connection closes.
Checkpointed == [live EXCEPT !["data"] =
    [@ EXCEPT !.base = live["data"].base \cup live["data"].log, !.log = {}]]

LateCheckpoint ==
    /\ daemon \in {"saving", "sending"} /\ pool = "closed"
    /\ \A w \in Write : ~Holder(w)
    /\ live["data"].log # {}
    /\ live' = Checkpointed
    /\ UNCHANGED <<daemon, snapshot, restoreVars, aside, request, pool, saveVars, starts, kills>>

-----------------------------------------------------------------------------
(* The end of a daemon.                                                     *)

\* SIGTERM: Shutdown makes ListenAndServe return; nobody waits for the handlers.
Terminate ==
    /\ daemon = "serving"
    /\ daemon' = "draining"
    /\ UNCHANGED <<live, snapshot, restoreVars, aside, request, pool, saveVars, starts, kills>>

\* memoryService.Close: a connection in use is closed when it comes back.
ClosePool ==
    /\ daemon = "draining"
    /\ daemon' = "saving" /\ archive' = Files({}, "old")
    /\ quiet' = \A w \in Write : ~InFlight(w)
    /\ pool' = "closed"
    /\ live' = IF \E w \in Write : Holder(w) THEN live ELSE Checkpointed
    /\ UNCHANGED <<snapshot, restoreVars, aside, request, promised, starts, kills>>

Archived(f, v) == archive' = [archive EXCEPT !["data"] = [@ EXCEPT ![f] = v]]

\* buildSnapshot: the -db files, which nobody writes, and of the domain its
\* sources before its database before its log, as WalkDir comes to them.
ArchiveSources ==
    /\ daemon = "saving" /\ archive["data"] = NoFile
    /\ archive' = [live EXCEPT !["data"] = [@ EXCEPT !.base = {}, !.log = {}]]
    /\ step' = "base"
    /\ UNCHANGED <<daemon, live, snapshot, staged, move, backups, promoted, before, restored, botched, aside, request, pool, quiet, promised, starts, kills>>

ArchiveBase ==
    /\ daemon = "saving" /\ archive["data"] # NoFile /\ step = "base"
    /\ Archived("base", live["data"].base)
    /\ step' = "log"
    /\ UNCHANGED <<daemon, live, snapshot, staged, move, backups, promoted, before, restored, botched, aside, request, pool, quiet, promised, starts, kills>>

ArchiveLog ==
    /\ daemon = "saving" /\ archive["data"] # NoFile /\ step = "log"
    /\ Archived("log", live["data"].log)
    /\ step' = "backup" /\ daemon' = "sending"
    /\ UNCHANGED <<live, snapshot, staged, move, backups, promoted, before, restored, botched, aside, request, pool, quiet, promised, starts, kills>>

Dies ==
    /\ daemon' = "off" /\ pool' = "closed" /\ archive' = NoSnapshot /\ quiet' = FALSE
    /\ request' = [w \in Write |-> IF request[w] = "idle" THEN "idle" ELSE "over"]
    /\ Forget

Acknowledged == {w \in Write : request[w] = "acked"}

\* The upload is stored, or not; main ends either way.
Send ==
    /\ daemon = "sending"
    /\ \/ /\ snapshot' = archive
          /\ promised' = IF quiet THEN promised \cup Acknowledged ELSE promised
       \/ UNCHANGED <<snapshot, promised>>
    /\ Dies
    /\ UNCHANGED <<live, before, restored, botched, aside, starts, kills>>

\* The process is killed.
Crash ==
    /\ daemon # "off" /\ kills < MaxKills
    /\ kills' = kills + 1
    /\ restored' = IF daemon \in {"promote", "rollback"} THEN "cut" ELSE restored
    /\ Dies
    /\ UNCHANGED <<live, snapshot, aside, before, botched, promised, starts>>

-----------------------------------------------------------------------------
Restore ==
    \/ Start \/ NothingToRestore \/ DownloadFails \/ Extract
    \/ MoveAside \/ Promote \/ Sync \/ MoveFails
    \/ RollBack \/ PutBack \/ RestoreFails \/ RestoreEnds

Save == ClosePool \/ ArchiveSources \/ ArchiveBase \/ ArchiveLog \/ Send

Capture(w) ==
    \/ Accept(w) \/ BeginCapture(w) \/ PublishFile(w)
    \/ CommitCapture(w) \/ Acknowledge(w) \/ CaptureFails(w)

MemorydNext ==
    \/ Restore \/ Terminate \/ Save \/ LateCheckpoint \/ Crash
    \/ \E w \in Write : Capture(w)

MemorydSpec == MemorydInit /\ [][MemorydNext]_memorydVars

-----------------------------------------------------------------------------
(* Properties.                                                              *)

Phases == {"off", "download", "promote", "rollback", "serving", "draining", "saving", "sending"}

\* The state is well typed.
MemorydTypeOK ==
    /\ daemon \in Phases
    /\ live \in Images /\ before \in Images
    /\ snapshot \in Images \cup {NoSnapshot} /\ staged \in Images \cup {NoSnapshot}
    /\ archive \in Images \cup {NoSnapshot}
    /\ move \in 1..(Len(Order) + 1) /\ step \in {"backup", "rename", "sync", "base", "log"}
    /\ backups \in Seq(Path) /\ promoted \in Seq(Path)
    /\ aside \in [Path -> SUBSET Content]
    /\ restored \in {"no", "done", "failed", "cut"} /\ botched \subseteq Path
    /\ request \in [Write -> {"idle", "accepted", "begun", "filed", "committed", "acked", "failed", "over"}]
    /\ pool \in {"open", "closed", "reopened"} /\ quiet \in BOOLEAN
    /\ promised \subseteq Write
    /\ starts \in 0..MaxStarts /\ kills \in 0..MaxKills

\* A restore that fails leaves what was live as it was ("TestRestoreFailureLeaves-
\* PreviousDataReadable", snapshot_test.go:141), whichever operation failed, but for the
\* paths at which the rollback failed in turn, whose errors promoteSnapshot ignores; and
\* until a restore is complete, what it replaces is in place or in a backup on the disk,
\* also when operations of the rollback fail and when the process is killed between any
\* two of its steps.
RestoreIsAtomic ==
    /\ restored = "failed" /\ daemon = "off" =>
          \A p \in Path \ botched : live[p] = before[p]
    /\ restored # "done" /\ daemon \in {"download", "promote", "rollback", "off"} =>
          \A p \in Path : before[p] # NoFile => live[p] = before[p] \/ before[p] \in aside[p]

\* A daemon never serves parts of two images: a journal of the one beside the database of
\* the other would be replayed into it.  And doc.go:6 of persistence: what was acknowledged
\* before a shutdown that found no handler at work, and was saved, is there in every
\* daemon that serves later, with its source file, whatever came between.
ServedIsWhole ==
    daemon = "serving" =>
       /\ \A p, q \in Path : live[p] # NoFile /\ live[q] # NoFile => live[p].gen = live[q].gen
       /\ promised \subseteq live["data"].sources \cap (live["data"].base \cup live["data"].log)

\* Snapshots keep what they are for, while they are restored and once they are served.
SnapshotsHold == RestoreIsAtomic /\ ServedIsWhole
=============================================================================
