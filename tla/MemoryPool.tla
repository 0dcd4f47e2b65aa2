----------------------------- MODULE MemoryPool -----------------------------
(***************************************************************************)
(* The pool of domain repositories (memory/graph/repository/pool.go), for  *)
(* one domain other than the default one: domains share nothing but the    *)
(* mutex.  A handle is an opened repository; its file is the database the  *)
(* domain's directory held when it was opened, which it keeps writing when *)
(* the directory has been removed under it.  SQLite and the file system    *)
(* are external.                                                           *)
(***************************************************************************)
EXTENDS Naturals, FiniteSets

CONSTANTS
    Client,      \* requests
    Sweeping,    \* those that go over all known domains
    Remover,     \* calls of RemoveMemoryDomain
    DeletingFiles, \* those with deleteFiles
    MaxHandles   \* bound: repositories opened

ASSUME PoolAssumption ==
    /\ Sweeping \subseteq Client /\ DeletingFiles \subseteq Remover
    /\ MaxHandles \in Nat \ {0}

VARIABLES
    mapped,   \* Pool.repos: the handle of the domain, or 0
    opened,   \* handles opened so far, 1..opened
    closing,  \* handles Close took out of the map and has not closed yet
    closed,   \* handles closed
    fileOf,   \* handle |-> its database file
    disk,     \* the database file in the domain's directory, or 0
    client,   \* client |-> step of the request
    handle,   \* client |-> handle it was given
    stored,   \* file |-> writes it holds
    remover,  \* remover |-> step of the call
    target,   \* remover |-> handle it took out of the map
    shadowed  \* history: handles a removal of the files was under way for

poolVars == <<mapped, opened, closing, closed, fileOf, disk, client, handle, stored, remover, target, shadowed>>

Handle == 1..MaxHandles

PoolInit ==
    /\ mapped = 0 /\ opened = 0 /\ closing = {} /\ closed = {}
    /\ fileOf = [h \in Handle |-> 0] /\ disk = 0
    /\ client = [c \in Client |-> IF c \in Sweeping THEN "list" ELSE "fetch"]
    /\ handle = [c \in Client |-> 0]
    /\ stored = [h \in Handle |-> {}]
    /\ remover = [x \in Remover |-> "idle"] /\ target = [x \in Remover |-> 0]
    /\ shadowed = {}

Turn(c, step) == client' = [client EXCEPT ![c] = step]
Removing == \E x \in DeletingFiles : remover[x] \in {"close", "delete"}

\* knownDomainIDs: the domain is in the map or on the disk.
List(c) ==
    /\ client[c] = "list"
    /\ Turn(c, IF mapped # 0 \/ disk # 0 THEN "fetch" ELSE "done")
    /\ UNCHANGED <<mapped, opened, closing, closed, fileOf, disk, handle, stored, remover, target, shadowed>>

\* Open, under the mutex: MkdirAll and SQLite make what is missing; a new
\* database file is named after the handle that made it.
OpenDomain(h) ==
    /\ opened' = h
    /\ fileOf' = [fileOf EXCEPT ![h] = IF disk = 0 THEN h ELSE disk]
    /\ disk' = fileOf'[h]
    /\ shadowed' = IF Removing THEN shadowed \cup {h} ELSE shadowed

\* Fault: the domain is opened outside the mutex, and entered by whoever comes last.
Fetch_Unlocked(c) ==
    /\ client[c] = "fetch" /\ opened < MaxHandles
    /\ OpenDomain(opened + 1)
    /\ mapped' = opened + 1
    /\ handle' = [handle EXCEPT ![c] = opened + 1]
    /\ Turn(c, "use")
    /\ UNCHANGED <<closing, closed, stored, remover, target>>

\* repoForDomain.
Fetch(c) ==
    /\ client[c] = "fetch"
    /\ \/ /\ mapped # 0
          /\ handle' = [handle EXCEPT ![c] = mapped]
          /\ UNCHANGED <<mapped, opened, fileOf, disk, shadowed>>
       \/ /\ mapped = 0 /\ opened < MaxHandles
          /\ OpenDomain(opened + 1)
          /\ mapped' = opened + 1
          /\ handle' = [handle EXCEPT ![c] = opened + 1]
    /\ Turn(c, "use")
    /\ UNCHANGED <<closing, closed, stored, remover, target>>

\* The call of the repository: it fails on a closed handle.
Use(c) ==
    /\ client[c] = "use"
    /\ IF handle[c] \in closed
       THEN Turn(c, "failed") /\ UNCHANGED stored
       ELSE /\ Turn(c, "done")
            /\ stored' = [stored EXCEPT ![fileOf[handle[c]]] = @ \cup {c}]
    /\ UNCHANGED <<mapped, opened, closing, closed, fileOf, disk, handle, remover, target, shadowed>>

Calls(x, step) == remover' = [remover EXCEPT ![x] = step]

\* RemoveMemoryDomain, under the mutex.
Unmap(x) ==
    /\ remover[x] = "idle"
    /\ target' = [target EXCEPT ![x] = mapped] /\ mapped' = 0
    /\ shadowed' = IF x \in DeletingFiles THEN shadowed \cup 1..opened ELSE shadowed
    /\ Calls(x, "close")
    /\ UNCHANGED <<opened, closing, closed, fileOf, disk, client, handle, stored>>

CloseTarget(x) ==
    /\ remover[x] = "close"
    /\ closed' = closed \cup ({target[x]} \ {0})
    /\ Calls(x, IF x \in DeletingFiles THEN "delete" ELSE "removed")
    /\ UNCHANGED <<mapped, opened, closing, fileOf, disk, client, handle, stored, target, shadowed>>

\* os.RemoveAll of the domain's directory.
RemoveAll(x) ==
    /\ remover[x] = "delete"
    /\ disk' = 0
    /\ Calls(x, "gone")
    /\ UNCHANGED <<mapped, opened, closing, closed, fileOf, client, handle, stored, target, shadowed>>

\* Pool.Close empties the map under the mutex and closes the handles after it.
CloseAll ==
    /\ mapped # 0
    /\ closing' = closing \cup {mapped} /\ mapped' = 0
    /\ UNCHANGED <<opened, closed, fileOf, disk, client, handle, stored, remover, target, shadowed>>

CloseNext(h) ==
    /\ h \in closing
    /\ closed' = closed \cup {h} /\ closing' = closing \ {h}
    /\ UNCHANGED <<mapped, opened, fileOf, disk, client, handle, stored, remover, target, shadowed>>

PoolNext ==
    \/ CloseAll \/ \E h \in Handle : CloseNext(h)
    \/ \E c \in Client : List(c) \/ Fetch(c) \/ Use(c)
    \/ \E x \in Remover : Unmap(x) \/ CloseTarget(x) \/ RemoveAll(x)

PoolSpec == PoolInit /\ [][PoolNext]_poolVars

-----------------------------------------------------------------------------
(* Properties.                                                              *)

\* The state is well typed.
PoolTypeOK ==
    /\ mapped \in 0..opened /\ opened \in 0..MaxHandles
    /\ closing \subseteq 1..opened /\ closed \subseteq 1..opened
    /\ fileOf \in [Handle -> 0..opened] /\ disk \in 0..opened
    /\ client \in [Client -> {"list", "fetch", "use", "done", "failed"}]
    /\ handle \in [Client -> 0..opened]
    /\ stored \in [Handle -> SUBSET Client]
    /\ remover \in [Remover -> {"idle", "close", "delete", "removed", "gone"}]
    /\ target \in [Remover -> 0..opened]
    /\ shadowed \subseteq 1..opened

\* A repository that is open is the one of the map or one that its remover or Close is
\* about to close: however requests, removals and Close interleave, requests share the
\* one of the map and none is forgotten open.  And what a request stored is in the
\* domain's directory, unless the files were being deleted while its repository was open.
OpenIsOwned ==
    /\ \A h \in (1..opened) \ closed :
          \/ h = mapped \/ h \in closing
          \/ \E x \in Remover : remover[x] = "close" /\ target[x] = h
    /\ \A c \in Client :
          client[c] = "done" /\ handle[c] \notin shadowed \cup {0} =>
             disk # 0 /\ c \in stored[disk]
=============================================================================
