# Formal models of Agent Awesome

Agent Awesome runs *runbooks*: state machines whose steps call tools, models and
commands, pause for people and survive restarts. Around them it has a queue of
launches, a gateway that turns Slack messages into agent turns, a memory daemon that
keeps a graph per domain, and services for definitions, targets and chats. This
directory models the parts whose correctness depends on the order of events. TLC checks
the models on small instances; TLAPS proves the safety properties, and the three
refinements, for every value of the constants.

File names below are relative to `src/`, with

    RT  harness/internal/services/runbook/runtime     GW  gateway/internal
    LP  harness/internal/services/launchpad           MEM memory/internal/memory

## 1. Inventory of the system

| Part | State | Operations | What is hard |
|---|---|---|---|
| Runbook runtime (`RT`, `runbook/store`) | SQLite rows per run: run, node states, step outputs, pending items, events; in memory: definitions, one mutex per run, rate hits | start, execute, signal, cancel, reload, resume at start | each run has one mutex for its goroutines, but signals, cancels and restarts write the same rows without it |
| Launchpad queue (`LP/store.go`, `LP/service.go`) | rows of `launch_run_queue` with status, attempts, lease and run id; run links and snapshots | enqueue, lease, renew, start, release, cancel, recover, enqueue due schedules | leases that expire under a live holder, lists that are stale when they are acted on, limits that are counted before the insert |
| Queue worker (`LP/queueworker`) | the lease and the run of one tick | recover, enqueue due, lease, start, poll, renew, release, over HTTP through the gateway | lost requests, time-outs, a worker that dies at any point |
| Runbook definitions and drafts (`RT/service.go`, `RT/authoring*.go`) | YAML files, loaded definitions and their hash, tables of definitions, publications and drafts | reload, list, edit, validate, publish, delete | files change while they are hashed, read and mirrored; a draft is read, changed and written back |
| Target registry (`harness/.../services/targets`) | rows of targets, the pairing secret | open, invite, register, heartbeat, edit | rows are read and written back by separate statements; two first requests create the secret |
| Harness memory adapter (`harness/internal/adkmemory`) | a cursor per chat, the domains that informed a turn, kept per user | search, save a session after each turn | a capture that fails half way, overlapping turns, a restart |
| Gateway Slack adapter (`GW/slack`) | table of seen events, slots, active senders, one socket | receive, deduplicate, limit, acknowledge, dispatch, reply | redelivery over two transports while the first delivery is being admitted |
| Gateway supervisor (`GW/supervisor`, `gateway/cmd`) | table of child processes, statuses | start one after the other, wait for health, close | children that hang, die or start while the gateway closes |
| Memory daemon and snapshots (`memory/cmd/memoryd`, `MEM/persistence`) | database, journals and data directory; staged copies and backups | restore, serve, shut down, save | four paths are replaced one after the other, and archived one after the other |
| Memory captures (`MEM/graph/repository`, `MEM/graph/store`) | rows in a transaction, source files beside them | capture, correct | files and rows have no common commit; requests are repeated |
| Memory domains (`repository/pool.go`) | a map of open repositories, directories | open, use, remove, close | a domain is removed while requests open and use it |
| Memory tasks (`repository/tasks.go`) | a node, its properties and edges | create, update, complete, cancel, delete | several statements per request, no transaction |
| Memory queries (`MEM/graph/query`) | the state of one execution | FIND, MATCH of one edge, MATCH of paths, mutations | many statements per query, cycles, several limits |
| Launch documents, input resolution, policy; runbook scheduler; rate limit; command service; capability registry; tool and agent validation; agent runtime, context API; gateway server, proxy and policy; memory projections; configuration; command lines; Desktop UI | see `PROJECT.json` | | mostly pure, see section 5 |

Interactions: a queue worker talks to the Launchpad service by HTTP; that service calls
`StartRunbook` in the same process and writes link, snapshot and queue row around it;
the worker then polls the run. Users, channels and other runbooks answer pending items
through `Signal`. Slack messages reach the agent through the adapter and the gateway,
which the supervisor brings up with its dependencies; what a turn said is captured into
`memoryd`, whose snapshots carry it to the next machine.

What makes each modelled part correct:

* **runbook runtime**: an action takes effect no more often than its attempts allow,
  and never again once it succeeded; approval comes before effect; a node's verdict
  is consistent and final; a waiting run can be answered; a running run settles;
  a finished run stays finished.
* **queue**: a row's status tells what became of the run it names; one run per
  lease; a lost lease cannot decide a row; attempts are bounded; schedule limits
  hold; every row ends.
* **Slack adapter**: an event is with the agent once per window, a sender once at a
  time; what was acknowledged was admitted; every slot comes back.
* **supervisor**: a living child can be found by `Close`; start-up ends.
* **memory daemon**: a restore happens or does not; a daemon never serves two halves of
  two images; what was acknowledged and saved is served later.
* **captures**: rows and files agree; an answered capture is stored; a key is captured once.
* **domains**: one open repository, none leaked; what was stored is where it is looked for.
* **tasks and queries**: a task reads back as one task; a query returns what is there.
* **definitions and drafts**: what is listed is what is deployed; an edit is kept.
* **targets**: an invite is accepted until it expires; a name outlives heartbeats.
* **chats**: no event is passed over; an answer goes only where its sources may.

`PROJECT.json` lists every component, modelled or not, and the hazards line by line.

## 2. Modules

| Module | Role |
|---|---|
| `RunbookRun` | one run: durable rows, `executeRun` goroutines, signals, cancel, crash, restart, reload |
| `NodeLifecycle` | abstract: what the runtime promises about one node and its action |
| `LaunchQueue` | the queue rows, the workers' `RunOnce`, leases, runs, faults |
| `QueueLifecycle` | abstract: what the queue promises about one row |
| `SlackAdapter` | deliveries of Slack events, deduper, limiter, dispatch, socket |
| `EventDelivery` | abstract: what the adapter promises about events |
| `Supervisor` | start-up, children, signal, shutdown and close of the gateway |
| `MemoryDaemon` | restore, captures while serving, shutdown, save, kills |
| `MemoryCapture` | captures with one key, rows and source files |
| `MemoryPool` | the repository of one domain: open, use, remove, close |
| `TaskGraph` | requests on one task, statement by statement |
| `GraphQuery` | the executor of one query, with mutations beside it |
| `RunbookAuthoring` | files, loaded definitions, tables, drafts, reloads, requests |
| `TargetRegistry` | targets, invites and the pairing secret |
| `SessionCapture` | turns, sources, cursor and captures of chats |
| `Gateway`, `Memory`, `Harness` | the parts of one process side by side |
| `MCRunbookRun`, `MCLaunchQueue`, `MCGateway`, `MCMemory`, `MCHarness` | the instances TLC checks |
| `RunbookRun_proofs`, `RunbookRun_safety` | type correctness; the invariant, safety and the refinement |
| `RunbookRun_patient` | what holds when callers answer waiting runs only |
| `LaunchQueue_proofs`, `LaunchQueue_safety` | type correctness; the invariants, safety and the refinement |
| `Gateway_proofs`, `Memory_proofs`, `Harness_proofs` | the same for the other parts, and their composition |

Everywhere an action is the longest piece of code that nobody can interleave with: one
SQL statement, one transaction's statement, one critical section, one file operation or
one call of another process.

### RunbookRun

*State.* `run`, `node`, `output`, `approval` and `open` are the rows of one run (run
record, node states, step outputs of the nodes, outputs saved under `<node>.policy`,
open pending items). `lock` is the mutex of `lockRun`. `pc`, `frame` and `act` are
one `executeRun` goroutine: its next step, its position in the recursion of
`executeState` (state, depth, the parents still to be resumed, trigger), and the
locals of `executeStateAction`. `sig` and `cancel` are calls in progress.
`effects`, `wins` and `granted` are history: how often an action ran, how often it
succeeded, who was approved.

*Steps.* The goroutine's walk is

    LockRun -> LoadRun -> EnterState -> NextEntry* -> EntryDone -> Transit -> ...
               CountAttempts -> NextAttempt -> FireStart -> Invoke [-> AskPolicy]
               -> Execute -> SaveOutput -> FireSucceed
               or, attempts used up: SaveFailure -> FireFailRead -> FireFail
               ends: ParkRun/WaitRun, MachineEnded/FinishRun, FailRun

in the order of `executeRun`, `executeState`, `executeStateEntry`,
`executeStateTransition`, `executeStateAction` and `executeStateActionAttempt`.
`SignalBegin ... SignalSpawn` are the statements of `Signal` and
`completePendingSignals`; `CancelRead`/`CancelWrite` those of `Cancel`; `Open` is
`ResumeActiveRuns` after `Crash`. Two actions join a read to the write after it
(`FireSucceed`, `SignalSave`): the row a goroutine reads there is written by nobody
else, or the read commutes with those writes.

*Data.* A definition is given by constants (states at every level, entry actions,
transitions, retries). A node is an `effect`, `gated` (its policy decision is
"needs approval") or `human` (`human.request`). The result of an action is its
success, with a suggested trigger, or its failure; input validation, a policy
denial and the rate limit are one free choice for the nodes in `Rejectable`. Output
bodies, events and texts are left out. Node ids are taken to be unique over the
definition, as the rows require.

### LaunchQueue

*State.* `item` is the table, `runs` the runbook runs started for each row with
their links and snapshots; `pc`, `expired`, `due`, `job` are one worker: its request
in progress, the rows its recovery has selected, the launches its schedule pass has
still to look at, the row it holds and the release it will send.

*Steps.* One SQL statement, one transaction (`Lease`), or one call into the runbook
service. `RecoverSelect`/`RecoverUpdate` keep the SELECT apart from the updates of
its loop, `CountRuns`/`CountActive`/`EnqueueDue` the counts from the insert,
`CheckLease` ... `MarkRunning` the five steps of `StartQueuedLaunchRun`.
`LoseCall` is a start request or a poll that fails (the worker then releases the row
as failed), `Die` the end of a worker or a failing request `RunOnce` does not clean up
after. When its client is gone a handler stops where it is; the request context that
`ExecContext` and `BeginTx` get makes it. `RunChanges` is the runbook service, which
writes the status of a run by id only: any status follows any other, `Cancel` overwrites a
run that has succeeded, the next state of a canceled run makes it active again. `won` is
history: the run has been succeeded at some time.

*Time.* A lease has an age instead of a timestamp: live, expired for the start
request (parsed), expired for the recovery as well (compared as text against a
longer timestamp, up to a second later). The order of `enqueued_at` is kept by the
second: within one second the textual order is arbitrary, because trailing zeros are
cut and the tie-break is a random id.

*Lease ids.* A worker runs one `RunOnce` at a time, and forgets its lease id when that
ends, so that the worker stands for its current lease id.

### SlackAdapter, EventDelivery

A delivery is one attempt of Slack to hand over an event: an HTTP request (many at once)
or an envelope on the socket (one at a time). `pc` leads it through
`AcceptEnvelopeWithDelivery`: the filter (`Receive`), a reading of the clock and
`contains` under the deduper's mutex, `begin` of the limiter in its two halves
(`TakeSlot`, `TakeScope`), a second reading and `accept`, and then the goroutine of
`dispatch` (`Lookup`, `Create`, `Recheck`, `Run`, `Deny`, `Fail`, `Post`) up to the two
halves of `release` (`Leave`, `Unslot`). `seen` is the deduper's table, `slots` and `active`
the limiter, `link` the socket, which a throttled envelope closes. Requests that are
repeated while the gateway says "dependency not ready" change nothing and are left out.

`EventDelivery` does the duplicate check, the limit and the dispatch at once:
`remembered` is the set of events whose window in `seen` lies beyond the clock, `working`
the events with the agent. `Accept` maps to `Admit`, `Post` to `Finish`, ticks and pruning to
`Forget`; the rest stutters.

### Supervisor

`turn` and `step` are `ensureServices` and the `Ensure` it is in: probe, launch, enter the
table, announce, wait for health, and the three ways out (exited, deadline with interrupt
and kill, healthy). `Signal`, `ContextKill`, `Shutdown` and `Close` (copy of the table,
interrupts, waits) are the other goroutines, `Exit` the return of main. Children
listen, hang, ignore the interrupt and die; somebody else may answer on the port.

### MemoryDaemon, MemoryCapture, MemoryPool

`MemoryDaemon`: `live` maps the four paths to contents, `snapshot` is what the endpoint
stores. A restore downloads, extracts, and for each path moves what is there aside,
renames the staged one into place and syncs (`MoveAside`, `Promote`, `Sync`); an error at
any of them starts the rollback, move by move. Its own operations may fail as well, and
`promoteSnapshot` ignores that: the path keeps a remnant (`Remnants`) or nothing, and is
noted in the history `botched`. Then the daemon serves captures (`Accept`
to `Acknowledge`); `Terminate`, `ClosePool` and the three `Archive` steps are the end
of `main` with `Save`: source files, database and log are read one after the other.
`Crash` ends the process between any two steps. `before`, `restored`, `promised` are history.

`MemoryCapture`: a handler looks its key up, begins, stages the source file, writes rows,
publishes the file, commits, removes what it superseded, or cleans up; a correction then
links the memory it corrects. Each of these may fail, and the process may be killed. A
removal of a file whose error is ignored may fail too (`Removes`); `littered` notes the file.
The transaction holds the domain's one connection.

`MemoryPool`: `mapped` is the entry of one domain in the pool, `closed` the handles
closed, `disk` the database in its directory. Requests list, fetch and use; removals take
the handle out of the map under the mutex, and close it and delete the directory after.
`Close` does the same with all there is: `CloseAll` is its critical section, which leaves the
handles in `closing`, and `CloseNext` closes one of them without the mutex.

### TaskGraph, GraphQuery

`TaskGraph`: one task's node, status, stamps and project edges; seven requests walk
through the statements of their operation, two of them at a time, and may stop after any.
`Patching` are the requests that write a status (complete, cancel, reopen, or any
other that is neither done nor canceled); `StatusOf` says which, for creations as well. A
patch writes the status, its own stamp and clears the other one, or clears both; a creation
with status done or canceled writes the stamp. `settled` is history: the last writer of the
status has finished and is not in `crowded`, the requests during which another status was
written.

`GraphQuery`: `Search` and `GetRow` read the nodes, `Hop` and `GetFrom` the edges and
ends of a MATCH of one edge, `Root`, `ListOutgoingEdges`, `Follow` and `Return` the
recursion of `walk` (`stack` is its call stack), `Answer` sorts and cuts. `Mutate` is
any committed change of a row in between. `Matches` is the reference: all paths that the
statement is about, as a set, with no walk. Rows are sets; `NodePlace` and `EdgePlace` are the
places that `ORDER BY` gives them, `First` and `Prefix` what a loop takes next and what a
`LIMIT` leaves.

### RunbookAuthoring, TargetRegistry, SessionCapture

`RunbookAuthoring`: a reload is `Lock`, `Compare` (the hash), `Snapshot`, `Load`,
`Store`*, `Prune`, `ListRows`, `DropMirror`*, `AddMirror`*, `Install`; requests on drafts
read, write files (truncated first), record, save, remove. `Deploy` is anybody else's change of
a file, `Break` an error or a client that has gone, `Restart` the end of the process.
`cameBack` is history: some file was put back as the loaded definitions, or a reload under
way, had read it before, which the hash cannot tell. `edited` is the last edit of a draft, until
that draft is published: what is published is a mirror of its definition from then on, and goes
when the definition's file goes (`authoring.go:70`).

`TargetRegistry`: every request is a `Get` and a `Put` of a row, invites and registrations
pass `SelectSecret`, `InsertSecret` and the check of the invite first. `Reopen` is a start of
the service, which registers the local target again.

`SessionCapture`: a turn adds its events to the store and to its own copy of the session,
searches domains (which marks them), answers, and is captured event by event from the
cursor on. `Fail` is an error or the plugin's deadline; `Reboot` loses cursor and marks.

## 3. Runs

| Run | Question | Instance |
|---|---|---|
| `runbook_restart` | Do pauses, answers, refusals, reloads and restarts leave anything stuck, inconsistent, asked twice, lost or revived? (`WaitingHasQuestion`, `VerdictsAgree`, `InboxIsClean`, `FinishedIsFinal`, `RunSettles`, `AnswerIsFollowedUp`) | 2 goroutines, 3 signals to waiting runs, 2 crashes at any point, a definition that vanishes or comes back |
| `runbook_storm` | Can concurrent signals, a cancel and a crash make an action run too often, or before its approval? (`TypeOK`, `EffectsAreBounded`, `ApprovalFirst`, and `NodesFollowLifecycle`: RunbookRun implements NodeLifecycle) | 2 goroutines, 2 concurrent signals at any time, a cancel, a crash |
| `runbook_stuck` | expected violation of `WaitingHasQuestion` | signals to a running run |
| `runbook_verdict` | expected violation of `VerdictsAreFinal` | signals to a running run |
| `runbook_revived` | expected violation of `FinishedIsFinal` | one cancel |
| `queue_serial` | With one worker, do schedule limits hold, does the queue implement QueueLifecycle, does every row end? (`WithinSchedule`, `ItemsFollowLifecycle`, `QueueDrains`) | 1 worker, 2 launches, 2 rows, a death or lost call |
| `queue_fleet` | With workers that race, is what a row says true? (`TypeOK`, `RunningIsRecorded`, `CompletedMeansSucceeded`, `LatestAttemptDecides`, `AttemptsAreBounded`) | 2 workers, 1 row, a fault, a cancel of the row or of a run that has ended, rows queued by hand |
| `queue_recovery` | expected violation of `TerminalIsFinal` | 2 workers, no faults |
| `queue_order` | expected violation of `OldestFirst` | 1 worker, 2 rows |
| `gateway` | Do racing deliveries respect window, limits and acknowledgements, and does the adapter implement EventDelivery? Is any child of the supervisor lost, does start-up end? (`GatewayTypeOK`, `LimitsHold`, `AcknowledgedIsAdmitted`, `DeliveredOnce`, `SlotsReturn`; `ChildrenAreOwned`, `StartupSettles`) | 2 deliveries of 3 events, one of them on the socket, limit 1 or 2, window 1, clock up to 2; 2 services |
| `memory` | Are snapshots atomic and whole, do files, rows and answers agree, is every open repository owned by somebody, does a task read back, is a query exact? (`MemoryTypeOK`, `SnapshotsHold`, `FilesMatchRows`, `AnsweredIsStored`, `CapturedOnce`, `OpenIsOwned`, `TaskReadsBack`, `QueryIsExact`) | 2 captures over 3 starts with a kill; 3 captures with one key, 2 tries, a kill; 3 requests, 2 removals, 3 handles; 7 requests on a task (two creations, open and canceled, a completion, a reopening, a move, a rename, a deletion), 2 at once; 4 statements on 4 nodes and 7 edges, 2 mutations |
| `harness` | Are definitions in step with their files, edits kept, invites accepted, names kept, events and sources captured? (`HarnessTypeOK`, `DefinitionsInStep`, `EditIsKept`, `InvitesAreAccepted`, `EditsOutliveHeartbeats`, `NoEventSkipped`, `AnswersKeepToFlows`) | 3 of 5 requests on 2 definitions, 2 at once, 2 foreign changes of files, a restart; 2 invites, 2 registrations, 2 users, 2 starts; 3 turns of 2 chats, a failure, a restart |

`gateway`, `memory` and `harness` hold several parts that share no state. The modules
`Gateway`, `Memory` and `Harness` choose one in the initial state (`part`): it moves, the others
stand still. Since no action reads the state of another part, this checks each of them in full.

The expected violations are disagreements between the code and what its own docs and
comments say (the quotations are in `PROJECT.json`):

* a signal accepted while the run executes spawns a goroutine that asks the same question a
  second time; the next signal completes both items, fails on the second, because the
  first has made the node succeed, and returns before it spawns anything: the run waits for an
  empty inbox for good (`runbook_stuck`);
* a signal between the read and the write of `fireNodeStateTrigger` loses a verdict
  (`runbook_verdict`);
* a canceled run becomes running again with the next state it enters, and goes on
  (`runbook_revived`);
* a recovery queues a row again that its holder finished in the meantime
  (`queue_recovery`); the same unconditional update is why attempts can exceed the
  limit, by at most one per other worker;
* `enqueued_at` does not order the rows of one second (`queue_order`).

**Bounds.** The release runbook has every kind of node, a composite state, a `failed`
and a custom transition, a loop that only the depth limit (4 instead of 128) ends, a
retry and a refusable attempt. Two goroutines are the least that contend for the mutex;
a third would wait like the second. When both are busy a spawn waits in the model; in Go
it would wait for the mutex. Two signals at once are the least that interleave with each
other, with the walk and a cancel. One row suffices for the races of two workers, since
statements name one row; two rows and two launches show the schedule limits and the
drain. Two deliveries and three senders meet in the same slot, in the same sender, in the
same thread's session and in the same event, within and after the window; two services
show that one that fails does not keep the next from its turn. Three starts let a
restore meet what the save of the first daemon stored, and the leftovers of a kill. Three
captures give a key a winner, a loser and a correction; two removals are the least that
race for one handle, and three handles let a domain be opened again after each. The
graph has two ways to one node, a cycle, an edge from a node to itself and more matches
than each limit. A listing, a publication and an edit (or a validation, or a deletion)
are the least that share a draft and a file; they are about a mirror, so that a publication
decides between a draft of the user's and one that reloads may delete; two turns of one chat
overlap, the third is the other chat of the same user. `Max...` constants bound the environment, the clock or
the number of requests, never a step of the code, but `MaxDenials`, `MaxRoots`,
`MaxPaths` and `MaxDepth`, which are limits of the code made small.
Symmetry is used in runs without liveness.

**Fairness.** Goroutines and requests in progress keep running (weak fairness per
goroutine, call, worker and delivery), because the Go scheduler and the HTTP server run
them. The run mutex is granted with strong fairness: `sync.Mutex` switches to starvation
mode and hands over in order. `Open` is fair: the service is restarted. For workers, cron
starts a tick again after each one ends, `RunTimeout` ends every wait, and time passes
(`Expire`). A turn of the Slack agent ends at its deadline, which is a step of its delivery
(`Fail`). `ensureServices`, the kill that `os/exec` makes when the context ends, the shutdown
goroutine and `Close` are fair each for itself. Nothing is assumed about users, Slack,
children or runbooks: nobody has to start, answer, cancel, deliver, become ready, listen,
exit or end. The runs `memory` and `harness` check safety only.

**Assumed of callers.** `PatientSpec` lets callers signal waiting runs only, as the
inbox of the UI does; nothing in `Signal` enforces it, which is what `runbook_stuck`
shows. `SerialSpec` has no manual enqueues and its instance no cancels: the schedule's
limits ignore manual rows by design, and a cancel that meets a recovery is one way into
`TerminalIsFinal`'s violation.

**Left out by a property.** Some properties name what they do not cover by a history variable:
`crowded` (requests that write different statuses of a task overlap, or a creation finds
the task already there), `crossed` (two requests replace the project of a task, or turns of
one chat overlap), `overlapped` (somebody held an older reading of the draft when it was
edited), `mixed` (the same for a target), `cameBack` (a file is again as a reload had read
it), `unmarked` (another turn cleared a user's sources), `shadowed` (files deleted while the
domain was in use), `quiet` (no handler ran at the shutdown), `botched` and `littered`
(operations whose errors the code ignores failed). In each of these the code may overwrite or
lose what the other did; they are hazards with a note in `PROJECT.json`, and the property
promises nothing there.

## 4. Proofs

Every invariant and every safety action property of the passing runs is stated by a theorem.
Nothing bounds the number of nodes, states, goroutines, signals, cancels, crashes,
workers, launches, rows, events, deliveries, services, captures, requests, targets,
turns, domains, definitions, drafts, kills, or the size of a graph. The assumptions are
`DefinitionAssumption` (a definition is well formed, which loading and
`definition/validation.go` ensure), `BoundsAssumption`,
`QueueAssumption` (policies with the defaults filled in; a finite, non-empty set of
workers), `SlackAssumption` (finitely many deliveries, limits and window at least 1, as
the defaults fill them in), `SupervisorAssumption` (a finite list of services),
`MemorydAssumption` (the shapes of an image are sets of the four paths), `GraphAssumption` (a
finite graph, places that tell rows apart, path lengths from at least 1), `CaptureAssumption`,
`PoolAssumption`, `TaskAssumption`, `AuthoringAssumption`, `NoneAssumption`,
`RegistryAssumption` and `SessionAssumption` (kinds of requests are disjoint, markers are no
values). TLC evaluates all of them.

| Theorem | States | Where |
|---|---|---|
| `TypeCorrect` | `Spec => []TypeOK` | `RunbookRun_proofs` |
| `EffectsWithinBudget`, `NoSuccessRepeated`, `EffectsBounded` | `Spec => []EffectsAreBounded`, and its two halves | `RunbookRun_safety` |
| `ApprovedBeforeEffect` | `Spec => []ApprovalFirst` | `RunbookRun_safety` |
| `ImplementsLifecycle` | `Spec => NodesFollowLifecycle`, the refinement | `RunbookRun_safety` |
| `FinishedStaysFinished` | `OneAtATime` proves `PatientSpec => FinishedIsFinal` | `RunbookRun_patient` |
| `WaitingRunHasQuestion` | `OneAtATime` proves `PatientSpec => []WaitingHasQuestion` | `RunbookRun_patient` |
| `RowsTellOneVerdict` | `OneAtATime`, `HumansAnswered` prove `PatientSpec => []VerdictsAgree` | `RunbookRun_patient` |
| `InboxStaysClean` | `OneAtATime`, `AsksAlways` prove `PatientSpec => []InboxIsClean` | `RunbookRun_patient` |
| `TypeCorrect` | `Spec => []TypeOK` | `LaunchQueue_proofs` |
| `RunsAreRecorded` | `Spec => []RunningIsRecorded` | `LaunchQueue_safety` |
| `CompletedRunsSucceeded` | `Spec => []CompletedMeansSucceeded` | `LaunchQueue_safety` |
| `NewestLeaseDecides` | `Spec => []LatestAttemptDecides` | `LaunchQueue_safety` |
| `StartedOncePerLease`, `AttemptsAreLimited`, `AttemptsBounded` | `Spec => []AttemptsAreBounded`, and its two halves | `LaunchQueue_safety` |
| `ScheduleIsKept` | `Single => (SerialSpec => []WithinSchedule)` | `LaunchQueue_safety` |
| `OneWorkerImplementsLifecycle` | `Single => (Spec => ItemsFollowLifecycle)`, the refinement | `LaunchQueue_safety` |
| `SlackTypeCorrect` | `SlackSpec => []SlackTypeOK` | `Gateway_proofs` |
| `LimitsAreKept` | `SlackSpec => []LimitsHold` | `Gateway_proofs` |
| `AcksAreBacked` | `SlackSpec => []AcknowledgedIsAdmitted` | `Gateway_proofs` |
| `ImplementsDelivery` | `SlackSpec => DeliveredOnce`, the refinement | `Gateway_proofs` |
| `SupervisorTypeCorrect`, `NoChildIsLost` | `SupervisorSpec => []SupervisorTypeOK`, `[]ChildrenAreOwned` | `Gateway_proofs` |
| `CaptureTypeCorrect`, `RowsHaveFiles`, `AnswersAreStored` | `CaptureSpec => []CaptureTypeOK`, `[]FilesMatchRows`, `[]AnsweredIsStored` | `Memory_proofs` |
| `KeysAreCapturedOnce` | `CaptureSpec => CapturedOnce` | `Memory_proofs` |
| `PoolTypeCorrect`, `OpenHasOwner` | `PoolSpec => []PoolTypeOK`, `[]OpenIsOwned` | `Memory_proofs` |
| `TaskTypeCorrect`, `TasksReadBack` | `TaskSpec => []TaskTypeOK`, `[]TaskReadsBack` | `Memory_proofs` |
| `MemorydTypeCorrect`, `RestoredIsSaved` | `MemorydSpec => []MemorydTypeOK`, `[]SnapshotsHold` | `Memory_proofs` |
| `QueryTypeCorrect`, `QueriesAreExact` | `QuerySpec => []QueryTypeOK`, `[]QueryIsExact` | `Memory_proofs` |
| `RegistryTypeCorrect`, `OneSecretForAll`, `EditsStay` | `RegistrySpec => []RegistryTypeOK`, `[]InvitesAreAccepted`, `[]EditsOutliveHeartbeats` | `Harness_proofs` |
| `SessionTypeCorrect`, `CursorSkipsNothing`, `AnswersAreAllowed` | `SessionSpec => []SessionTypeOK`, `[]NoEventSkipped`, `[]AnswersKeepToFlows` | `Harness_proofs` |
| `AuthoringTypeCorrect`, `DefinitionsAgree`, `EditsAreKept` | `AuthoringSpec => []AuthoringTypeOK`, `[]DefinitionsInStep`, `[]EditIsKept` | `Harness_proofs` |
| `GatewayTypeCorrect`, `MemoryTypeCorrect`, `HarnessTypeCorrect` | the same of the parts together | `Gateway_proofs`, `Memory_proofs`, `Harness_proofs` |

**RunbookRun.** None of the properties is inductive. The inductive invariant `IInv` adds:

* `Mutex`: a goroutine past `LockRun` holds the mutex, so at most one is inside;
* `Steps`: for the holder, what each program point knows about the node it works on.
  Between `FireStart` and the verdict, the row says running with the attempt the
  goroutine counts, and the executions so far are fewer than, or equal to, that attempt
  plus the crashes, depending on whether the action has run in it;
* `Rows`: the same bounds for the rows at rest, when no goroutine works on the
  node. A row left running by a pause has its last attempt unspent; one left running by a
  crash has spent it, and the crash counter pays. This is what lets `nodeStateAttempts`
  count the attempt of a running row again;
* `Asked` and `HumanIdle`: a signal in progress fires human nodes only, and human
  nodes have no effects; so the rows of all other nodes belong to the mutex holder;
* `Approvals`: a saved "yes" was granted by somebody, and a gated node about to act has one.

Each action has one lemma-sized step that re-establishes the parts it can disturb,
`Crash` being the one that moves a node from `Steps` to `Rows`. The refinement is the
step simulation under `IInv`: `FireStart` maps to `Start`, `Execute` to `Execute`,
`FireSucceed` to `Succeed`, `FireFail` to `Fail`, all else to a stutter.

**RunbookRun under patient callers.** `OneAtATime` is one signal at a time and no cancel; the
expected violations show that the code does not keep these properties without it. `One` says
that the run is in one hand: `StartRunbook`'s, one goroutine's or the signal's, so that what
either has read is still so. From there the proof climbs:

* `Started` and `Closed`: a goroutine inside an action works on a row that is not final, and a
  signal that applies its items has emptied the inbox;
* `Single`: before the first crash the inbox has at most one item, has it exactly when
  the run is about to park, and a waiting run has it. After a crash
  `WaitingHasQuestion` promises nothing, see section 5;
* `Pauses`: a node that must ask and cannot be refused never gets past its first attempt
  without an answer, however often the walk comes by;
* `Verdicts`: of node row and output, the output is written first, and the one who has
  written it is the only one who can write the row;
* `Traced`: the walk is deterministic while no row changes its verdict, so the places it has
  gone through form a trail from the start to where it is, or to the node that
  asks. A restart begins at the start and follows the same trail, so it can only end at the
  question that is still open. This is why no run succeeds with a question left
  (`NoneLeft`), although the code never looks at the inbox when it finishes a run.

`HumansAnswered` and `AsksAlways` say: either the process does not die, or the nodes that ask are
not refused by input validation or the rate limit. Both are needed, TLC finds a
counterexample without: after a restart such a node may be refused before it asks again, its
older question stays in the inbox, and an answer to it marks a failed node
succeeded, or the run succeeds by another path. The runs' definition satisfies both.

**LaunchQueue.** Four of the properties share the invariant `Inv`, which adds:

* `StartedBy`: how far the worker is with its run: which of link and snapshot are
  stored, that the run carries the worker's attempt, and that a worker which is going
  to report "completed" has seen that run succeeded, whatever is written to it afterwards;
* `Attempts`: no two workers work for the same attempt of a row, and the one that still
  holds the lease works for the newest. This is why the `lease_owner` condition of
  `ReleaseRunQueueLease` is enough, although it does not compare attempts: a worker
  finishes with a row before it leases again, so its name in the row means its attempt;
* `RunsOfAttempts`: every run belongs to an attempt made so far, and a worker that has
  not started its run finds none with its attempt.

`AttemptsAreLimited` counts, for each row, the attempts, one more when it is queued,
and one more for every worker whose recovery has selected it and not updated it yet
(`Pending`). A selection happens only with attempts left; an update, a lease and an
insert never increase the sum beyond the limit plus one for each other worker. The
bound is what the code gives: the `UPDATE` of `RecoverExpiredRunQueueLeases` names the
id only. With a single worker the same sum says that a queued row has an attempt left,
which is the guard of the abstract lease, and `Alone` says that what recovery
selected is still leased or running when it is updated, and that a report of a
run reaches a running row only. `Single` asks for one worker and no cancels, of rows or of
runs that have ended; deaths, lost
calls, expired leases and manual enqueues are allowed. `ScheduleIsKept` adds `Counted`: between
the counts and the insert, what was counted is still below the limits, because what
the one worker's recovery can still put back is active already.

**Gateway.** `DInv` counts: the tokens in `slots` are those of the deliveries that hold one
(`Slots`), the entries of `active` are the senders of those past `TakeScope`, two of whom
never share a sender (`Senders`). `Turned` keeps readings of the clock behind the clock and
ties the place of a delivery to its admission, `Remembered` says that an admitted event stays in
`seen` until its window is over, and `Known` that whatever is in `seen`, or is about to be
acknowledged as a duplicate, was admitted. The
refinement follows: an admission finds the event not remembered by any reading up to now, and
no other delivery of that sender with the agent. `OInv` places each child by `turn` and
`step`: before its turn a service has none, within it the step tells, after it the table does.
`Gateway` as a whole has the conjunction of the invariants: each of its steps is a step of one
part and a stutter of the other. `Memory` and `Harness` are put together in the same way.

**Memory.** `FInv`: what each stage of a handler knows about its row and its file
(`Stages`), and that the file of an attempt is nobody else's (`OwnFiles`); a cleanup that runs
into the next transaction can therefore only remove its own. `PInv`: the handle of the map is
open and its file is the one in the directory unless that is being deleted (`Directory`).

`TInv` (tasks): a request that writes the status beside nobody who writes another one finds the
status it wrote, and the stamps it has written so far (`StatusInStep`); the one that replaces the project has found
all there is (`ProjectsInStep`).

`DInv` (restore and save): `Placed` says what becomes of a path: what was there before is in
place or in a backup until something took its place. `Moves` says that the
paths behind the current move are those of the staged image and those before it untouched; so
the end of the moves is the staged image, and the end of the rollback is what was there, at every
path where the rollback did not fail (`botched`). `Wholes`
says that the stored snapshot, the staged image, what is served and what is archived are
of one generation and hold everything promised, as far as they have been read. `Writes`
follows an accepted capture from file to log to database; a pool closed in quiet leaves
nothing in the log, which is why reading database and log one after the other misses nothing.

`GInv` (queries) replaces the induction over paths by a notion of what is still to come:
`Future(c)` says that the query has not yet passed the match `c`: its start is still in a list, or
the call at some depth has come the first edges of `c` and not yet looked at the next one.
`Trails` and `Nested` say that call `j` has come `j - 1` edges, that its `seen` are the
nodes on that trail, and that its callers are done with the edges that led to it. Every step
takes matches out of the future only by finding them; what is found is not in
the future and was not found before (`Unrepeated`), and what is a match is either found or in the
future (`Unmissed`), unless a mutation or a limit interfered. When the lists and the stack
are empty nothing is in the future.

**Harness.** `RInv`: a caller holds the stored secret or none
(`OneSecret`), was refused after the invite's end only (`RefusedIsLate`), and a row, or a reading
that may still be written, has the wished name (`Wishes`). `CInv`: the copy of a turn is a
prefix of the stored session while turns do not overlap (`Copies`, `OneAdds`), all events
up to the cursor (`Counted`) and up to where a capture is have been judged, and what a turn
read is marked until its capture is over (`SourcesMarked`, `AnswersGiven`).

`AInv` (definitions and drafts): `Duties` is where each request can be. `Readouts`: whoever has read
the files as they are now has loaded what they say now, unless a file came back. `Tables`: the
table follows a reload step by step, and until it is through the reload counts as cut short.
`Calms` carries that to the requests during which no file changed. `EditsHeld`: whoever may still
write an edited draft has read the edit, and neither a list of mirrors to delete
nor one to add contains it, because an edited draft is not marked as published.

Model-checked only: the liveness properties (`AnswerIsFollowedUp`, `RunSettles`,
`QueueDrains`, `SlotsReturn`, `StartupSettles`), since liveness under fairness and `ENABLED`
are beyond the provers, as are induction over data and `RECURSIVE` operators; and the
five runs that expect a violation. `WithinSchedule` and `ItemsFollowLifecycle` are
proved for one worker, the properties of patient callers for one caller: with more of
them they are false.

## 5. Not modelled

Left out of modelled parts:

* Failing SQL statements of the runbook runtime, which ignores the errors of most of its
  writes: a crash between statements is modelled, a statement that fails while the
  program goes on is not.
* Two service processes on one database: the run mutex is per process. Two runs of one
  queue row that are both active: the run started for an attempt that is lost goes on.
* A crash in the middle of `Signal`, for `WaitingHasQuestion`: between completing the
  items and writing `running` it leaves the run waiting with an empty inbox. The runs have
  such crashes; the property is about behaviours without any.
* `runbook.signal` and nested runbooks as actions: a signal to the own run is a
  `Signal` that interleaves with `Execute`; a nested run is a run of its own. Skipped
  nodes: no caller fires the `skip` trigger.
* A crash of the gateway forgets which events were seen; the backoff of the socket is
  never reset; the sender of the limiter is channel and user, while sessions are per
  thread, so that two users can be in one session at once (`MCGateway` has such a pair).
* `CreateDraft`, which makes a fresh row; packages, run setups and what a draft compiles to.
* Fields of tasks other than status, stamps, project and title; WHERE, grouping and columns of
  queries, and their parser. Repair, links and index rebuilds of memories.
* The ADK runtime, Slack, SQLite, the file system, the snapshot endpoint and the operating
  system's processes are external: they do what the code in `src/` has to expect of them. The default
  write domain is taken to be configured.

Parts with no module, because an interleaving cannot change what they do:

* pure functions of one request or one row: runbook validation, expressions, contracts
  and policies, input resolution, cron fields, quiet hours and stop windows (a free choice
  in `LaunchQueue`), memory projections, parsers, Slack formatting;
* routing without state of its own: HTTP and MCP transports, gateway server, proxy and
  policy, context API, model router, command lines;
* state with a single writer: the runbook scheduler's last minutes, job files of the command
  service, the capability registry, configuration, the sliding window of the rate limit (one
  mutex; in `RunbookRun` an attempt it refuses is a free choice);
* test benches that call models and tools (tool and agent validation), whose behaviour is the
  models'; and the Dart user interface.

They make up the greater part of the repository's lines, which is why the share of lines
the modules stand for is small: what is left out computes, and does not interact.

## 6. What could come next

* An abstract specification of the memory daemon (an image that is saved and restored at once)
  and of the pool, with the detailed ones shown to implement them.
* Attempts under more than one worker as a refinement of a weaker `QueueLifecycle`, in which a
  row may be queued again after its end.
* A second service process beside the run mutex, and runs of `RunbookRun` under
  `LaunchQueue` instead of abstract ones.
* `ScheduleRules`: cron fields, quiet hours over midnight, windows and the sliding rate
  window as operators, checked against reference definitions over all minutes of a
  bounded range.
