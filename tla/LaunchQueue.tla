---------------------------- MODULE LaunchQueue ----------------------------
(***************************************************************************)
(* The durable run queue of harness/internal/services/launchpad and the    *)
(* queue workers (queueworker.RunOnce) that drain it over HTTP: rows of    *)
(* launch_run_queue, the runbook runs started for them, and for every      *)
(* worker the request it is in the middle of.  Each action is one SQL      *)
(* statement or transaction of the store, one call into the runbook        *)
(* service, or a step of the worker between two requests.                  *)
(*                                                                         *)
(* Time is abstract.  A lease has an age: 0, live; 1, expired for          *)
(* StartQueuedLaunchRun, which parses the timestamp; 2, expired for        *)
(* recovery as well, which compares it as text with a timestamp that has   *)
(* fractions of a second, and so notices up to a second later.             *)
(***************************************************************************)
EXTENDS Naturals, Sequences, FiniteSets

CONSTANTS
    Worker,       \* queue workers, each one RunOnce at a time
    Launch,       \* scheduled launches
    Item,         \* ids of queue rows, 1..n in the order of insertion
    Serves,       \* worker |-> launches whose target it may lease for
    MaxParallel,  \* launch |-> Policy.MaxParallelism, 1 when unset
    MaxRuns,      \* launch |-> Schedule.MaxRuns, 0 when unlimited
    MaxAttempts,  \* launch |-> maxAttemptsForPolicy
    NoWorker, NoLaunch,
    MaxFaults,    \* bound on lost calls and worker deaths
    MaxCancels    \* bound on cancels of rows and on writes to runs that have ended

ASSUME QueueAssumption ==
    /\ Item = 1..Cardinality(Item) /\ IsFiniteSet(Item)
    /\ IsFiniteSet(Worker) /\ Worker # {}
    /\ NoWorker \notin Worker /\ NoLaunch \notin Launch
    /\ Serves \in [Worker -> SUBSET Launch]
    /\ MaxParallel \in [Launch -> Nat \ {0}]
    /\ MaxRuns \in [Launch -> Nat]
    /\ MaxAttempts \in [Launch -> Nat \ {0}]
    /\ MaxFaults \in Nat /\ MaxCancels \in Nat

VARIABLES
    item,     \* id |-> its launch_run_queue row
    runs,     \* id |-> the runbook runs started for it, oldest first; `won`
              \* remembers that the run has been succeeded at some time
    second,   \* the clock second of the newest row, counted from the first
    pc,       \* worker |-> the next step of its RunOnce
    expired,  \* worker |-> the rows its recovery has selected and not updated yet
    due,      \* worker |-> launches its schedule pass has not looked at yet
    job,      \* worker |-> the launch or the row it works on, and the
              \* release it will send
    faults, cancels

vars == <<item, runs, second, pc, expired, due, job, faults, cancels>>

Ended == {"completed", "failed", "canceled"}
Owned == {"leased", "running"}
Active == {"queued"} \cup Owned
RunEnded == {"succeeded", "failed", "canceled"}

NoItem == [launch |-> NoLaunch, status |-> "none", attempts |-> 0, lease |-> NoWorker,
           age |-> 0, run |-> 0, second |-> 0]
NoJob == [launch |-> NoLaunch, item |-> 0, attempt |-> 0, run |-> 0, report |-> "failed"]

Init ==
    /\ item = [i \in Item |-> NoItem]
    /\ runs = [i \in Item |-> <<>>]
    /\ second = 0
    /\ pc = [w \in Worker |-> "recover"]
    /\ expired = [w \in Worker |-> {}]
    /\ due = [w \in Worker |-> {}]
    /\ job = [w \in Worker |-> NoJob]
    /\ faults = 0 /\ cancels = 0

Rows(l, statuses) == {i \in Item : item[i].launch = l /\ item[i].status \in statuses}

-----------------------------------------------------------------------------
(* RunOnce, first request: RecoverExpiredRunQueueLeases.                    *)

\* Fault: only rows whose run has not begun are recovered.
RecoverSelect_LeasedOnly(w) ==
    /\ pc[w] = "recover"
    /\ expired' = [expired EXCEPT ![w] =
           {[id |-> i, status |-> IF item[i].attempts >= MaxAttempts[item[i].launch]
                                  THEN "failed" ELSE "queued"] :
               i \in {j \in Item : item[j].status = "leased" /\ item[j].age = 2}}]
    /\ pc' = [pc EXCEPT ![w] = "recovering"]
    /\ UNCHANGED <<item, runs, second, due, job, faults, cancels>>

\* Fault: one attempt too many.
RecoverSelect_OffByOne(w) ==
    /\ pc[w] = "recover"
    /\ expired' = [expired EXCEPT ![w] =
           {[id |-> i, status |-> IF item[i].attempts > MaxAttempts[item[i].launch]
                                  THEN "failed" ELSE "queued"] :
               i \in {j \in Item : item[j].status \in Owned /\ item[j].age = 2}}]
    /\ pc' = [pc EXCEPT ![w] = "recovering"]
    /\ UNCHANGED <<item, runs, second, due, job, faults, cancels>>

\* The SELECT, with what the loop below it decides for each row.
RecoverSelect(w) ==
    /\ pc[w] = "recover"
    /\ expired' = [expired EXCEPT ![w] =
           {[id |-> i, status |-> IF item[i].attempts >= MaxAttempts[item[i].launch]
                                  THEN "failed" ELSE "queued"] :
               i \in {j \in Item : item[j].status \in Owned /\ item[j].age = 2}}]
    /\ pc' = [pc EXCEPT ![w] = "recovering"]
    /\ UNCHANGED <<item, runs, second, due, job, faults, cancels>>

\* Row |-> the row without its lease, in the given status.
Unlease(row, status) == [row EXCEPT !.status = status, !.lease = NoWorker, !.age = 0]

\* One UPDATE of the loop; its WHERE clause names the id only.
RecoverUpdate(w) ==
    /\ pc[w] = "recovering"
    /\ \E x \in expired[w] :
          /\ item' = [item EXCEPT ![x.id] = Unlease(item[x.id], x.status)]
          /\ expired' = [expired EXCEPT ![w] = @ \ {x}]
    /\ UNCHANGED <<runs, second, pc, due, job, faults, cancels>>

\* The loop is done; the next request is EnqueueDueScheduledLaunchpad, which
\* lists the launches.
RecoverDone(w) ==
    /\ pc[w] = "recovering" /\ expired[w] = {}
    /\ due' = [due EXCEPT ![w] = Launch]
    /\ pc' = [pc EXCEPT ![w] = "schedule"]
    /\ UNCHANGED <<item, runs, second, expired, job, faults, cancels>>

-----------------------------------------------------------------------------
(* RunOnce, second request: EnqueueDueScheduledLaunchpad.                   *)

Insert(l) ==
    \E i \in Item, s \in {second, second + 1} :
        /\ item[i].status = "none"
        /\ \A j \in Item : j < i => item[j].status # "none"
        /\ second' = s
        /\ item' = [item EXCEPT ![i] = [NoItem EXCEPT !.launch = l, !.status = "queued",
                                                      !.second = s]]

\* The launch is skipped: it is not due, stopped, in quiet hours, blocked by
\* its policy, or was queued MaxRuns times.
Skip(w, l) ==
    /\ due' = [due EXCEPT ![w] = @ \ {l}]
    /\ pc' = [pc EXCEPT ![w] = "schedule"]
    /\ job' = [job EXCEPT ![w] = NoJob]
    /\ UNCHANGED <<item, runs, second, expired, faults, cancels>>

\* The first count, of all rows of the launch.
CountRuns(w) ==
    /\ pc[w] = "schedule"
    /\ \E l \in due[w] :
          \/ Skip(w, l)
          \/ /\ MaxRuns[l] = 0 \/ Cardinality(Rows(l, Active \cup Ended)) < MaxRuns[l]
             /\ job' = [job EXCEPT ![w].launch = l]
             /\ pc' = [pc EXCEPT ![w] = "parallel"]
             /\ UNCHANGED <<item, runs, second, expired, due, faults, cancels>>

\* Fault: rows that are leased or running are not counted.
CountActive_QueuedOnly(w) ==
    LET l == job[w].launch IN
    /\ pc[w] = "parallel"
    /\ IF Cardinality(Rows(l, {"queued"})) >= MaxParallel[l]
       THEN Skip(w, l)
       ELSE /\ pc' = [pc EXCEPT ![w] = "insert"]
            /\ UNCHANGED <<item, runs, second, expired, due, job, faults, cancels>>

\* The second count, of the rows that are queued, leased or running.
CountActive(w) ==
    LET l == job[w].launch IN
    /\ pc[w] = "parallel"
    /\ IF Cardinality(Rows(l, Active)) >= MaxParallel[l]
       THEN Skip(w, l)
       ELSE /\ pc' = [pc EXCEPT ![w] = "insert"]
            /\ UNCHANGED <<item, runs, second, expired, due, job, faults, cancels>>

\* EnqueueLaunchRun; the launch is skipped when that fails.
EnqueueDue(w) ==
    LET l == job[w].launch IN
    /\ pc[w] = "insert"
    /\ \/ Skip(w, l)
       \/ /\ Insert(l)
          /\ due' = [due EXCEPT ![w] = @ \ {l}]
          /\ pc' = [pc EXCEPT ![w] = "schedule"]
          /\ job' = [job EXCEPT ![w] = NoJob]
          /\ UNCHANGED <<runs, expired, faults, cancels>>

-----------------------------------------------------------------------------
(* RunOnce, third request: LeaseNextRunQueueItem.                           *)

\* The worker is done with this RunOnce; the next cron tick starts another.
Return(w) ==
    /\ pc' = [pc EXCEPT ![w] = "recover"]
    /\ expired' = [expired EXCEPT ![w] = {}]
    /\ due' = [due EXCEPT ![w] = {}]
    /\ job' = [job EXCEPT ![w] = NoJob]

\* Queued rows the worker may lease and that come first in the order of
\* enqueued_at.  The column is text from which trailing zeros are cut, so
\* that the rows of one second can be in any order.
Oldest(w) ==
    LET eligible == {i \in Item : item[i].status = "queued" /\ item[i].launch \in Serves[w]}
    IN  {i \in eligible : \A j \in eligible : item[i].second <= item[j].second}

\* One transaction: the row is leased and the attempt counted; without a
\* queued row RunOnce reports NoWork.
Lease(w) ==
    /\ pc[w] = "schedule" /\ due[w] = {}
    /\ \/ /\ Oldest(w) = {}
          /\ Return(w)
          /\ UNCHANGED item
       \/ \E i \in Oldest(w) :
             /\ item' = [item EXCEPT ![i].status = "leased", ![i].lease = w, ![i].age = 0,
                                     ![i].attempts = item[i].attempts + 1]
             /\ job' = [job EXCEPT ![w] = [NoJob EXCEPT !.item = i,
                                                     !.attempt = item[i].attempts + 1]]
             /\ pc' = [pc EXCEPT ![w] = "check"]
             /\ UNCHANGED <<expired, due>>
    /\ UNCHANGED <<runs, second, faults, cancels>>

-----------------------------------------------------------------------------
(* RunOnce, fourth request: StartQueuedLaunchRun.                           *)

Holds(w) == item[job[w].item].lease = w

\* Something failed: the worker will release its lease as failed.
GiveUp(w) == pc' = [pc EXCEPT ![w] = "release"]

\* GetRunQueueItem and the checks on what it returns.
CheckLease(w) ==
    LET row == item[job[w].item] IN
    /\ pc[w] = "check"
    /\ \/ /\ row.status = "leased" /\ Holds(w) /\ row.age = 0
          /\ pc' = [pc EXCEPT ![w] = "launch"]
       \/ /\ row.status # "leased" \/ ~Holds(w) \/ row.age > 0
          /\ GiveUp(w)
    /\ UNCHANGED <<item, runs, second, expired, due, job, faults, cancels>>

\* StartRunbook: the runbook runs from here on, or the call is refused.
LaunchRunbook(w) ==
    LET i == job[w].item IN
    /\ pc[w] = "launch"
    /\ \/ /\ runs' = [runs EXCEPT ![i] =
                 Append(@, [status |-> "active", attempt |-> job[w].attempt,
                            won |-> FALSE, link |-> FALSE, snapshot |-> FALSE])]
          /\ job' = [job EXCEPT ![w].run = Len(runs[i]) + 1]
          /\ pc' = [pc EXCEPT ![w] = "link"]
       \/ GiveUp(w) /\ UNCHANGED <<runs, job>>
    /\ UNCHANGED <<item, second, expired, due, faults, cancels>>

\* InsertRunLink.
LinkRun(w) ==
    /\ pc[w] = "link"
    /\ runs' = [runs EXCEPT ![job[w].item][job[w].run].link = TRUE]
    /\ pc' = [pc EXCEPT ![w] = "snapshot"]
    /\ UNCHANGED <<item, second, expired, due, job, faults, cancels>>

\* Fault: the snapshot is left for later.
SnapshotRun_Skipped(w) ==
    /\ pc[w] = "snapshot"
    /\ pc' = [pc EXCEPT ![w] = "mark"]
    /\ UNCHANGED <<item, runs, second, expired, due, job, faults, cancels>>

\* InsertRunSnapshot.
SnapshotRun(w) ==
    /\ pc[w] = "snapshot"
    /\ runs' = [runs EXCEPT ![job[w].item][job[w].run].snapshot = TRUE]
    /\ pc' = [pc EXCEPT ![w] = "mark"]
    /\ UNCHANGED <<item, second, expired, due, job, faults, cancels>>

\* MarkRunQueueItemRunning.  When it updates no row the request fails, and
\* the worker never learns the id of the run.
MarkRunning(w) ==
    LET i == job[w].item IN
    /\ pc[w] = "mark"
    /\ IF item[i].status = "leased" /\ Holds(w)
       THEN /\ item' = [item EXCEPT ![i].status = "running", ![i].run = job[w].run]
            /\ pc' = [pc EXCEPT ![w] = "wait"]
            /\ UNCHANGED job
       ELSE /\ job' = [job EXCEPT ![w].run = 0]
            /\ GiveUp(w)
            /\ UNCHANGED item
    /\ UNCHANGED <<runs, second, expired, due, faults, cancels>>

-----------------------------------------------------------------------------
(* RunOnce: waitForRun and the release.                                     *)

\* Fault: any run that ended counts as completed.
QueueStatusForRun_Optimist(status) == "completed"

\* queueStatusForRun.
QueueStatusForRun(status) ==
    CASE status = "succeeded" -> "completed"
      [] status = "canceled" -> "canceled"
      [] OTHER -> "failed"

\* The polled run has ended.
PollEnded(w) ==
    LET run == runs[job[w].item][job[w].run] IN
    /\ pc[w] = "wait" /\ run.status \in RunEnded
    /\ job' = [job EXCEPT ![w].report = QueueStatusForRun(run.status)]
    /\ pc' = [pc EXCEPT ![w] = "release"]
    /\ UNCHANGED <<item, runs, second, expired, due, faults, cancels>>

\* RenewRunQueueLease between two polls; its WHERE clause asks for the lease
\* and an owned row, not for a lease that is still live.
Renew(w) ==
    LET i == job[w].item IN
    /\ pc[w] = "wait"
    /\ IF item[i].status \in Owned /\ Holds(w)
       THEN item' = [item EXCEPT ![i].age = 0] /\ UNCHANGED pc
       ELSE GiveUp(w) /\ UNCHANGED item
    /\ UNCHANGED <<runs, second, expired, due, job, faults, cancels>>

\* The run did not finish before RunTimeout.
TimeOut(w) ==
    /\ pc[w] = "wait"
    /\ GiveUp(w)
    /\ UNCHANGED <<item, runs, second, expired, due, job, faults, cancels>>

\* Fault: the WHERE clause does not ask for the lease.
Release_AnyLease(w) ==
    LET i == job[w].item
        j == job[w]
    IN
    /\ pc[w] = "release"
    /\ item' = IF item[i].status \in Owned
               THEN [item EXCEPT ![i] = [Unlease(item[i], j.report) EXCEPT
                        !.run = IF j.run = 0 THEN @ ELSE j.run]]
               ELSE item
    /\ Return(w)
    /\ UNCHANGED <<runs, second, faults, cancels>>

\* ReleaseRunQueueLease; a release without a run id keeps the row's.
Release(w) ==
    LET i == job[w].item
        j == job[w]
    IN
    /\ pc[w] = "release"
    /\ item' = IF item[i].status \in Owned /\ Holds(w)
               THEN [item EXCEPT ![i] = [Unlease(item[i], j.report) EXCEPT
                        !.run = IF j.run = 0 THEN @ ELSE j.run]]
               ELSE item
    /\ Return(w)
    /\ UNCHANGED <<runs, second, faults, cancels>>

-----------------------------------------------------------------------------
(* What happens to workers, leases and runs from outside.                   *)

\* The start request or a poll fails on the wire; the handler stops where it
\* is, the worker releases the lease.
LoseCall(w) ==
    /\ pc[w] \in {"check", "launch", "link", "snapshot", "mark", "wait"}
    /\ faults < MaxFaults
    /\ faults' = faults + 1
    /\ job' = [job EXCEPT ![w].run = IF pc[w] = "wait" THEN @ ELSE 0]
    /\ GiveUp(w)
    /\ UNCHANGED <<item, runs, second, expired, due, cancels>>

\* The worker dies, or a request that RunOnce does not clean up after fails;
\* a later cron tick starts the worker again.
Die(w) ==
    /\ pc[w] # "recover"
    /\ faults < MaxFaults
    /\ faults' = faults + 1
    /\ Return(w)
    /\ UNCHANGED <<item, runs, second, cancels>>

\* Time passes: a lease that is not renewed expires.
Expire(i) ==
    /\ item[i].status \in Owned /\ item[i].age < 2
    /\ item' = [item EXCEPT ![i].age = @ + 1]
    /\ UNCHANGED <<runs, second, pc, expired, due, job, faults, cancels>>

\* The runbook service writes the status of a run.  Its UPDATE asks for the id
\* only, so that any status follows any other: Cancel overwrites a run that has
\* succeeded, the next state of a canceled run makes it active again.
RunChanges(i) ==
    /\ \E k \in DOMAIN runs[i], s \in {"active"} \cup RunEnded :
          /\ runs[i][k].status # s
          /\ IF runs[i][k].status \in RunEnded
             THEN cancels < MaxCancels /\ cancels' = cancels + 1
             ELSE UNCHANGED cancels
          /\ runs' = [runs EXCEPT ![i][k].status = s, ![i][k].won = @ \/ s = "succeeded"]
    /\ UNCHANGED <<item, second, pc, expired, due, job, faults>>

\* EnqueueLaunchRun on request of a user, whatever is queued already.
EnqueueManual(l) ==
    /\ Insert(l)
    /\ UNCHANGED <<runs, pc, expired, due, job, faults, cancels>>

\* Fault: the lease columns are left as they are.
CancelItem_KeepLease(i) ==
    /\ item[i].status \in {"queued", "leased"} /\ cancels < MaxCancels
    /\ cancels' = cancels + 1
    /\ item' = [item EXCEPT ![i].status = "canceled"]
    /\ UNCHANGED <<runs, second, pc, expired, due, job, faults>>

\* CancelRunQueueItem.
CancelItem(i) ==
    /\ item[i].status \in {"queued", "leased"} /\ cancels < MaxCancels
    /\ cancels' = cancels + 1
    /\ item' = [item EXCEPT ![i] = Unlease(item[i], "canceled")]
    /\ UNCHANGED <<runs, second, pc, expired, due, job, faults>>

-----------------------------------------------------------------------------
Tick(w) == RecoverSelect(w) \/ RecoverUpdate(w) \/ RecoverDone(w)
           \/ CountRuns(w) \/ CountActive(w) \/ EnqueueDue(w) \/ Lease(w)
Start(w) == CheckLease(w) \/ LaunchRunbook(w) \/ LinkRun(w) \/ SnapshotRun(w)
            \/ MarkRunning(w)
Finish(w) == PollEnded(w) \/ TimeOut(w) \/ Release(w)

Scheduled == \/ \E w \in Worker : Tick(w) \/ Start(w) \/ Finish(w) \/ Renew(w)
                                  \/ LoseCall(w) \/ Die(w)
             \/ \E i \in Item : Expire(i) \/ RunChanges(i) \/ CancelItem(i)

Next == Scheduled \/ \E l \in Launch : EnqueueManual(l)

Spec == Init /\ [][Next]_vars

\* Cron keeps starting workers, a request that was sent is handled, RunTimeout
\* ends every wait, and time passes.  No runbook has to end, and the schedule
\* pass has to leave some launches out when the table is full (Item).
Fairness ==
    /\ \A w \in Worker : /\ WF_vars(Tick(w)) /\ WF_vars(Start(w)) /\ WF_vars(Finish(w))
    /\ \A i \in Item : WF_vars(Expire(i))

\* Rows come from the schedule only: nobody enqueues by hand.
SerialSpec == Init /\ [][Scheduled]_vars /\ Fairness

-----------------------------------------------------------------------------
(* Properties.                                                              *)

Row == [launch : Launch \cup {NoLaunch}, status : {"none"} \cup Active \cup Ended,
        attempts : Nat, lease : Worker \cup {NoWorker}, age : 0..2, run : Nat, second : Nat]

Run == {r \in [status : {"active"} \cup RunEnded, attempt : Nat, won : BOOLEAN,
               link : BOOLEAN, snapshot : BOOLEAN] : r.status = "succeeded" => r.won}
Job == [launch : Launch \cup {NoLaunch}, item : Item \cup {0}, attempt : Nat, run : Nat,
        report : Ended]
PCs == {"recover", "recovering", "schedule", "parallel", "insert", "check",
        "launch", "link", "snapshot", "mark", "wait", "release"}

TypeOK ==
    /\ item \in [Item -> Row]
    /\ runs \in [Item -> Seq(Run)]
    /\ second \in Nat
    /\ pc \in [Worker -> PCs]
    /\ expired \in [Worker -> SUBSET [id : Item, status : {"queued", "failed"}]]
    /\ due \in [Worker -> SUBSET Launch]
    /\ job \in [Worker -> Job]
    /\ faults \in Nat /\ cancels \in Nat
    /\ \A i \in Item : item[i].status \in Owned <=> item[i].lease # NoWorker

\* A row that is running or completed names a run whose link and snapshot were
\* stored before: what was started, for whom and with which inputs can be
\* looked up (StartQueuedLaunchRun stores them before it marks the row).
RunningIsRecorded == \A i \in Item :
    item[i].status \in {"running", "completed"} =>
        /\ item[i].run \in DOMAIN runs[i]
        /\ runs[i][item[i].run].link /\ runs[i][item[i].run].snapshot

\* A completed row names a run that has succeeded, whichever workers, leases and
\* runs came and went before it.  The run may have been canceled, or have gone on
\* from a stale read, since: Service.Cancel overwrites the status of a run whose
\* row is completed, and nothing tells the queue.
CompletedMeansSucceeded == \A i \in Item :
    item[i].status = "completed" =>
        item[i].run \in DOMAIN runs[i] /\ runs[i][item[i].run].won

\* The run that completes a row was started under the newest lease: a worker
\* that lost its lease cannot report for the one that has it now, although
\* both poll runs of the same row.
LatestAttemptDecides == \A i \in Item :
    item[i].status = "completed" => runs[i][item[i].run].attempt = item[i].attempts

\* The runbook is started at most once per attempt, over all workers: a start
\* request is never repeated for the same lease.
OneRunPerAttempt == \A i \in Item : \A k, m \in DOMAIN runs[i] :
    runs[i][k].attempt = runs[i][m].attempt => k = m

\* The schedule never has more rows of a launch queued, leased or running
\* than its MaxParallelism, and never queues it more than MaxRuns times.
\* Count and insert are separate statements, so this needs one worker and
\* nobody who enqueues by hand.
WithinSchedule == \A l \in Launch :
    /\ Cardinality(Rows(l, Active)) <= MaxParallel[l]
    /\ MaxRuns[l] > 0 => Cardinality(Rows(l, Active \cup Ended)) <= MaxRuns[l]

\* No row is leased more often than its launch's retry limit allows, but for
\* one more lease for each other worker: a recovery queues the rows it has
\* selected whatever became of them since.
AttemptOvershoot == \A i \in Item : item[i].status # "none" =>
    item[i].attempts < MaxAttempts[item[i].launch] + Cardinality(Worker)

\* A launch is started once for each lease, and leased about as often as its retry
\* limit says: what racing workers can make of one queued row is bounded.
AttemptsAreBounded == OneRunPerAttempt /\ AttemptOvershoot

Lifecycle == INSTANCE QueueLifecycle WITH
    status <- [i \in Item |-> item[i].status],
    attempts <- [i \in Item |-> item[i].attempts],
    limit <- [i \in Item |-> IF item[i].status = "none" THEN 0 ELSE MaxAttempts[item[i].launch]]

\* With one worker at a time, and nobody who cancels a row that a recovery has
\* selected, the queue implements QueueLifecycle, through deaths, lost calls
\* and recoveries.
ItemsFollowLifecycle == Lifecycle!Spec

\* A terminal row stays as it is: isTerminalQueueStatus ends the ownership.
TerminalIsFinal == [][\A i \in Item :
    item[i].status \in Ended => item'[i].status = item[i].status]_vars

\* The oldest eligible row is leased first.
OldestFirst == [][\A w \in Worker, i, j \in Item :
    (/\ item[i].status = "queued" /\ item'[i].status = "leased" /\ item'[i].lease = w
     /\ item[j].status = "queued" /\ item[j].launch \in Serves[w]) => i <= j]_vars

\* Every queued run comes to an end: no lease is kept forever by a worker
\* that died, no row is skipped forever.
QueueDrains == \A i \in Item : item[i].status \in Active ~> item[i].status \in Ended
=============================================================================
