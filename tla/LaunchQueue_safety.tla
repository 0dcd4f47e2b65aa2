------------------------- MODULE LaunchQueue_safety -------------------------
(***************************************************************************)
(* What the queue never gets wrong, for any number of workers, launches    *)
(* and rows: rows, runs and reports belong together.                       *)
(***************************************************************************)
EXTENDS LaunchQueue_proofs, FiniteSetTheorems

(* The run a worker started.                                                *)
RunOf(w) == runs[job[w].item][job[w].run]

StartedBy(w) ==
    /\ pc[w] \in Starting => RunOf(w).attempt = job[w].attempt
    /\ pc[w] \in {"snapshot", "mark", "wait"} => RunOf(w).link
    /\ pc[w] \in {"mark", "wait"} => RunOf(w).snapshot
    /\ pc[w] \in Working \ {"release"} => job[w].report = "failed"
    /\ pc[w] = "release" /\ job[w].report = "completed" =>
          /\ job[w].run \in DOMAIN runs[job[w].item] /\ job[w].run # 0
          /\ RunOf(w).attempt = job[w].attempt /\ RunOf(w).won
          /\ RunOf(w).link /\ RunOf(w).snapshot

(* An attempt belongs to one worker, and the newest to the holder.          *)
Attempts ==
    /\ \A w \in Worker : pc[w] \in Working =>
          /\ job[w].attempt <= item[job[w].item].attempts
          /\ Holds(w) => job[w].attempt = item[job[w].item].attempts
    /\ \A v, w \in Worker :
          v # w /\ pc[v] \in Working /\ pc[w] \in Working /\ job[v].item = job[w].item
          => job[v].attempt # job[w].attempt

(* So do runs: at most one for an attempt, none before its worker starts it. *)
RunsOfAttempts ==
    /\ \A i \in Item : \A k \in DOMAIN runs[i] : runs[i][k].attempt <= item[i].attempts
    /\ \A w \in Worker : pc[w] \in {"check", "launch"} =>
          \A k \in DOMAIN runs[job[w].item] : runs[job[w].item][k].attempt # job[w].attempt
    /\ OneRunPerAttempt

(* What a row says about its run.                                           *)
RowRecorded(i) ==
    /\ item[i].status \in {"running", "completed"} =>
          /\ item[i].run \in DOMAIN runs[i]
          /\ runs[i][item[i].run].link /\ runs[i][item[i].run].snapshot
    /\ item[i].status = "completed" =>
          /\ runs[i][item[i].run].won
          /\ runs[i][item[i].run].attempt = item[i].attempts

Inv == /\ TInv /\ Attempts /\ RunsOfAttempts
       /\ \A w \in Worker : StartedBy(w)
       /\ \A i \in Item : RowRecorded(i)

LEMMA InitInv == Init => Inv
<1> SUFFICES ASSUME Init PROVE Inv
  OBVIOUS
<1>1. \A w \in Worker : pc[w] \notin Working /\ pc[w] # "release" /\ pc[w] \notin Starting
                        /\ pc[w] \notin {"check", "launch", "snapshot", "mark", "wait"}
  BY DEF Init, Working, Starting
<1>2. \A i \in Item : DOMAIN runs[i] = {} /\ item[i].status = "none"
  BY DEF Init, NoItem
<1>3. Attempts /\ \A w \in Worker : StartedBy(w)
  BY <1>1 DEF Attempts, StartedBy
<1>4. RunsOfAttempts /\ \A i \in Item : RowRecorded(i)
  BY <1>1, <1>2 DEF RunsOfAttempts, OneRunPerAttempt, RowRecorded
<1> QED BY InitTInv, <1>3, <1>4 DEF Inv

(* Rows and runs stay; a worker may stop working.                           *)
Idle(w) == Others(w) /\ pc'[w] \notin Working

LEMMA NotWorking ==
  ASSUME NEW p, p \notin Working
  PROVE  /\ p # "release" /\ p \notin Starting
         /\ p \notin {"check", "launch", "snapshot", "mark", "wait"}
  BY DEF Working, Starting

LEMMA IdleWorker ==
  ASSUME Inv, NEW w \in Worker, Idle(w), UNCHANGED runs
  PROVE  \A v \in Worker : StartedBy(v)'
<1>1. \A v \in Worker \ {w} : StartedBy(v)'
  BY DEF Inv, StartedBy, RunOf, Idle, Others
<1>2. StartedBy(w)'
  BY NotWorking DEF StartedBy, Idle
<1> QED BY <1>1, <1>2

LEMMA IdleInv ==
  ASSUME Inv, TInv', NEW w \in Worker, Idle(w), UNCHANGED <<item, runs>>
  PROVE  Inv'
<1>1. \A v \in Worker : StartedBy(v)'
  BY IdleWorker
<1>2. Attempts'
  BY DEF Inv, Attempts, Idle, Others, Holds
<1>3. RunsOfAttempts'
  BY NotWorking DEF Inv, RunsOfAttempts, OneRunPerAttempt, Idle, Others
<1>4. \A i \in Item : RowRecorded(i)'
  BY DEF Inv, RowRecorded
<1> QED BY <1>1, <1>2, <1>3, <1>4 DEF Inv

(* A worker at work goes on, rows and runs stay.                            *)
LEMMA GoOnInv ==
  ASSUME Inv, TInv', NEW w \in Worker, pc[w] \in Working, UNCHANGED <<item, runs>>, Others(w),
         job'[w].item = job[w].item, job'[w].attempt = job[w].attempt,
         pc'[w] \in {"check", "launch"} => pc[w] \in {"check", "launch"},
         StartedBy(w)'
  PROVE  Inv'
<1>1. \A v \in Worker : StartedBy(v)'
  BY SMTT(30) DEF Inv, StartedBy, RunOf, Others
<1>2. Attempts'
  BY DEF Inv, Attempts, Others, Holds
<1>3. RunsOfAttempts'
  BY DEF Inv, RunsOfAttempts, OneRunPerAttempt, Others
<1>4. \A i \in Item : RowRecorded(i)'
  BY DEF Inv, RowRecorded
<1> QED BY <1>1, <1>2, <1>3, <1>4 DEF Inv

(* A row is written without a new attempt or a new holder.                  *)
LEMMA WriteInv ==
  ASSUME Inv, TInv', NEW i \in Item, NEW row \in Row, item' = [item EXCEPT ![i] = row],
         row.attempts = item[i].attempts, row.lease \in {item[i].lease, NoWorker},
         UNCHANGED runs, RowRecorded(i)',
         \A v \in Worker : pc'[v] \in Working => /\ pc[v] \in Working /\ job'[v] = job[v]
                                                 /\ pc'[v] = pc[v] \/ pc'[v] = "wait",
         \A v \in Worker : StartedBy(v)'
  PROVE  Inv'
<1>1. item'[i] = row /\ \A j \in Item \ {i} : item'[j] = item[j]
  BY DEF Inv, TInv, TypeOK
<1>2. \A j \in Item : item'[j].attempts = item[j].attempts
                      /\ item'[j].lease \in {item[j].lease, NoWorker}
  BY <1>1
<1>3. \A v \in Worker : pc[v] \in Working => job[v].item \in Item
  BY DEF Inv, TInv, Placed
<1>4. Attempts'
  <2>1. ASSUME NEW v \in Worker, pc'[v] \in Working
        PROVE  /\ job'[v].attempt <= item'[job'[v].item].attempts
               /\ Holds(v)' => job'[v].attempt = item'[job'[v].item].attempts
    <3>1. job'[v] = job[v] /\ pc[v] \in Working /\ job[v].item \in Item
      BY <1>3, <2>1
    <3>2. item'[job[v].item].lease = v => item[job[v].item].lease = v
      BY <1>2, <3>1, QueueAssumption
    <3> QED BY <1>2, <3>1, <3>2 DEF Inv, Attempts, Holds
  <2>2. ASSUME NEW v \in Worker, NEW w \in Worker, v # w, pc'[v] \in Working,
               pc'[w] \in Working, job'[v].item = job'[w].item
        PROVE  job'[v].attempt # job'[w].attempt
    BY <2>2 DEF Inv, Attempts
  <2> QED BY <2>1, <2>2 DEF Attempts
<1>5. RunsOfAttempts'
  BY <1>2, NotWorking DEF Inv, RunsOfAttempts, OneRunPerAttempt
<1>6. \A j \in Item : RowRecorded(j)'
  BY <1>1 DEF Inv, RowRecorded
<1> QED BY <1>4, <1>5, <1>6 DEF Inv

LEMMA GiveUpInv ==
  ASSUME Inv, TInv', NEW w \in Worker, pc[w] \in Working \ {"release"}, GiveUp(w),
         UNCHANGED <<item, runs, expired, job>>
  PROVE  Inv'
<1>1. pc'[w] = "release" /\ Others(w)
  BY DEF GiveUp, Inv, TInv, TypeOK, Others
<1>2. StartedBy(w)'
  BY <1>1 DEF StartedBy, Inv, Starting
<1> QED BY <1>1, <1>2, GoOnInv

LEMMA SkipInv ==
  ASSUME Inv, TInv', NEW w \in Worker, NEW l, Skip(w, l)
  PROVE  Inv'
<1>1. Idle(w) /\ UNCHANGED <<item, runs>>
  BY DEF Skip, Idle, Others, Inv, TInv, TypeOK, Working, Starting
<1> QED BY <1>1, IdleInv

LEMMA ReturnIdle == ASSUME Inv, NEW w \in Worker, Return(w) PROVE Idle(w)
  BY DEF Return, Idle, Others, Inv, TInv, TypeOK, Working, Starting

LEMMA RecoverSelectInv == ASSUME Inv, TInv', NEW w \in Worker, RecoverSelect(w) PROVE Inv'
<1>1. pc' = [pc EXCEPT ![w] = "recovering"] /\ UNCHANGED <<item, runs, job>>
      /\ \A v \in Worker \ {w} : expired'[v] = expired[v]
  BY DEF RecoverSelect, Inv, TInv, TypeOK
<1>2. Idle(w)
  BY <1>1 DEF Idle, Others, Inv, TInv, TypeOK, Working, Starting
<1> QED BY <1>1, <1>2, IdleInv

LEMMA RecoverDoneInv == ASSUME Inv, TInv', NEW w \in Worker, RecoverDone(w) PROVE Inv'
<1>1. Idle(w) /\ UNCHANGED <<item, runs>>
  BY DEF RecoverDone, Idle, Others, Inv, TInv, TypeOK, Working, Starting
<1> QED BY <1>1, IdleInv

LEMMA CountRunsInv == ASSUME Inv, TInv', NEW w \in Worker, CountRuns(w) PROVE Inv'
<1>1. PICK l \in due[w] :
        \/ Skip(w, l)
        \/ /\ job' = [job EXCEPT ![w].launch = l]
           /\ pc' = [pc EXCEPT ![w] = "parallel"]
           /\ UNCHANGED <<item, runs, expired>>
  BY DEF CountRuns
<1>2. CASE Skip(w, l)
  BY <1>2, SkipInv
<1>3. CASE /\ job' = [job EXCEPT ![w].launch = l]
           /\ pc' = [pc EXCEPT ![w] = "parallel"]
           /\ UNCHANGED <<item, runs, expired>>
  <2>1. Idle(w)
    BY <1>3 DEF Idle, Others, Inv, TInv, TypeOK, Working, Starting
  <2> QED BY <1>3, <2>1, IdleInv
<1> QED BY <1>1, <1>2, <1>3

LEMMA CountActiveInv == ASSUME Inv, TInv', NEW w \in Worker, CountActive(w) PROVE Inv'
<1>1. CASE Skip(w, job[w].launch)
  BY <1>1, SkipInv
<1>2. CASE pc' = [pc EXCEPT ![w] = "insert"] /\ UNCHANGED <<item, runs, expired, job>>
  <2>1. Idle(w)
    BY <1>2 DEF Idle, Others, Inv, TInv, TypeOK, Working, Starting
  <2> QED BY <1>2, <2>1, IdleInv
<1> QED BY <1>1, <1>2 DEF CountActive

LEMMA CheckLeaseInv == ASSUME Inv, TInv', NEW w \in Worker, CheckLease(w) PROVE Inv'
<1>1. pc[w] = "check" /\ pc[w] \in Working \ {"release"}
  BY DEF CheckLease, Working
<1>2. CASE pc' = [pc EXCEPT ![w] = "launch"] /\ UNCHANGED <<item, runs, expired, job>>
  <2>1. pc'[w] = "launch" /\ Others(w)
    BY <1>2 DEF Inv, TInv, TypeOK, Others
  <2>2. StartedBy(w)'
    BY <1>1, <1>2, <2>1 DEF StartedBy, Inv, Starting
  <2> QED BY <1>1, <1>2, <2>1, <2>2, GoOnInv
<1>3. CASE GiveUp(w) /\ UNCHANGED <<item, runs, expired, job>>
  BY <1>1, <1>3, GiveUpInv
<1> QED BY <1>2, <1>3 DEF CheckLease

(* The worker reports what the run it started ended with.                   *)
LEMMA PollEndedInv == ASSUME Inv, TInv', NEW w \in Worker, PollEnded(w) PROVE Inv'
<1> DEFINE s == QueueStatusForRun(runs[job[w].item][job[w].run].status)
<1>1. pc[w] = "wait" /\ pc[w] \in Working /\ pc[w] \in Starting
  BY DEF PollEnded, Working, Starting
<1>9. runs[job[w].item][job[w].run] \in Run
  BY <1>1, RunOwn DEF Inv, TInv, TypeOK
<1>2. s = "completed" => RunOf(w).won
  BY <1>9 DEF QueueStatusForRun, RunOf, Run
<1>3. job' = [job EXCEPT ![w].report = s] /\ pc' = [pc EXCEPT ![w] = "release"]
      /\ UNCHANGED <<item, runs, expired>>
  BY DEF PollEnded
<1> HIDE DEF s
<1>4. /\ pc'[w] = "release" /\ Others(w) /\ job'[w].item = job[w].item
      /\ job'[w].attempt = job[w].attempt /\ job'[w].run = job[w].run /\ job'[w].report = s
  BY <1>3 DEF Inv, TInv, TypeOK, Others, Job
<1>5. job[w].run \in DOMAIN runs[job[w].item] /\ job[w].run # 0
  BY <1>1, RunOwn DEF Inv, TInv, TypeOK
<1>6. StartedBy(w)
  BY DEF Inv
<1>7. StartedBy(w)'
  BY <1>1, <1>2, <1>3, <1>4, <1>5, <1>6 DEF StartedBy, RunOf, Starting
<1> QED BY <1>1, <1>3, <1>4, <1>7, GoOnInv

LEMMA LoseCallInv == ASSUME Inv, TInv', NEW w \in Worker, LoseCall(w) PROVE Inv'
<1> DEFINE n == IF pc[w] = "wait" THEN job[w].run ELSE 0
<1>1. pc[w] \in Working \ {"release"}
  BY DEF LoseCall, Working, Starting
<1>2. job' = [job EXCEPT ![w].run = n] /\ pc' = [pc EXCEPT ![w] = "release"]
      /\ UNCHANGED <<item, runs, expired>>
  BY DEF LoseCall, GiveUp
<1> HIDE DEF n
<1>3. /\ pc'[w] = "release" /\ Others(w) /\ job'[w].item = job[w].item
      /\ job'[w].attempt = job[w].attempt /\ job'[w].report = job[w].report
  BY <1>2 DEF Inv, TInv, TypeOK, Others, Job
<1>4. StartedBy(w)'
  BY <1>1, <1>3 DEF StartedBy, Inv, Starting
<1> QED BY <1>1, <1>2, <1>3, <1>4, GoOnInv

LEMMA DieInv == ASSUME Inv, TInv', NEW w \in Worker, Die(w) PROVE Inv'
  BY ReturnIdle, IdleInv DEF Die

(* A row is written, the workers stay as they are.                          *)
LEMMA SameWorkers ==
  ASSUME Inv, UNCHANGED <<runs, pc, job>>
  PROVE  \A v \in Worker : StartedBy(v)'
  BY DEF Inv, StartedBy, RunOf

LEMMA WriteOnlyInv ==
  ASSUME Inv, TInv', NEW i \in Item, NEW row \in Row, item' = [item EXCEPT ![i] = row],
         row.attempts = item[i].attempts, row.lease \in {item[i].lease, NoWorker},
         UNCHANGED <<runs, pc, job>>, RowRecorded(i)'
  PROVE  Inv'
<1>1. \A v \in Worker : StartedBy(v)'
  BY SameWorkers
<1> QED BY <1>1, WriteInv

LEMMA RecoverUpdateInv == ASSUME Inv, TInv', NEW w \in Worker, RecoverUpdate(w) PROVE Inv'
<1>1. PICK x \in expired[w] : item' = [item EXCEPT ![x.id] = Unlease(item[x.id], x.status)]
  BY DEF RecoverUpdate
<1> DEFINE i == x.id
           row == Unlease(item[i], x.status)
<1>2. i \in Item /\ x.status \in {"queued", "failed"}
  BY DEF Inv, TInv, TypeOK
<1>3. item[i] \in Row /\ x.status \in {"queued"} \cup Ended
  BY <1>2 DEF Inv, TInv, TypeOK, Ended
<1>4. /\ row \in Row /\ row.attempts = item[i].attempts /\ row.lease = NoWorker
      /\ row.status = x.status
  BY <1>3, UnleaseRow
<1>5. item' = [item EXCEPT ![i] = row] /\ UNCHANGED <<runs, pc, job>>
  BY <1>1 DEF RecoverUpdate
<1> HIDE DEF i, row
<1>6. item'[i] = row
  BY <1>2, <1>5 DEF Inv, TInv, TypeOK
<1>7. RowRecorded(i)'
  BY <1>2, <1>4, <1>6 DEF RowRecorded
<1> QED BY <1>2, <1>4, <1>5, <1>7, WriteOnlyInv

LEMMA InsertInv ==
  ASSUME Inv, TInv', NEW l \in Launch, Insert(l), UNCHANGED runs,
         \A v \in Worker : pc'[v] \in Working => /\ pc[v] \in Working /\ job'[v] = job[v]
                                                 /\ pc'[v] = pc[v],
         \A v \in Worker : StartedBy(v)'
  PROVE  Inv'
<1>1. PICK i \in Item, row \in Row :
            /\ item[i] = NoItem /\ item' = [item EXCEPT ![i] = row]
            /\ row.status = "queued" /\ row.attempts = 0 /\ row.lease = NoWorker
  BY InsertRow DEF Inv
<1>2. item'[i] = row /\ item[i].attempts = 0
  BY <1>1 DEF Inv, TInv, TypeOK, NoItem
<1>3. RowRecorded(i)'
  BY <1>1, <1>2 DEF RowRecorded
<1> QED BY <1>1, <1>2, <1>3, WriteInv

LEMMA EnqueueDueInv == ASSUME Inv, TInv', NEW w \in Worker, EnqueueDue(w) PROVE Inv'
<1>1. CASE Skip(w, job[w].launch)
  BY <1>1, SkipInv
<1>2. CASE /\ Insert(job[w].launch)
           /\ pc' = [pc EXCEPT ![w] = "schedule"]
           /\ job' = [job EXCEPT ![w] = NoJob]
           /\ UNCHANGED <<runs, expired>>
  <2>1. Idle(w) /\ \A v \in Worker \ {w} : pc'[v] = pc[v]
    BY <1>2 DEF Idle, Others, Inv, TInv, TypeOK, Working, Starting
  <2>2. \A v \in Worker : StartedBy(v)'
    BY <1>2, <2>1, IdleWorker
  <2>3. job[w].launch \in Launch
    BY DEF Inv, TInv, Placed, EnqueueDue
  <2>4. \A v \in Worker : pc'[v] \in Working => /\ pc[v] \in Working /\ job'[v] = job[v]
                                                /\ pc'[v] = pc[v]
    BY <2>1 DEF Idle, Others
  <2> QED BY <1>2, <2>2, <2>3, <2>4, InsertInv
<1> QED BY <1>1, <1>2 DEF EnqueueDue

LEMMA EnqueueManualInv == ASSUME Inv, TInv', NEW l \in Launch, EnqueueManual(l) PROVE Inv'
<1>1. Insert(l) /\ UNCHANGED <<runs, pc, job>>
  BY DEF EnqueueManual
<1>2. \A v \in Worker : StartedBy(v)'
  BY <1>1, SameWorkers
<1> QED BY <1>1, <1>2, InsertInv

LEMMA AgeInv ==
  ASSUME Inv, TInv', NEW i \in Item, item[i].status # "none", NEW a \in 0..2,
         item' = [item EXCEPT ![i].age = a], UNCHANGED <<runs, pc, job>>
  PROVE  Inv'
<1>1. PICK row \in Row :
            /\ item' = [item EXCEPT ![i] = row]
            /\ row.status = item[i].status /\ row.lease = item[i].lease
            /\ row.attempts = item[i].attempts /\ row.run = item[i].run
  BY AgeRow DEF Inv
<1>2. item'[i] = row
  BY <1>1 DEF Inv, TInv, TypeOK
<1>3. RowRecorded(i)'
  BY <1>1, <1>2 DEF Inv, RowRecorded
<1> QED BY <1>1, <1>3, WriteOnlyInv

LEMMA RenewInv == ASSUME Inv, TInv', NEW w \in Worker, Renew(w) PROVE Inv'
<1>1. pc[w] \in Working \ {"release"}
  BY DEF Renew, Working, Starting
<1>2. 0 \in 0..2 /\ job[w].item \in Item /\ item[job[w].item].status # "none"
  BY <1>1, Own DEF Inv
<1>3. CASE item[job[w].item].status \in Owned /\ Holds(w)
  BY <1>2, <1>3, AgeInv DEF Renew
<1>4. CASE ~(item[job[w].item].status \in Owned /\ Holds(w))
  BY <1>1, <1>4, GiveUpInv DEF Renew
<1> QED BY <1>3, <1>4

LEMMA ExpireInv == ASSUME Inv, TInv', NEW i \in Item, Expire(i) PROVE Inv'
<1>1. item[i].age + 1 \in 0..2 /\ item[i].status # "none"
  BY DEF Inv, TInv, TypeOK, Row, Expire, Owned
<1>2. item' = [item EXCEPT ![i].age = item[i].age + 1]
  BY DEF Expire, Inv, TInv, TypeOK
<1> QED BY <1>1, <1>2, AgeInv DEF Expire

LEMMA CancelItemInv == ASSUME Inv, TInv', NEW i \in Item, CancelItem(i) PROVE Inv'
<1> DEFINE row == Unlease(item[i], "canceled")
<1>1. item[i] \in Row
  BY DEF Inv, TInv, TypeOK
<1>2. /\ row \in Row /\ row.attempts = item[i].attempts /\ row.lease = NoWorker
      /\ row.status = "canceled"
  BY <1>1, UnleaseRow DEF Ended
<1>3. item' = [item EXCEPT ![i] = row] /\ UNCHANGED <<runs, pc, job>>
  BY DEF CancelItem
<1> HIDE DEF row
<1>4. item'[i] = row
  BY <1>3 DEF Inv, TInv, TypeOK
<1>5. RowRecorded(i)'
  BY <1>2, <1>4 DEF RowRecorded
<1> QED BY <1>2, <1>3, <1>5, WriteOnlyInv

(* The row is marked with a run whose link and snapshot are stored.         *)
LEMMA MarkRunningInv == ASSUME Inv, TInv', NEW w \in Worker, MarkRunning(w) PROVE Inv'
<1>1. pc[w] = "mark" /\ pc[w] \in Working \ {"release"} /\ pc[w] \in Starting
  BY DEF MarkRunning, Working, Starting
<1>0. PICK i \in Item : i = job[w].item
  BY <1>1, RunOwn DEF Inv
<1>2. i \in Item /\ job[w].run \in DOMAIN runs[i] /\ StartedBy(w)
  BY <1>0, <1>1, RunOwn DEF Inv
<1>3. CASE item[i].status = "leased" /\ Holds(w)
  <2>1. PICK row \in Row :
            /\ item' = [item EXCEPT ![i] = row]
            /\ row.status = "running" /\ row.lease = w /\ row.run = job[w].run
            /\ row.attempts = item[i].attempts
    BY <1>0, <1>1, <1>3, MarkRow DEF Inv
  <2>2. pc' = [pc EXCEPT ![w] = "wait"] /\ UNCHANGED <<job, runs>>
    BY <1>0, <1>3 DEF MarkRunning
  <2>3. /\ item'[i] = row /\ pc'[w] = "wait" /\ \A v \in Worker \ {w} : pc'[v] = pc[v]
    BY <1>2, <2>1, <2>2 DEF Inv, TInv, TypeOK
  <2>4. RowRecorded(i)'
    BY <1>0, <1>1, <1>2, <2>1, <2>2, <2>3 DEF RowRecorded, StartedBy, RunOf
  <2>5. StartedBy(w)'
    BY <1>1, <1>2, <2>2, <2>3 DEF StartedBy, RunOf
  <2>6. \A v \in Worker \ {w} : StartedBy(v)'
    BY <2>2, <2>3 DEF Inv, StartedBy, RunOf
  <2>7. \A v \in Worker : pc'[v] \in Working => /\ pc[v] \in Working /\ job'[v] = job[v]
                                                /\ pc'[v] = pc[v] \/ pc'[v] = "wait"
    BY <1>1, <2>2, <2>3
  <2>8. row.lease \in {item[i].lease, NoWorker}
    BY <1>0, <1>3, <2>1 DEF Holds
  <2> QED BY <1>2, <2>1, <2>2, <2>4, <2>5, <2>6, <2>7, <2>8, WriteInv
<1>4. CASE ~(item[i].status = "leased" /\ Holds(w))
  <2>1. /\ job' = [job EXCEPT ![w].run = 0] /\ pc' = [pc EXCEPT ![w] = "release"]
        /\ UNCHANGED <<item, runs, expired>>
    BY <1>0, <1>4 DEF MarkRunning, GiveUp
  <2>2. /\ pc'[w] = "release" /\ Others(w) /\ job'[w].item = job[w].item
        /\ job'[w].attempt = job[w].attempt /\ job'[w].report = job[w].report
    BY <2>1 DEF Inv, TInv, TypeOK, Others, Job
  <2>3. StartedBy(w)'
    BY <1>1, <2>2 DEF StartedBy, Inv, Starting
  <2> QED BY <1>1, <2>1, <2>2, <2>3, GoOnInv
<1> QED BY <1>3, <1>4

(* Only the holder's report reaches the row.                                *)
LEMMA ReleaseInv == ASSUME Inv, TInv', NEW w \in Worker, Release(w) PROVE Inv'
<1>0. PICK i \in Item : i = job[w].item
  BY Own DEF Release, Working, Inv
<1>1. pc[w] = "release" /\ pc[w] \in Working /\ StartedBy(w)
  BY DEF Release, Working, Inv
<1>2. Idle(w) /\ UNCHANGED runs
  BY ReturnIdle DEF Release
<1>3. CASE item[i].status \in Owned /\ Holds(w)
  <2>1. PICK row \in Row :
            /\ item' = [item EXCEPT ![i] = row] /\ row.status = job[w].report
            /\ row.status \in Ended /\ row.lease = NoWorker
            /\ row.attempts = item[i].attempts
            /\ row.run = (IF job[w].run = 0 THEN item[i].run ELSE job[w].run)
    BY <1>0, <1>3, ReleaseRow DEF Inv
  <2>2. item'[i] = row /\ job[w].attempt = item[i].attempts
    BY <1>0, <1>1, <1>3, <2>1 DEF Inv, TInv, TypeOK, Attempts
  <2>3. row.status # "running"
    BY <2>1 DEF Ended
  <2>4. ASSUME row.status = "completed"
        PROVE  /\ row.run \in DOMAIN runs[i] /\ runs[i][row.run].attempt = row.attempts
               /\ runs[i][row.run].won
               /\ runs[i][row.run].link /\ runs[i][row.run].snapshot
    <3>1. /\ job[w].run \in DOMAIN runs[i] /\ job[w].run # 0
          /\ RunOf(w).attempt = job[w].attempt /\ RunOf(w).won
          /\ RunOf(w).link /\ RunOf(w).snapshot
      BY <1>0, <1>1, <2>1, <2>4 DEF StartedBy
    <3>2. row.run = job[w].run
      BY <2>1, <3>1
    <3>3. runs[i][row.run] = RunOf(w)
      BY <1>0, <3>2 DEF RunOf
    <3> QED BY <2>1, <2>2, <3>1, <3>2, <3>3
  <2>7. RowRecorded(i)'
    <3>1. UNCHANGED runs
      BY <1>2
    <3> QED BY <2>2, <2>3, <2>4, <3>1 DEF RowRecorded
  <2>5. \A v \in Worker : StartedBy(v)'
    BY <1>2, IdleWorker
  <2>6. \A v \in Worker : pc'[v] \in Working => /\ pc[v] \in Working /\ job'[v] = job[v]
                                                /\ pc'[v] = pc[v] \/ pc'[v] = "wait"
    BY <1>2 DEF Idle, Others
  <2> QED BY <1>1, <1>2, <2>1, <2>5, <2>6, <2>7, WriteInv
<1>4. CASE ~(item[i].status \in Owned /\ Holds(w))
  BY <1>0, <1>2, <1>4, IdleInv DEF Release
<1> QED BY <1>3, <1>4

(* A lease is a new attempt, of one worker.                                 *)
LEMMA LeaseInv == ASSUME Inv, TInv', NEW w \in Worker, Lease(w) PROVE Inv'
<1>1. CASE Return(w) /\ UNCHANGED <<item, runs>>
  BY <1>1, ReturnIdle, IdleInv
<1>2. ASSUME NEW i \in Oldest(w), Leases(w, i), pc' = [pc EXCEPT ![w] = "check"],
             UNCHANGED <<expired, runs>>
      PROVE  Inv'
  <2> DEFINE n == item[i].attempts + 1
  <2>1. PICK row \in Row :
            /\ i \in Item /\ item[i].status = "queued" /\ item' = [item EXCEPT ![i] = row]
            /\ row.status = "leased" /\ row.lease = w /\ row.attempts = n
            /\ job'[w].item = i /\ job'[w].report = "failed" /\ job'[w].attempt = n
    BY <1>2, LeaseRow DEF Inv
  <2>2. item[i].attempts \in Nat /\ item'[i] = row /\ \A j \in Item \ {i} : item'[j] = item[j]
    BY <2>1 DEF Inv, TInv, TypeOK, Row
  <2>3. pc'[w] = "check" /\ \A v \in Worker \ {w} : pc'[v] = pc[v] /\ job'[v] = job[v]
    BY <1>2 DEF Inv, TInv, TypeOK, Leases
  <2>4. ASSUME NEW v \in Worker \ {w}, pc'[v] \in Working
        PROVE  /\ job[v].item \in Item /\ job[v].attempt \in Nat
               /\ job[v].attempt <= item[job[v].item].attempts
               /\ Holds(v) => job[v].attempt = item[job[v].item].attempts
    BY <2>3, <2>4, Own DEF Inv, Attempts, Job
  <2>5. \A j \in Item : item[j].attempts \in Nat
    BY DEF Inv, TInv, TypeOK, Row
  <2>6. Attempts'
    <3>1. ASSUME NEW v \in Worker, pc'[v] \in Working
          PROVE  /\ job'[v].attempt <= item'[job'[v].item].attempts
                 /\ Holds(v)' => job'[v].attempt = item'[job'[v].item].attempts
      <4>1. CASE v = w
        BY <2>1, <2>2, <4>1
      <4>2. CASE v # w
        BY <2>1, <2>2, <2>3, <2>4, <2>5, <3>1, <4>2 DEF Holds
      <4> QED BY <4>1, <4>2
    <3>2. ASSUME NEW v \in Worker, NEW u \in Worker, v # u, pc'[v] \in Working,
                 pc'[u] \in Working, job'[v].item = job'[u].item
          PROVE  job'[v].attempt # job'[u].attempt
      <4>1. CASE v = w
        BY <2>1, <2>2, <2>3, <2>4, <3>2, <4>1
      <4>2. CASE u = w
        BY <2>1, <2>2, <2>3, <2>4, <3>2, <4>2
      <4>3. CASE v # w /\ u # w
        BY <2>3, <3>2, <4>3 DEF Inv, Attempts
      <4> QED BY <4>1, <4>2, <4>3
    <3> QED BY <3>1, <3>2 DEF Attempts
  <2>7. RunsOfAttempts'
    <3>1. \A j \in Item : \A k \in DOMAIN runs[j] :
              runs[j][k].attempt \in Nat /\ runs[j][k].attempt <= item[j].attempts
      BY RunFields DEF Inv, RunsOfAttempts, Run
    <3>2. \A j \in Item : \A k \in DOMAIN runs[j] : runs[j][k].attempt <= item'[j].attempts
      BY <2>1, <2>2, <2>5, <3>1
    <3>3. \A k \in DOMAIN runs[i] : runs[i][k].attempt # n
      BY <2>1, <2>2, <3>1
    <3>4. ASSUME NEW v \in Worker, pc'[v] \in {"check", "launch"}
          PROVE  \A k \in DOMAIN runs[job'[v].item] :
                    runs[job'[v].item][k].attempt # job'[v].attempt
      BY <2>1, <2>3, <3>3, <3>4 DEF Inv, RunsOfAttempts
    <3>5. OneRunPerAttempt'
      BY <1>2 DEF Inv, RunsOfAttempts, OneRunPerAttempt
    <3> QED BY <1>2, <3>2, <3>4, <3>5 DEF RunsOfAttempts
  <2>8. \A v \in Worker : StartedBy(v)'
    <3>1. StartedBy(w)'
      BY <2>1, <2>3 DEF StartedBy, Starting
    <3>2. \A v \in Worker \ {w} : StartedBy(v)'
      BY <1>2, <2>3 DEF Inv, StartedBy, RunOf
    <3> QED BY <3>1, <3>2
  <2>9. \A j \in Item : RowRecorded(j)'
    BY <1>2, <2>1, <2>2 DEF Inv, RowRecorded
  <2> QED BY <2>6, <2>7, <2>8, <2>9 DEF Inv
<1> QED BY <1>1, <1>2 DEF Lease, Leases

(* A run is written without losing what is stored about it.                 *)
LEMMA RunInv ==
  ASSUME Inv, TInv', NEW i \in Item, NEW k \in DOMAIN runs[i], NEW r \in Run, WriteRun(i, k, r),
         r.attempt = runs[i][k].attempt,
         runs[i][k].link => r.link, runs[i][k].snapshot => r.snapshot,
         runs[i][k].won => r.won,
         UNCHANGED <<item, job>>,
         NEW W \in SUBSET Worker, \A v \in W : StartedBy(v)',
         \A v \in Worker \ W : pc'[v] = pc[v],
         \A v \in Worker : /\ pc'[v] \in Working => pc[v] \in Working
                           /\ pc'[v] \in {"check", "launch"} => pc'[v] = pc[v]
  PROVE  Inv'
<1>1. /\ runs' \in [Item -> Seq(Run)] /\ runs'[i][k] = r
      /\ \A j \in Item : DOMAIN runs'[j] = DOMAIN runs[j]
      /\ \A j \in Item : \A m \in DOMAIN runs[j] : j # i \/ m # k => runs'[j][m] = runs[j][m]
  BY WrittenRun DEF Inv
<1>2. \A j \in Item : \A m \in DOMAIN runs[j] :
         /\ runs'[j][m].attempt = runs[j][m].attempt
         /\ runs[j][m].link => runs'[j][m].link
         /\ runs[j][m].snapshot => runs'[j][m].snapshot
         /\ runs[j][m].won => runs'[j][m].won
  BY <1>1
<1>3. Attempts'
  BY DEF Inv, Attempts, Holds
<1>4. RunsOfAttempts'
  <2>1. \A v \in Worker : pc'[v] \in {"check", "launch"} => job[v].item \in Item
    BY Own DEF Inv, Working
  <2>2. OneRunPerAttempt'
    BY <1>1, <1>2 DEF Inv, RunsOfAttempts, OneRunPerAttempt
  <2>3. \A j \in Item : \A m \in DOMAIN runs'[j] : runs'[j][m].attempt <= item'[j].attempts
    BY <1>1, <1>2 DEF Inv, RunsOfAttempts
  <2>4. ASSUME NEW v \in Worker, pc'[v] \in {"check", "launch"},
               NEW m \in DOMAIN runs'[job'[v].item]
        PROVE  runs'[job'[v].item][m].attempt # job'[v].attempt
    <3>1. /\ job'[v] = job[v] /\ pc[v] \in {"check", "launch"} /\ job[v].item \in Item
          /\ m \in DOMAIN runs[job[v].item]
      BY <1>1, <2>1, <2>4
    <3>2. runs[job[v].item][m].attempt # job[v].attempt
      BY <3>1 DEF Inv, RunsOfAttempts
    <3> QED BY <1>2, <3>1, <3>2
  <2> QED BY <2>2, <2>3, <2>4 DEF RunsOfAttempts
<1>5. ASSUME NEW v \in Worker \ W PROVE StartedBy(v)'
  <2>1. pc'[v] = pc[v] /\ job'[v] = job[v] /\ StartedBy(v)
    BY DEF Inv
  <2>2. pc[v] \in Working => job[v].item \in Item
    BY Own DEF Inv
  <2>3. pc[v] \in Starting => job[v].run \in DOMAIN runs[job[v].item] /\ pc[v] \in Working
    BY RunOwn DEF Inv
  <2> QED BY <1>1, <1>2, <2>1, <2>2, <2>3, ZenonT(40) DEF StartedBy, RunOf, Starting, Working
<1>6. \A j \in Item : RowRecorded(j)'
  BY <1>1, <1>2 DEF Inv, RowRecorded
<1> QED BY <1>3, <1>4, <1>5, <1>6 DEF Inv

LEMMA LinkRunInv == ASSUME Inv, TInv', NEW w \in Worker, LinkRun(w) PROVE Inv'
<1>1. pc[w] = "link" /\ pc[w] \in Starting
  BY DEF LinkRun, Starting
<1>0. PICK i \in Item : i = job[w].item
  BY <1>1, RunOwn DEF Inv
<1>2. PICK k \in DOMAIN runs[i] : i = job[w].item /\ k = job[w].run
  BY <1>0, <1>1, RunOwn DEF Inv
<1> DEFINE r == [runs[i][k] EXCEPT !.link = TRUE]
<1>9. r \in Run /\ runs[i][k] \in Run
  BY RunFields DEF Inv
<1>3. /\ r \in Run /\ r.attempt = runs[i][k].attempt /\ r.link
      /\ r.snapshot = runs[i][k].snapshot /\ r.won = runs[i][k].won
  BY <1>9 DEF Run
<1>4. WriteRun(i, k, r)
  BY <1>2 DEF LinkRun, WriteRun, Inv, TInv, TypeOK
<1> HIDE DEF r
<1>5. /\ pc'[w] = "snapshot" /\ \A v \in Worker \ {w} : pc'[v] = pc[v]
      /\ UNCHANGED <<item, job>>
  BY DEF LinkRun, Inv, TInv, TypeOK
<1>6. runs'[i][k] = r
  BY <1>3, <1>4, WrittenRun DEF Inv
<1>7. StartedBy(w)'
  BY <1>1, <1>2, <1>3, <1>5, <1>6 DEF Inv, StartedBy, RunOf, Starting, Working
<1>8. \A v \in Worker : /\ pc'[v] \in Working => pc[v] \in Working
                        /\ pc'[v] \in {"check", "launch"} => pc'[v] = pc[v]
  BY <1>1, <1>5 DEF Working
<1>10. {w} \in SUBSET Worker /\ \A v \in {w} : StartedBy(v)'
  BY <1>7
<1> QED BY <1>3, <1>4, <1>5, <1>8, <1>10, RunInv

LEMMA SnapshotRunInv == ASSUME Inv, TInv', NEW w \in Worker, SnapshotRun(w) PROVE Inv'
<1>1. pc[w] = "snapshot" /\ pc[w] \in Starting
  BY DEF SnapshotRun, Starting
<1>0. PICK i \in Item : i = job[w].item
  BY <1>1, RunOwn DEF Inv
<1>2. PICK k \in DOMAIN runs[i] : i = job[w].item /\ k = job[w].run
  BY <1>0, <1>1, RunOwn DEF Inv
<1> DEFINE r == [runs[i][k] EXCEPT !.snapshot = TRUE]
<1>9. r \in Run /\ runs[i][k] \in Run
  BY RunFields DEF Inv
<1>3. /\ r \in Run /\ r.attempt = runs[i][k].attempt /\ r.snapshot
      /\ r.link = runs[i][k].link /\ r.won = runs[i][k].won
  BY <1>9 DEF Run
<1>4. WriteRun(i, k, r)
  BY <1>2 DEF SnapshotRun, WriteRun, Inv, TInv, TypeOK
<1> HIDE DEF r
<1>5. /\ pc'[w] = "mark" /\ \A v \in Worker \ {w} : pc'[v] = pc[v]
      /\ UNCHANGED <<item, job>>
  BY DEF SnapshotRun, Inv, TInv, TypeOK
<1>6. runs'[i][k] = r
  BY <1>3, <1>4, WrittenRun DEF Inv
<1>7. StartedBy(w)'
  BY <1>1, <1>2, <1>3, <1>5, <1>6 DEF Inv, StartedBy, RunOf, Starting, Working
<1>8. \A v \in Worker : /\ pc'[v] \in Working => pc[v] \in Working
                        /\ pc'[v] \in {"check", "launch"} => pc'[v] = pc[v]
  BY <1>1, <1>5 DEF Working
<1>10. {w} \in SUBSET Worker /\ \A v \in {w} : StartedBy(v)'
  BY <1>7
<1> QED BY <1>3, <1>4, <1>5, <1>8, <1>10, RunInv

LEMMA RunChangesInv == ASSUME Inv, TInv', NEW i \in Item, RunChanges(i) PROVE Inv'
<1>1. PICK k \in DOMAIN runs[i] : \E s \in {"active"} \cup RunEnded :
         WriteRun(i, k, StatusWritten(i, k, s)) /\ StatusWritten(i, k, s) \in Run
  BY ChangedRun DEF Inv
<1>0. PICK s \in {"active"} \cup RunEnded :
         WriteRun(i, k, StatusWritten(i, k, s)) /\ StatusWritten(i, k, s) \in Run
  BY <1>1
<1> DEFINE r == StatusWritten(i, k, s)
<1>6. runs[i][k] \in Run
  BY RunFields DEF Inv
<1>2. /\ r \in Run /\ WriteRun(i, k, r) /\ r.attempt = runs[i][k].attempt
      /\ r.link = runs[i][k].link /\ r.snapshot = runs[i][k].snapshot
      /\ runs[i][k].won => r.won
  BY <1>0, <1>6 DEF StatusWritten, Run
<1> HIDE DEF r
<1>3. UNCHANGED <<item, pc, job>>
  BY DEF RunChanges
<1>4. \A v \in Worker : /\ pc'[v] = pc[v] /\ pc'[v] \in Working => pc[v] \in Working
  BY <1>3
<1>5. {} \in SUBSET Worker /\ \A v \in {} : StartedBy(v)'
  OBVIOUS
<1> QED BY <1>0, <1>2, <1>3, <1>4, <1>5, RunInv

(* The first run of an attempt.                                             *)
LEMMA LaunchRunbookInv == ASSUME Inv, TInv', NEW w \in Worker, LaunchRunbook(w) PROVE Inv'
<1>1. pc[w] = "launch" /\ pc[w] \in Working \ {"release"} /\ UNCHANGED <<item, expired>>
  BY DEF LaunchRunbook, Working
<1>2. CASE runs' = runs
  <2>1. runs # [runs EXCEPT ![job[w].item] = Append(@, [status |-> "active",
             attempt |-> job[w].attempt,
             won |-> FALSE, link |-> FALSE, snapshot |-> FALSE])]
    BY <1>1, Own DEF Inv, TInv, TypeOK
  <2> QED BY <1>1, <1>2, <2>1, GiveUpInv DEF LaunchRunbook
<1>3. CASE runs' # runs
  <2>0. PICK i \in Item, n \in Nat : i = job[w].item /\ n = Len(runs[i]) + 1
    BY <1>3, NewRun DEF Inv
  <2>1. /\ DOMAIN runs'[i] = DOMAIN runs[i] \cup {n} /\ n \notin DOMAIN runs[i]
        /\ runs'[i][n].attempt = job[w].attempt
        /\ \A k \in DOMAIN runs[i] : runs'[i][k] = runs[i][k]
        /\ \A j \in Item \ {i} : runs'[j] = runs[j]
        /\ job'[w].run = n /\ job'[w].item = i /\ job'[w].attempt = job[w].attempt
        /\ job'[w].report = job[w].report /\ \A v \in Worker \ {w} : job'[v] = job[v]
        /\ pc' = [pc EXCEPT ![w] = "link"]
    <3> DEFINE new == [status |-> "active", attempt |-> job[w].attempt,
                       won |-> FALSE, link |-> FALSE, snapshot |-> FALSE]
    <3>1. /\ DOMAIN runs'[i] = DOMAIN runs[i] \cup {n} /\ n \notin DOMAIN runs[i]
          /\ runs'[i][n] = new
          /\ \A k \in DOMAIN runs[i] : runs'[i][k] = runs[i][k]
          /\ \A j \in Item \ {i} : runs'[j] = runs[j]
      BY <1>3, <2>0, NewRun DEF Inv
    <3>2. /\ job'[w].run = n /\ job'[w].item = i /\ job'[w].attempt = job[w].attempt
          /\ job'[w].report = job[w].report /\ \A v \in Worker \ {w} : job'[v] = job[v]
          /\ pc' = [pc EXCEPT ![w] = "link"]
      BY <1>3, <2>0, NewRun DEF Inv
    <3> QED BY <3>1, <3>2
  <2>2. pc'[w] = "link" /\ \A v \in Worker \ {w} : pc'[v] = pc[v]
    BY <2>1 DEF Inv, TInv, TypeOK
  <2>3. \A j \in Item : \A k \in DOMAIN runs[j] :
           k \in DOMAIN runs'[j] /\ runs'[j][k] = runs[j][k]
    BY <2>1
  <2>4. Attempts'
    BY <1>1, <2>0, <2>1, <2>2 DEF Inv, Attempts, Holds
  <2>5. RunsOfAttempts'
    <3>1. \A j \in Item : \A k \in DOMAIN runs'[j] : runs'[j][k].attempt <= item'[j].attempts
      BY <1>1, <2>0, <2>1 DEF Inv, RunsOfAttempts, Attempts
    <3>2. ASSUME NEW v \in Worker, pc'[v] \in {"check", "launch"},
                 NEW k \in DOMAIN runs'[job'[v].item]
          PROVE  runs'[job'[v].item][k].attempt # job'[v].attempt
      <4>1. v # w /\ pc'[v] = pc[v] /\ job'[v] = job[v] /\ pc[v] \in Working
        BY <2>1, <2>2, <3>2 DEF Working
      <4>2. job[v].item \in Item
        BY <4>1, Own DEF Inv
      <4>3. CASE k \in DOMAIN runs[job[v].item]
        BY <2>3, <3>2, <4>1, <4>2, <4>3 DEF Inv, RunsOfAttempts
      <4>4. CASE k \notin DOMAIN runs[job[v].item]
        <5>1. job[v].item = i /\ k = n
          BY <2>1, <3>2, <4>1, <4>2, <4>4
        <5> QED BY <1>1, <2>0, <2>1, <4>1, <5>1 DEF Inv, Attempts
      <4> QED BY <4>3, <4>4
    <3>3. \A k \in DOMAIN runs[i] : runs'[i][k].attempt # runs'[i][n].attempt
      BY <1>1, <2>0, <2>1 DEF Inv, RunsOfAttempts
    <3>4. OneRunPerAttempt'
      BY <2>1, <2>3, <3>3 DEF Inv, RunsOfAttempts, OneRunPerAttempt
    <3> QED BY <3>1, <3>2, <3>4 DEF RunsOfAttempts
  <2>6. ASSUME NEW v \in Worker PROVE StartedBy(v)'
    <3>1. CASE v = w
      BY <1>1, <2>1, <2>2, <3>1 DEF Inv, StartedBy, RunOf, Starting, Working
    <3>2. CASE v # w
      <4>1. pc'[v] = pc[v] /\ job'[v] = job[v] /\ StartedBy(v)
        BY <2>1, <2>2, <3>2 DEF Inv
      <4>2. pc[v] \in Working => job[v].item \in Item
        BY Own DEF Inv
      <4>3. pc[v] \in Starting => job[v].run \in DOMAIN runs[job[v].item] /\ pc[v] \in Working
        BY RunOwn DEF Inv
      <4> QED BY <2>3, <4>1, <4>2, <4>3 DEF StartedBy, RunOf, Starting, Working
    <3> QED BY <3>1, <3>2
  <2>7. \A j \in Item : RowRecorded(j)'
    BY <1>1, <2>3 DEF Inv, RowRecorded
  <2> QED BY <2>4, <2>5, <2>6, <2>7 DEF Inv
<1> QED BY <1>2, <1>3

LEMMA NextInv == ASSUME Inv, [Next]_vars PROVE Inv'
<1>0. TInv'
  BY NextTInv DEF Inv
<1>1. CASE UNCHANGED vars
  <2>1. UNCHANGED <<item, runs, pc, job>>
    BY <1>1 DEF vars
  <2>2. Attempts' /\ RunsOfAttempts'
    BY <2>1 DEF Inv, Attempts, RunsOfAttempts, OneRunPerAttempt, Holds
  <2>3. (\A w \in Worker : StartedBy(w)') /\ \A i \in Item : RowRecorded(i)'
    BY <2>1 DEF Inv, StartedBy, RunOf, RowRecorded
  <2> QED BY <1>0, <2>2, <2>3 DEF Inv
<1>2. ASSUME NEW w \in Worker, Tick(w) PROVE Inv'
  BY <1>0, <1>2, RecoverSelectInv, RecoverUpdateInv, RecoverDoneInv, CountRunsInv,
     CountActiveInv, EnqueueDueInv, LeaseInv DEF Tick
<1>3. ASSUME NEW w \in Worker, Start(w) PROVE Inv'
  BY <1>0, <1>3, CheckLeaseInv, LaunchRunbookInv, LinkRunInv, SnapshotRunInv, MarkRunningInv
     DEF Start
<1>4. ASSUME NEW w \in Worker, TimeOut(w) PROVE Inv'
  <2>1. pc[w] \in Working \ {"release"} /\ GiveUp(w) /\ UNCHANGED <<item, runs, expired, job>>
    BY <1>4 DEF TimeOut, Working, Starting
  <2> QED BY <1>0, <2>1, GiveUpInv
<1>5. ASSUME NEW w \in Worker, Finish(w) \/ Renew(w) \/ LoseCall(w) \/ Die(w) PROVE Inv'
  BY <1>0, <1>4, <1>5, PollEndedInv, ReleaseInv, RenewInv, LoseCallInv, DieInv DEF Finish
<1>6. ASSUME NEW i \in Item, Expire(i) \/ RunChanges(i) \/ CancelItem(i) PROVE Inv'
  BY <1>0, <1>6, ExpireInv, RunChangesInv, CancelItemInv
<1>7. ASSUME NEW l \in Launch, EnqueueManual(l) PROVE Inv'
  BY <1>0, <1>7, EnqueueManualInv
<1> QED BY <1>1, <1>2, <1>3, <1>5, <1>6, <1>7 DEF Next, Scheduled

LEMMA AlwaysInv == Spec => []Inv
  BY InitInv, NextInv, PTL DEF Spec

(* A row that is running or completed names a run whose link and snapshot   *)
(* were stored before (StartQueuedLaunchRun marks the row last).            *)
THEOREM RunsAreRecorded == Spec => []RunningIsRecorded
<1>1. Inv => RunningIsRecorded
  BY DEF Inv, RowRecorded, RunningIsRecorded
<1> QED BY <1>1, AlwaysInv, PTL

(* A completed row names a run that has succeeded: no report of another run *)
(* completes it (waitForRun, ReleaseRunQueueLease).  What Cancel writes to  *)
(* that run afterwards does not reach the row.                              *)
THEOREM CompletedRunsSucceeded == Spec => []CompletedMeansSucceeded
<1>1. Inv => CompletedMeansSucceeded
  BY DEF Inv, RowRecorded, CompletedMeansSucceeded
<1> QED BY <1>1, AlwaysInv, PTL

(* The run that completes a row was started under its newest lease: the     *)
(* WHERE clause of ReleaseRunQueueLease keeps older workers out.            *)
THEOREM NewestLeaseDecides == Spec => []LatestAttemptDecides
<1>1. Inv => LatestAttemptDecides
  BY DEF Inv, RowRecorded, LatestAttemptDecides
<1> QED BY <1>1, AlwaysInv, PTL

(* A runbook is started at most once for one lease, over all workers.       *)
THEOREM StartedOncePerLease == Spec => []OneRunPerAttempt
<1>1. Inv => OneRunPerAttempt
  BY DEF Inv, RunsOfAttempts
<1> QED BY <1>1, AlwaysInv, PTL

-----------------------------------------------------------------------------
(* Attempts are limited.  A recovery may still queue a row it selected      *)
(* before; such updates are counted, one for each worker.                   *)
Pending(i) == {w \in Worker : [id |-> i, status |-> "queued"] \in expired[w]}

Within(i) == item[i].status # "none" =>
    item[i].attempts + (IF item[i].status = "queued" THEN 1 ELSE 0) + Cardinality(Pending(i))
    <= MaxAttempts[item[i].launch] - 1 + Cardinality(Worker)

LEMMA PendingCount ==
  ASSUME NEW i
  PROVE  /\ IsFiniteSet(Pending(i)) /\ Cardinality(Pending(i)) \in Nat
         /\ Cardinality(Worker) \in Nat /\ Cardinality(Pending(i)) <= Cardinality(Worker)
  BY QueueAssumption, FS_Subset, FS_CardinalityType DEF Pending

LEMMA PendingCount2 ==
  ASSUME NEW i, Pending(i)' \subseteq Pending(i)
  PROVE  Cardinality(Pending(i)') \in Nat /\ Cardinality(Pending(i)') <= Cardinality(Pending(i))
<1>1. IsFiniteSet(Pending(i)) /\ Pending(i)' \in SUBSET Pending(i)
  BY PendingCount
<1> QED BY <1>1, FS_Subset, FS_CardinalityType

LEMMA RowNumbers ==
  ASSUME TInv, NEW i \in Item, item[i].status # "none"
  PROVE  item[i].attempts \in Nat /\ MaxAttempts[item[i].launch] \in Nat \ {0}
  BY QueueAssumption DEF TInv, TypeOK, Placed, Row

(* Nothing is queued, leased or selected.                                   *)
LEMMA CalmWithin ==
  ASSUME TInv, \A i \in Item : Within(i), \A w \in Worker : expired'[w] \subseteq expired[w],
         \A i \in Item : \/ item'[i] = item[i]
                         \/ /\ item[i].status # "none" /\ item'[i].launch = item[i].launch
                            /\ item'[i].attempts = item[i].attempts
                            /\ item'[i].status = "queued" => item[i].status = "queued"
  PROVE  \A i \in Item : Within(i)'
<1> SUFFICES ASSUME NEW i \in Item, item'[i].status # "none" PROVE Within(i)'
  BY DEF Within
<1>1. Cardinality(Pending(i)') \in Nat /\ Cardinality(Pending(i)') <= Cardinality(Pending(i))
  <2>1. Pending(i)' \subseteq Pending(i)
    BY DEF Pending
  <2> QED BY <2>1, PendingCount2
<1>2. item[i].status # "none"
  OBVIOUS
<1>3. item[i].attempts \in Nat /\ MaxAttempts[item[i].launch] \in Nat
  BY <1>2, RowNumbers
<1>4. /\ item[i].attempts + (IF item[i].status = "queued" THEN 1 ELSE 0) + Cardinality(Pending(i))
         <= MaxAttempts[item[i].launch] - 1 + Cardinality(Worker)
      /\ item'[i].launch = item[i].launch /\ item'[i].attempts = item[i].attempts
      /\ item'[i].status = "queued" => item[i].status = "queued"
  BY <1>2 DEF Within
<1>5. Cardinality(Pending(i)) \in Nat /\ Cardinality(Worker) \in Nat
  BY PendingCount
<1> QED BY <1>1, <1>3, <1>4, <1>5 DEF Within

(* A row is selected to be queued again only while attempts are left.       *)
LEMMA RecoverSelectWithin ==
  ASSUME TInv, \A i \in Item : Within(i), NEW w \in Worker, RecoverSelect(w)
  PROVE  \A i \in Item : Within(i)'
<1> SUFFICES ASSUME NEW i \in Item, item[i].status # "none" PROVE Within(i)'
  BY DEF Within, RecoverSelect
<1>1. item' = item /\ \A v \in Worker \ {w} : expired'[v] = expired[v]
  BY DEF RecoverSelect, TInv, TypeOK
<1>2. item[i].attempts \in Nat /\ MaxAttempts[item[i].launch] \in Nat
  BY RowNumbers
<1>3. CASE w \in Pending(i)'
  <2> DEFINE late == {j \in Item : item[j].status \in Owned /\ item[j].age = 2}
  <2>1. expired'[w] = {[id |-> j, status |-> IF item[j].attempts >= MaxAttempts[item[j].launch]
                                             THEN "failed" ELSE "queued"] : j \in late}
    BY DEF RecoverSelect, TInv, TypeOK
  <2>2. [id |-> i, status |-> "queued"] \in expired'[w]
    BY <1>3 DEF Pending
  <2>3. PICK j \in late : [id |-> i, status |-> "queued"] =
             [id |-> j, status |-> IF item[j].attempts >= MaxAttempts[item[j].launch]
                                   THEN "failed" ELSE "queued"]
    BY <2>1, <2>2
  <2>4. j = i /\ ~(item[j].attempts >= MaxAttempts[item[j].launch])
    BY <2>3
  <2>5. ~(item[i].attempts >= MaxAttempts[item[i].launch]) /\ item[i].status # "queued"
    BY <2>4 DEF Owned
  <2>6. /\ Pending(i)' \in SUBSET Worker /\ Cardinality(Pending(i)') \in Nat
        /\ Cardinality(Pending(i)') <= Cardinality(Worker) /\ Cardinality(Worker) \in Nat
    <3>1. Pending(i)' \in SUBSET Worker
      BY DEF Pending
    <3> QED BY <3>1, QueueAssumption, FS_Subset, FS_CardinalityType
  <2> QED BY <1>1, <1>2, <2>5, <2>6 DEF Within
<1>4. CASE w \notin Pending(i)'
  <2>1. Pending(i)' \subseteq Pending(i)
    BY <1>1, <1>4 DEF Pending
  <2> QED BY <1>1, <1>2, <2>1, PendingCount, PendingCount2 DEF Within
<1> QED BY <1>3, <1>4

LEMMA RecoverUpdateWithin ==
  ASSUME TInv, \A i \in Item : Within(i), NEW w \in Worker, RecoverUpdate(w)
  PROVE  \A i \in Item : Within(i)'
<1>1. PICK x \in expired[w] : /\ item' = [item EXCEPT ![x.id] = Unlease(item[x.id], x.status)]
                              /\ expired' = [expired EXCEPT ![w] = expired[w] \ {x}]
  BY DEF RecoverUpdate, TInv, TypeOK
<1>2. x.id \in Item /\ x.status \in {"queued", "failed"} /\ item[x.id].status # "none"
      /\ x = [id |-> x.id, status |-> x.status] /\ item[x.id] \in Row
  BY DEF TInv, TypeOK, Placed
<1>3. /\ Unlease(item[x.id], x.status).launch = item[x.id].launch
      /\ Unlease(item[x.id], x.status).attempts = item[x.id].attempts
      /\ Unlease(item[x.id], x.status).status = x.status
  BY <1>2, UnleaseRow DEF Ended
<1>4. /\ item'[x.id].launch = item[x.id].launch /\ item'[x.id].attempts = item[x.id].attempts
      /\ item'[x.id].status = x.status /\ \A j \in Item \ {x.id} : item'[j] = item[j]
  BY <1>1, <1>2, <1>3 DEF TInv, TypeOK
<1>5. \A v \in Worker : expired'[v] \subseteq expired[v]
  BY <1>1 DEF TInv, TypeOK
<1>6. CASE x.status = "failed"
  BY <1>2, <1>4, <1>5, <1>6, CalmWithin
<1>7. CASE x.status = "queued"
  <2> SUFFICES ASSUME NEW i \in Item, item'[i].status # "none" PROVE Within(i)'
    BY DEF Within
  <2>1. Pending(i)' \subseteq Pending(i)
    BY <1>5 DEF Pending
  <2>2. /\ Cardinality(Pending(i)') \in Nat /\ Cardinality(Pending(i)') <= Cardinality(Pending(i))
        /\ Cardinality(Pending(i)) \in Nat /\ Cardinality(Worker) \in Nat
    BY <2>1, PendingCount, PendingCount2
  <2>3. item[i].status # "none"
    BY <1>2, <1>4
  <2>4. /\ item[i].attempts \in Nat /\ MaxAttempts[item[i].launch] \in Nat
        /\ item[i].attempts + (IF item[i].status = "queued" THEN 1 ELSE 0)
           + Cardinality(Pending(i)) <= MaxAttempts[item[i].launch] - 1 + Cardinality(Worker)
    BY <2>3, RowNumbers DEF Within
  <2>5. CASE i # x.id
    BY <1>4, <2>2, <2>4, <2>5 DEF Within
  <2>6. CASE i = x.id
    <3>1. x = [id |-> i, status |-> "queued"]
      BY <1>2, <1>7, <2>6
    <3>2. w \in Pending(i) /\ Pending(i)' = Pending(i) \ {w}
      BY <1>1, <3>1 DEF Pending, TInv, TypeOK
    <3>3. Cardinality(Pending(i)') = Cardinality(Pending(i)) - 1
      BY <3>2, PendingCount, FS_RemoveElement
    <3> QED BY <1>4, <2>2, <2>4, <2>6, <3>3 DEF Within
  <2> QED BY <2>5, <2>6
<1> QED BY <1>2, <1>6, <1>7

LEMMA InsertWithin ==
  ASSUME TInv, \A i \in Item : Within(i), NEW l \in Launch, Insert(l), UNCHANGED expired
  PROVE  \A i \in Item : Within(i)'
<1>1. PICK i \in Item, row \in Row :
            /\ item[i] = NoItem /\ item' = [item EXCEPT ![i] = row]
            /\ row.launch = l /\ row.status = "queued" /\ row.attempts = 0
  BY InsertRow
<1>2. item'[i] = row /\ \A j \in Item \ {i} : item'[j] = item[j]
  BY <1>1 DEF TInv, TypeOK
<1>3. \A j \in Item : Pending(j)' = Pending(j)
  BY DEF Pending
<1>4. Within(i)'
  <2>1. item[i].status = "none"
    BY <1>1, Blank
  <2>2. Pending(i)' = {}
    BY <1>3, <2>1 DEF Pending, TInv, TypeOK, Placed
  <2>3. Cardinality(Worker) \in Nat \ {0} /\ MaxAttempts[l] \in Nat \ {0}
    BY QueueAssumption, FS_CardinalityType, FS_EmptySet
  <2>4. Cardinality(Pending(i)') = 0
    BY <2>2, FS_EmptySet
  <2> QED BY <1>1, <1>2, <2>3, <2>4 DEF Within
<1>5. ASSUME NEW j \in Item \ {i} PROVE Within(j)'
  BY <1>2, <1>3 DEF Within
<1> QED BY <1>4, <1>5

LEMMA LeaseWithin ==
  ASSUME TInv, \A i \in Item : Within(i), NEW w \in Worker, Lease(w)
  PROVE  \A i \in Item : Within(i)'
<1>1. CASE Return(w) /\ UNCHANGED item
  <2>1. \A v \in Worker : expired'[v] \subseteq expired[v]
    BY <1>1 DEF Return, TInv, TypeOK
  <2> QED BY <1>1, <2>1, CalmWithin
<1>2. ASSUME NEW i \in Oldest(w), Leases(w, i), UNCHANGED expired
      PROVE  \A j \in Item : Within(j)'
  <2>1. PICK row \in Row :
            /\ i \in Item /\ item[i].status = "queued" /\ item' = [item EXCEPT ![i] = row]
            /\ row.launch = item[i].launch /\ row.status = "leased"
            /\ row.attempts = item[i].attempts + 1
    BY <1>2, LeaseRow
  <2>2. item'[i] = row /\ \A j \in Item \ {i} : item'[j] = item[j]
    BY <2>1 DEF TInv, TypeOK
  <2>3. \A j \in Item : Pending(j)' = Pending(j)
    BY <1>2 DEF Pending
  <2>4. /\ item[i].attempts \in Nat /\ MaxAttempts[item[i].launch] \in Nat
        /\ Cardinality(Pending(i)) \in Nat /\ Cardinality(Worker) \in Nat
        /\ item[i].attempts + 1 + Cardinality(Pending(i))
           <= MaxAttempts[item[i].launch] - 1 + Cardinality(Worker)
    BY <2>1, RowNumbers, PendingCount DEF Within
  <2>5. Within(i)'
    BY <2>1, <2>2, <2>3, <2>4 DEF Within
  <2>6. ASSUME NEW j \in Item \ {i} PROVE Within(j)'
    BY <2>2, <2>3 DEF Within
  <2> QED BY <2>5, <2>6
<1> QED BY <1>1, <1>2 DEF Lease, Leases

(* Steps that take no row into the queue.                                   *)
LEMMA QuietWithin ==
  ASSUME TInv, \A i \in Item : Within(i), UNCHANGED <<item, expired>>
  PROVE  \A i \in Item : Within(i)'
<1>1. \A v \in Worker : expired'[v] \subseteq expired[v]
  OBVIOUS
<1> QED BY <1>1, CalmWithin

LEMMA WorkerWithin ==
  ASSUME TInv, \A i \in Item : Within(i), NEW w \in Worker,
         \/ RecoverDone(w) \/ CountRuns(w) \/ CountActive(w) \/ CheckLease(w)
         \/ LaunchRunbook(w) \/ LinkRun(w) \/ SnapshotRun(w) \/ PollEnded(w) \/ TimeOut(w)
         \/ LoseCall(w)
  PROVE  \A i \in Item : Within(i)'
<1>1. UNCHANGED <<item, expired>>
  BY DEF RecoverDone, CountRuns, CountActive, Skip, CheckLease, LaunchRunbook, LinkRun, SnapshotRun,
         PollEnded, TimeOut, LoseCall
<1> QED BY <1>1, QuietWithin

LEMMA ReturnWithin ==
  ASSUME TInv, \A i \in Item : Within(i), NEW w \in Worker, Return(w), UNCHANGED item
  PROVE  \A i \in Item : Within(i)'
<1>1. \A v \in Worker : expired'[v] \subseteq expired[v]
  BY DEF Return, TInv, TypeOK
<1> QED BY <1>1, CalmWithin

LEMMA MarkRunningWithin ==
  ASSUME TInv, \A i \in Item : Within(i), NEW w \in Worker, MarkRunning(w)
  PROVE  \A i \in Item : Within(i)'
<1>0. PICK i \in Item : i = job[w].item
  BY Own DEF MarkRunning, Working, Starting
<1>1. CASE item[i].status = "leased" /\ Holds(w)
  <2>1. PICK row \in Row :
            /\ item' = [item EXCEPT ![i] = row] /\ row.status = "running"
            /\ row.attempts = item[i].attempts /\ row.launch = item[i].launch
    BY <1>0, <1>1, MarkRow DEF MarkRunning
  <2>2. item'[i] = row /\ \A j \in Item \ {i} : item'[j] = item[j]
    BY <2>1 DEF TInv, TypeOK
  <2>3. \A v \in Worker : expired'[v] \subseteq expired[v]
    BY DEF MarkRunning
  <2> QED BY <1>1, <2>1, <2>2, <2>3, CalmWithin
<1>2. CASE ~(item[i].status = "leased" /\ Holds(w))
  BY <1>0, <1>2, QuietWithin DEF MarkRunning
<1> QED BY <1>1, <1>2

LEMMA ReleaseWithin ==
  ASSUME TInv, \A i \in Item : Within(i), NEW w \in Worker, Release(w)
  PROVE  \A i \in Item : Within(i)'
<1>0. PICK i \in Item : i = job[w].item
  BY Own DEF Release, Working
<1>1. CASE item[i].status \in Owned /\ Holds(w)
  <2>1. PICK row \in Row :
            /\ item' = [item EXCEPT ![i] = row] /\ row.status \in Ended
            /\ row.attempts = item[i].attempts /\ row.launch = item[i].launch
    BY <1>0, <1>1, ReleaseRow
  <2>2. item'[i] = row /\ \A j \in Item \ {i} : item'[j] = item[j]
    BY <2>1 DEF TInv, TypeOK
  <2>3. row.status # "queued" /\ item[i].status # "none"
    BY <1>1, <2>1 DEF Ended, Owned
  <2>4. \A v \in Worker : expired'[v] \subseteq expired[v]
    BY DEF Release, Return, TInv, TypeOK
  <2> QED BY <2>1, <2>2, <2>3, <2>4, CalmWithin
<1>2. CASE ~(item[i].status \in Owned /\ Holds(w))
  BY <1>0, <1>2, ReturnWithin DEF Release
<1> QED BY <1>1, <1>2

LEMMA AgeWithin ==
  ASSUME TInv, \A i \in Item : Within(i), NEW i \in Item, item[i].status # "none",
         NEW a \in 0..2, item' = [item EXCEPT ![i].age = a], UNCHANGED expired
  PROVE  \A j \in Item : Within(j)'
<1>1. PICK row \in Row :
            /\ item' = [item EXCEPT ![i] = row] /\ row.launch = item[i].launch
            /\ row.status = item[i].status /\ row.attempts = item[i].attempts
  BY AgeRow
<1>2. item'[i] = row /\ \A j \in Item \ {i} : item'[j] = item[j]
  BY <1>1 DEF TInv, TypeOK
<1>3. \A v \in Worker : expired'[v] \subseteq expired[v]
  OBVIOUS
<1> QED BY <1>1, <1>2, <1>3, CalmWithin

LEMMA RenewWithin ==
  ASSUME TInv, \A i \in Item : Within(i), NEW w \in Worker, Renew(w)
  PROVE  \A i \in Item : Within(i)'
<1>1. 0 \in 0..2 /\ job[w].item \in Item /\ item[job[w].item].status # "none"
  BY Own DEF Renew, Working, Starting
<1>2. CASE item[job[w].item].status \in Owned /\ Holds(w)
  BY <1>1, <1>2, AgeWithin DEF Renew
<1>3. CASE ~(item[job[w].item].status \in Owned /\ Holds(w))
  BY <1>3, QuietWithin DEF Renew
<1> QED BY <1>2, <1>3

LEMMA ItemWithin ==
  ASSUME TInv, \A i \in Item : Within(i), NEW i \in Item, Expire(i) \/ RunChanges(i) \/ CancelItem(i)
  PROVE  \A j \in Item : Within(j)'
<1>1. CASE Expire(i)
  <2>0. item[i].status \in Owned /\ item[i].age < 2 /\ item[i].age \in 0..2
    BY <1>1 DEF TInv, TypeOK, Row, Expire
  <2>1. item[i].age + 1 \in 0..2 /\ item[i].status # "none"
    BY <2>0 DEF Owned
  <2>2. item' = [item EXCEPT ![i].age = item[i].age + 1]
    BY <1>1 DEF Expire, TInv, TypeOK
  <2>3. UNCHANGED expired
    BY <1>1 DEF Expire
  <2> QED BY <2>1, <2>2, <2>3, AgeWithin
<1>2. CASE RunChanges(i)
  BY <1>2, QuietWithin DEF RunChanges
<1>3. CASE CancelItem(i)
  <2>1. /\ Unlease(item[i], "canceled").launch = item[i].launch
        /\ Unlease(item[i], "canceled").attempts = item[i].attempts
        /\ Unlease(item[i], "canceled").status = "canceled"
    BY UnleaseRow DEF TInv, TypeOK, Ended
  <2>2. /\ item'[i].launch = item[i].launch /\ item'[i].attempts = item[i].attempts
        /\ item'[i].status = "canceled" /\ item[i].status # "none"
        /\ \A j \in Item \ {i} : item'[j] = item[j]
    BY <1>3, <2>1 DEF CancelItem, TInv, TypeOK
  <2>3. \A v \in Worker : expired'[v] \subseteq expired[v]
    BY <1>3 DEF CancelItem
  <2> QED BY <2>2, <2>3, CalmWithin
<1> QED BY <1>1, <1>2, <1>3

LEMMA NextWithin ==
  ASSUME TInv, \A i \in Item : Within(i), [Next]_vars
  PROVE  \A i \in Item : Within(i)'
<1>1. CASE UNCHANGED vars
  BY <1>1, QuietWithin DEF vars
<1>2. ASSUME NEW w \in Worker, EnqueueDue(w) PROVE \A i \in Item : Within(i)'
  <2>1. job[w].launch \in Launch /\ UNCHANGED expired
    BY <1>2 DEF TInv, Placed, EnqueueDue, Skip
  <2>2. Insert(job[w].launch) \/ UNCHANGED item
    BY <1>2 DEF EnqueueDue, Skip
  <2> QED BY <2>1, <2>2, InsertWithin, QuietWithin
<1>3. ASSUME NEW w \in Worker, Die(w) PROVE \A i \in Item : Within(i)'
  BY <1>3, ReturnWithin DEF Die
<1>4. ASSUME NEW w \in Worker,
             Tick(w) \/ Start(w) \/ Finish(w) \/ Renew(w) \/ LoseCall(w) \/ Die(w)
      PROVE  \A i \in Item : Within(i)'
  BY <1>2, <1>3, <1>4, RecoverSelectWithin, RecoverUpdateWithin, LeaseWithin, WorkerWithin,
     MarkRunningWithin, ReleaseWithin, RenewWithin DEF Tick, Start, Finish
<1>5. ASSUME NEW l \in Launch, EnqueueManual(l) PROVE \A i \in Item : Within(i)'
  BY <1>5, InsertWithin DEF EnqueueManual
<1> QED BY <1>1, <1>4, <1>5, ItemWithin DEF Next, Scheduled

(* No row is leased more often than its launch allows, but once more for    *)
(* each other worker: RecoverExpiredRunQueueLeases updates what it selected *)
(* before without looking again.                                            *)
THEOREM AttemptsAreLimited == Spec => []AttemptOvershoot
<1>1. Init => \A i \in Item : Within(i)
  BY DEF Init, Within, NoItem
<1>2. TInv /\ (\A i \in Item : Within(i)) => AttemptOvershoot
  <2> SUFFICES ASSUME TInv, NEW i \in Item, Within(i), item[i].status # "none"
               PROVE  item[i].attempts < MaxAttempts[item[i].launch] + Cardinality(Worker)
    BY DEF AttemptOvershoot
  <2> QED BY RowNumbers, PendingCount DEF Within
<1>3. TInv /\ (\A i \in Item : Within(i)) /\ [Next]_vars => (TInv /\ \A i \in Item : Within(i))'
  BY NextTInv, NextWithin
<1>4. Init => TInv
  BY InitTInv
<1> QED BY <1>1, <1>2, <1>3, <1>4, PTL DEF Spec

\* However many workers lease, lose and recover a row, it is started once for each lease
\* and leased about as often as its retry limit says.
THEOREM AttemptsBounded == Spec => []AttemptsAreBounded
<1> QED BY StartedOncePerLease, AttemptsAreLimited, PTL DEF AttemptsAreBounded

-----------------------------------------------------------------------------
(* One worker: the queue implements QueueLifecycle.                         *)

(* What it has selected for recovery is still so when it updates the row,   *)
(* and only a row that is running gets a report of its run.                 *)
Alone == \A w \in Worker :
    /\ expired[w] # {} => pc[w] = "recovering"
    /\ \A x \in expired[w] :
          /\ item[x.id].status \in Owned
          /\ x.status = "failed" <=> item[x.id].attempts >= MaxAttempts[item[x.id].launch]
    /\ /\ pc[w] = "wait" \/ (pc[w] = "release" /\ job[w].report # "failed")
       /\ item[job[w].item].status \in Owned /\ Holds(w)
       => item[job[w].item].status = "running"

AInv == Inv /\ Alone /\ \A i \in Item : Within(i)

Single == (\E w : Worker = {w}) /\ MaxCancels = 0

(* Nothing happens to the rows, as far as their lifecycle goes.             *)
SameRows == \A i \in Item : /\ item'[i].status = item[i].status
                            /\ item'[i].attempts = item[i].attempts
                            /\ item'[i].launch = item[i].launch

LEMMA SameRowsRefine == ASSUME SameRows PROVE UNCHANGED Lifecycle!vars
  BY DEF SameRows, Lifecycle!vars

(* One row moves.                                                           *)
LEMMA RowMoves ==
  ASSUME Inv, NEW i \in Item, NEW row \in Row, item' = [item EXCEPT ![i] = row],
         item[i].status # "none", row.status # "none", row.launch = item[i].launch,
         NEW from, item[i].status \in from
  PROVE  /\ Lifecycle!Move(i, from, row.status)
         /\ row.attempts = item[i].attempts =>
               UNCHANGED <<[j \in Item |-> item[j].attempts],
                           [j \in Item |-> IF item[j].status = "none" THEN 0
                                           ELSE MaxAttempts[item[j].launch]]>>
<1>1. item'[i] = row /\ \A j \in Item \ {i} : item'[j] = item[j]
  BY DEF Inv, TInv, TypeOK
<1>2. [j \in Item |-> item'[j].status] = [[j \in Item |-> item[j].status] EXCEPT ![i] = row.status]
  <2> DEFINE s == [j \in Item |-> item[j].status]
             t == [s EXCEPT ![i] = row.status]
  <2>1. t = [j \in Item |-> IF j = i THEN row.status ELSE item[j].status]
    OBVIOUS
  <2>2. \A j \in Item : item'[j].status = IF j = i THEN row.status ELSE item[j].status
    BY <1>1
  <2> QED BY <2>1, <2>2
<1>3. [j \in Item |-> IF item'[j].status = "none" THEN 0 ELSE MaxAttempts[item'[j].launch]]
      = [j \in Item |-> IF item[j].status = "none" THEN 0 ELSE MaxAttempts[item[j].launch]]
  BY <1>1
<1>4. row.attempts = item[i].attempts =>
         [j \in Item |-> item'[j].attempts] = [j \in Item |-> item[j].attempts]
  BY <1>1
<1> QED BY <1>2, <1>3, <1>4 DEF Lifecycle!Move

LEMMA AloneIdle ==
  ASSUME NEW w, Worker = {w}, expired'[w] = {}, pc'[w] # "wait",
         pc'[w] = "release" => job'[w].report = "failed"
  PROVE  Alone'
  BY DEF Alone

LEMMA AloneWorking ==
  ASSUME AInv, NEW w, Worker = {w}, pc[w] # "recovering", UNCHANGED expired
  PROVE  expired'[w] = {}
  BY DEF AInv, Alone

LEMMA AloneRows ==
  ASSUME AInv, NEW w, Worker = {w}, UNCHANGED <<pc, job, expired>>,
         \A i \in Item : item[i].status # "none" =>
             /\ item'[i].status = item[i].status /\ item'[i].attempts = item[i].attempts
             /\ item'[i].launch = item[i].launch /\ item'[i].lease = item[i].lease
  PROVE  Alone'
<1>1. /\ expired'[w] # {} => pc'[w] = "recovering"
      /\ \A x \in expired'[w] :
          /\ item'[x.id].status \in Owned
          /\ x.status = "failed" <=> item'[x.id].attempts >= MaxAttempts[item'[x.id].launch]
  <2>1. \A x \in expired[w] : x.id \in Item /\ item[x.id].status # "none"
    BY DEF AInv, Inv, TInv, TypeOK, Placed
  <2> QED BY <2>1 DEF AInv, Alone
<1>2. (/\ pc'[w] = "wait" \/ (pc'[w] = "release" /\ job'[w].report # "failed")
       /\ item'[job'[w].item].status \in Owned /\ Holds(w)')
      => item'[job'[w].item].status = "running"
  <2>1. CASE pc[w] \in {"wait", "release"}
    <3>1. job[w].item \in Item /\ item[job[w].item].status # "none"
      BY <2>1, Own DEF AInv, Inv, Working, Starting
    <3> QED BY <3>1 DEF AInv, Alone, Holds
  <2>2. CASE pc[w] \notin {"wait", "release"}
    BY <2>2
  <2> QED BY <2>1, <2>2
<1> QED BY <1>1, <1>2 DEF Alone

LEMMA AgeAlone ==
  ASSUME AInv, NEW w, Worker = {w}, NEW i \in Item, item[i].status # "none", NEW a \in 0..2,
         item' = [item EXCEPT ![i].age = a], UNCHANGED <<pc, job, expired>>
  PROVE  Alone'
<1>1. PICK row \in Row :
            /\ item' = [item EXCEPT ![i] = row] /\ row.launch = item[i].launch
            /\ row.status = item[i].status /\ row.lease = item[i].lease
            /\ row.attempts = item[i].attempts
  BY AgeRow DEF AInv, Inv
<1>2. item'[i] = row /\ \A j \in Item \ {i} : item'[j] = item[j]
  BY <1>1 DEF AInv, Inv, TInv, TypeOK
<1> QED BY <1>1, <1>2, AloneRows

LEMMA RecoverSelectAlone ==
  ASSUME AInv, NEW w, Worker = {w}, RecoverSelect(w)
  PROVE  Alone'
<1> DEFINE late == {j \in Item : item[j].status \in Owned /\ item[j].age = 2}
<1>1. /\ expired'[w] = {[id |-> j, status |-> IF item[j].attempts >= MaxAttempts[item[j].launch]
                                              THEN "failed" ELSE "queued"] : j \in late}
      /\ pc'[w] = "recovering" /\ item' = item
  BY DEF RecoverSelect, AInv, Inv, TInv, TypeOK
<1>2. ASSUME NEW x \in expired'[w]
      PROVE  /\ item'[x.id].status \in Owned
             /\ x.status = "failed" <=> item'[x.id].attempts >= MaxAttempts[item'[x.id].launch]
  BY <1>1
<1> QED BY <1>1, <1>2 DEF Alone

LEMMA RecoverUpdateAlone ==
  ASSUME AInv, NEW w, Worker = {w}, RecoverUpdate(w)
  PROVE  Alone'
<1>1. PICK x \in expired[w] : /\ item' = [item EXCEPT ![x.id] = Unlease(item[x.id], x.status)]
                              /\ expired' = [expired EXCEPT ![w] = expired[w] \ {x}]
  BY DEF RecoverUpdate, AInv, Inv, TInv, TypeOK
<1>2. pc'[w] = "recovering" /\ expired'[w] = expired[w] \ {x}
  BY <1>1 DEF RecoverUpdate, AInv, Inv, TInv, TypeOK
<1>3. ASSUME NEW y \in expired'[w]
      PROVE  /\ item'[y.id].status \in Owned
             /\ y.status = "failed" <=> item'[y.id].attempts >= MaxAttempts[item'[y.id].launch]
  <2>1. /\ y \in expired[w] /\ y # x /\ x.id \in Item /\ y.id \in Item
        /\ x.status \in {"queued", "failed"} /\ y.status \in {"queued", "failed"}
        /\ x = [id |-> x.id, status |-> x.status] /\ y = [id |-> y.id, status |-> y.status]
    BY <1>2 DEF AInv, Inv, TInv, TypeOK
  <2>2. /\ x.status = "failed" <=> item[x.id].attempts >= MaxAttempts[item[x.id].launch]
        /\ y.status = "failed" <=> item[y.id].attempts >= MaxAttempts[item[y.id].launch]
        /\ item[y.id].status \in Owned
    BY <2>1 DEF AInv, Alone
  <2>3. x.id # y.id
    <3> SUFFICES ASSUME x.id = y.id PROVE FALSE
      OBVIOUS
    <3>1. x.status = y.status
      BY <2>1, <2>2
    <3> QED BY <2>1, <3>1
  <2>4. item'[y.id] = item[y.id]
    BY <1>1, <2>1, <2>3 DEF AInv, Inv, TInv, TypeOK
  <2> QED BY <2>2, <2>4
<1> QED BY <1>2, <1>3 DEF Alone

LEMMA MarkRunningAlone ==
  ASSUME AInv, NEW w, Worker = {w}, MarkRunning(w)
  PROVE  Alone'
<1>0. PICK i \in Item : i = job[w].item
  BY Own DEF MarkRunning, Working, Starting, AInv, Inv
<1>1. expired'[w] = {}
  BY AloneWorking DEF MarkRunning
<1>2. CASE item[i].status = "leased" /\ Holds(w)
  <2>1. PICK row \in Row : item' = [item EXCEPT ![i] = row] /\ row.status = "running"
    BY <1>0, <1>2, MarkRow DEF MarkRunning, AInv, Inv
  <2>2. item'[i].status = "running" /\ pc'[w] = "wait" /\ job' = job
    BY <1>0, <1>2, <2>1 DEF AInv, Inv, TInv, TypeOK, MarkRunning
  <2> QED BY <1>0, <1>1, <2>2 DEF Alone
<1>3. CASE ~(item[i].status = "leased" /\ Holds(w))
  <2>1. job' = [job EXCEPT ![w].run = 0] /\ pc' = [pc EXCEPT ![w] = "release"]
    BY <1>0, <1>3 DEF MarkRunning, GiveUp
  <2>2. pc'[w] = "release" /\ job'[w].report = job[w].report
    BY <2>1 DEF AInv, Inv, TInv, TypeOK, Job
  <2>3. job[w].report = "failed"
    BY DEF AInv, Inv, StartedBy, MarkRunning, Working, Starting
  <2> QED BY <1>1, <2>2, <2>3, AloneIdle
<1> QED BY <1>2, <1>3

LEMMA PollEndedAlone ==
  ASSUME AInv, NEW w, Worker = {w}, PollEnded(w)
  PROVE  Alone'
<1>1. expired'[w] = {}
  BY AloneWorking DEF PollEnded
<1>2. pc[w] = "wait" /\ pc'[w] = "release" /\ item' = item /\ job'[w].item = job[w].item
  BY DEF PollEnded, AInv, Inv, TInv, TypeOK, Job
<1>3. item[job[w].item].status \in Owned /\ Holds(w) => item[job[w].item].status = "running"
  BY <1>2 DEF AInv, Alone
<1> QED BY <1>1, <1>2, <1>3 DEF Alone, Holds

LEMMA GiveUpAlone ==
  ASSUME AInv, NEW w, Worker = {w}, pc[w] \in Working \ {"release"}, GiveUp(w),
         job'[w].report = job[w].report, UNCHANGED expired
  PROVE  Alone'
<1>1. pc[w] # "recovering" /\ job[w].report = "failed"
  BY DEF AInv, Inv, StartedBy, Working, Starting
<1>2. expired'[w] = {} /\ pc'[w] = "release"
  BY <1>1, AloneWorking DEF GiveUp, AInv, Inv, TInv, TypeOK
<1> QED BY <1>1, <1>2, AloneIdle

LEMMA TickAlone ==
  ASSUME AInv, NEW w, Worker = {w}, Tick(w)
  PROVE  Alone'
<1>1. CASE RecoverDone(w)
  <2>1. expired'[w] = {} /\ pc'[w] = "schedule"
    BY <1>1 DEF RecoverDone, AInv, Inv, TInv, TypeOK
  <2> QED BY <2>1, AloneIdle
<1>2. CASE CountRuns(w) \/ CountActive(w) \/ EnqueueDue(w)
  <2>1. pc[w] # "recovering" /\ UNCHANGED expired
    BY <1>2 DEF CountRuns, CountActive, EnqueueDue, Skip
  <2>2. pc'[w] \in {"schedule", "parallel", "insert"}
    BY <1>2 DEF CountRuns, CountActive, EnqueueDue, Skip, AInv, Inv, TInv, TypeOK
  <2> QED BY <2>1, <2>2, AloneWorking, AloneIdle
<1>3. CASE Lease(w)
  <2>1. pc[w] # "recovering" /\ pc'[w] \in {"recover", "check"}
    BY <1>3 DEF Lease, Return, AInv, Inv, TInv, TypeOK
  <2>2. UNCHANGED expired \/ expired'[w] = {}
    BY <1>3 DEF Lease, Return, AInv, Inv, TInv, TypeOK
  <2> QED BY <2>1, <2>2, AloneWorking, AloneIdle
<1> QED BY <1>1, <1>2, <1>3, RecoverSelectAlone, RecoverUpdateAlone DEF Tick

LEMMA StartAlone ==
  ASSUME AInv, NEW w, Worker = {w}, Start(w)
  PROVE  Alone'
<1>1. CASE LinkRun(w) \/ SnapshotRun(w)
  <2>1. pc[w] # "recovering" /\ UNCHANGED expired /\ pc'[w] \in {"snapshot", "mark"}
    BY <1>1 DEF LinkRun, SnapshotRun, AInv, Inv, TInv, TypeOK
  <2> QED BY <2>1, AloneWorking, AloneIdle
<1>2. CASE CheckLease(w)
  <2>1. CASE GiveUp(w)
    BY <1>2, <2>1, GiveUpAlone DEF CheckLease, Working
  <2>2. CASE pc' = [pc EXCEPT ![w] = "launch"]
    <3>1. pc[w] # "recovering" /\ UNCHANGED expired /\ pc'[w] = "launch"
      BY <1>2, <2>2 DEF CheckLease, AInv, Inv, TInv, TypeOK
    <3> QED BY <3>1, AloneWorking, AloneIdle
  <2> QED BY <1>2, <2>1, <2>2 DEF CheckLease
<1>3. CASE LaunchRunbook(w)
  <2>1. CASE GiveUp(w) /\ UNCHANGED job
    BY <1>3, <2>1, GiveUpAlone DEF LaunchRunbook, Working
  <2>2. CASE pc' = [pc EXCEPT ![w] = "link"]
    <3>1. pc[w] # "recovering" /\ UNCHANGED expired /\ pc'[w] = "link"
      BY <1>3, <2>2 DEF LaunchRunbook, AInv, Inv, TInv, TypeOK
    <3> QED BY <3>1, AloneWorking, AloneIdle
  <2> QED BY <1>3, <2>1, <2>2 DEF LaunchRunbook
<1> QED BY <1>1, <1>2, <1>3, MarkRunningAlone DEF Start

LEMMA FinishAlone ==
  ASSUME AInv, NEW w, Worker = {w}, Finish(w) \/ Renew(w) \/ LoseCall(w) \/ Die(w)
  PROVE  Alone'
<1>1. CASE TimeOut(w)
  BY <1>1, GiveUpAlone DEF TimeOut, Working, Starting
<1>2. CASE Release(w) \/ Die(w)
  <2>1. pc'[w] = "recover" /\ expired'[w] = {}
    BY <1>2 DEF Release, Die, Return, AInv, Inv, TInv, TypeOK
  <2> QED BY <2>1, AloneIdle
<1>3. CASE LoseCall(w)
  <2>1. pc[w] \in Working \ {"release"} /\ GiveUp(w) /\ UNCHANGED expired
    BY <1>3 DEF LoseCall, Working, Starting
  <2>2. job'[w].report = job[w].report
    BY <1>3 DEF LoseCall, AInv, Inv, TInv, TypeOK, Job
  <2> QED BY <2>1, <2>2, GiveUpAlone
<1>4. CASE Renew(w)
  <2>1. pc[w] \in Working \ {"release"} /\ 0 \in 0..2
    BY <1>4 DEF Renew, Working, Starting
  <2>0. PICK i \in Item : i = job[w].item /\ item[i].status # "none"
    BY <2>1, Own DEF AInv, Inv
  <2>2. CASE item[i].status \in Owned /\ Holds(w)
    <3>1. item' = [item EXCEPT ![i].age = 0] /\ UNCHANGED <<pc, job, expired>>
      BY <1>4, <2>0, <2>2 DEF Renew
    <3> QED BY <2>0, <2>1, <3>1, AgeAlone
  <2>3. CASE ~(item[i].status \in Owned /\ Holds(w))
    BY <1>4, <2>0, <2>1, <2>3, GiveUpAlone DEF Renew
  <2> QED BY <2>2, <2>3
<1> QED BY <1>1, <1>2, <1>3, <1>4, PollEndedAlone DEF Finish

LEMMA OutsideAlone ==
  ASSUME AInv, NEW w, Worker = {w},
         \/ \E i \in Item : Expire(i) \/ RunChanges(i)
         \/ \E l \in Launch : EnqueueManual(l)
         \/ UNCHANGED vars
  PROVE  Alone'
<1>1. ASSUME NEW i \in Item, Expire(i) PROVE Alone'
  <2>1. item[i].status \in Owned /\ item[i].age < 2 /\ item[i].age \in 0..2
    BY <1>1 DEF AInv, Inv, TInv, TypeOK, Row, Expire
  <2>2. item[i].age + 1 \in 0..2 /\ item[i].status # "none"
    BY <2>1 DEF Owned
  <2>3. item' = [item EXCEPT ![i].age = item[i].age + 1] /\ UNCHANGED <<pc, job, expired>>
    BY <1>1 DEF Expire, AInv, Inv, TInv, TypeOK
  <2> QED BY <2>2, <2>3, AgeAlone
<1>2. ASSUME NEW i \in Item, RunChanges(i) PROVE Alone'
  BY <1>2, AloneRows DEF RunChanges
<1>3. ASSUME NEW l \in Launch, EnqueueManual(l) PROVE Alone'
  <2>1. Insert(l) /\ UNCHANGED <<pc, job, expired>>
    BY <1>3 DEF EnqueueManual
  <2>2. PICK i \in Item : item[i] = NoItem /\ \A j \in Item \ {i} : item'[j] = item[j]
    BY <2>1, InsertRow DEF AInv, Inv, TInv, TypeOK
  <2>3. item[i].status = "none"
    BY <2>2, Blank
  <2> QED BY <2>1, <2>2, <2>3, AloneRows
<1>4. CASE UNCHANGED vars
  BY <1>4, AloneRows DEF vars
<1> QED BY <1>1, <1>2, <1>3, <1>4

LEMMA NextAlone ==
  ASSUME AInv, Single, [Next]_vars
  PROVE  AInv'
<1>1. Inv' /\ \A i \in Item : Within(i)'
  BY NextInv, NextWithin DEF AInv, Inv
<1>2. PICK w : Worker = {w}
  BY DEF Single
<1>3. \A i \in Item : ~CancelItem(i)
  BY DEF Single, CancelItem, AInv, Inv, TInv, TypeOK
<1>4. Alone'
  BY <1>2, <1>3, TickAlone, StartAlone, FinishAlone, OutsideAlone DEF Next, Scheduled
<1> QED BY <1>1, <1>4 DEF AInv

LEMMA SelectedRefine ==
  ASSUME AInv, NEW w, Worker = {w}, RecoverUpdate(w)
  PROVE  \E i \in Item : Lifecycle!Recover(i)
<1>1. PICK x \in expired[w] : item' = [item EXCEPT ![x.id] = Unlease(item[x.id], x.status)]
  BY DEF RecoverUpdate
<1>2. /\ x.id \in Item /\ x.status \in {"queued", "failed"} /\ item[x.id] \in Row
      /\ item[x.id].status \in Owned
      /\ x.status = "failed" <=> item[x.id].attempts >= MaxAttempts[item[x.id].launch]
  BY DEF AInv, Inv, TInv, TypeOK, Alone
<1>3. PICK i \in Item : i = x.id
  BY <1>2
<1>4. PICK row \in Row : /\ item' = [item EXCEPT ![i] = row] /\ row.status = x.status
                         /\ row.launch = item[i].launch /\ row.attempts = item[i].attempts
  BY <1>1, <1>2, <1>3, UnleaseRow, ZenonT(40) DEF Ended
<1>5. item[i].status # "none" /\ row.status # "none" /\ item[i].status \in {"leased", "running"}
  BY <1>2, <1>3, <1>4 DEF Owned
<1>6. item[i].attempts \in Nat /\ MaxAttempts[item[i].launch] \in Nat
  BY <1>5, RowNumbers DEF AInv, Inv
<1>7. Lifecycle!Move(i, {"leased", "running"}, row.status)
  BY <1>4, <1>5, RowMoves DEF AInv
<1>8. UNCHANGED <<[j \in Item |-> item[j].attempts],
                  [j \in Item |-> IF item[j].status = "none" THEN 0
                                  ELSE MaxAttempts[item[j].launch]]>>
  BY <1>4, <1>5, RowMoves DEF AInv
<1>9. item[i].attempts < MaxAttempts[item[i].launch] <=> row.status = "queued"
  BY <1>2, <1>3, <1>4, <1>6
<1>10. row.status \in {"queued", "failed"}
  BY <1>2, <1>4
<1> QED BY <1>5, <1>7, <1>8, <1>9, <1>10 DEF Lifecycle!Recover

LEMMA InsertRefine ==
  ASSUME AInv, NEW l \in Launch, Insert(l)
  PROVE  \E i \in Item : Lifecycle!Enqueue(i)
<1>1. PICK i \in Item, row \in Row :
            /\ item[i] = NoItem /\ item' = [item EXCEPT ![i] = row]
            /\ row.launch = l /\ row.status = "queued" /\ row.attempts = 0
  BY InsertRow DEF AInv, Inv
<1>2. item'[i] = row /\ \A j \in Item \ {i} : item'[j] = item[j]
  BY <1>1 DEF AInv, Inv, TInv, TypeOK
<1>3. item[i].status = "none" /\ item[i].attempts = 0
  BY <1>1 DEF NoItem
<1>4. [j \in Item |-> item'[j].status] = [[j \in Item |-> item[j].status] EXCEPT ![i] = "queued"]
  <2>1. [[j \in Item |-> item[j].status] EXCEPT ![i] = "queued"]
        = [j \in Item |-> IF j = i THEN "queued" ELSE item[j].status]
    OBVIOUS
  <2>2. \A j \in Item : item'[j].status = IF j = i THEN "queued" ELSE item[j].status
    BY <1>1, <1>2
  <2> QED BY <2>1, <2>2
<1>5. [j \in Item |-> item'[j].attempts] = [j \in Item |-> item[j].attempts]
  BY <1>1, <1>2, <1>3
<1> DEFINE limit == [j \in Item |-> IF item[j].status = "none" THEN 0
                                    ELSE MaxAttempts[item[j].launch]]
<1>6. limit'[i] = MaxAttempts[l]
  BY <1>1, <1>2
<1>7. MaxAttempts[l] \in Nat \ {0}
  BY QueueAssumption
<1>8. limit' = [limit EXCEPT ![i] = limit'[i]]
  <2>1. [limit EXCEPT ![i] = MaxAttempts[l]]
        = [j \in Item |-> IF j = i THEN MaxAttempts[l] ELSE limit[j]]
    OBVIOUS
  <2>2. \A j \in Item : limit'[j] = IF j = i THEN MaxAttempts[l] ELSE limit[j]
    BY <1>2, <1>6
  <2>3. limit' = [j \in Item |-> limit'[j]]
    OBVIOUS
  <2> QED BY <1>6, <2>1, <2>2, <2>3
<1> QED BY <1>3, <1>4, <1>5, <1>6, <1>7, <1>8 DEF Lifecycle!Enqueue, Lifecycle!Move

LEMMA LeaseRefine ==
  ASSUME AInv, NEW w, Worker = {w}, Lease(w), item' # item
  PROVE  \E i \in Item : Lifecycle!Lease(i)
<1>1. PICK i \in Oldest(w) : Leases(w, i)
  BY DEF Lease, Leases
<1>2. PICK row \in Row :
            /\ i \in Item /\ item[i].status = "queued" /\ item' = [item EXCEPT ![i] = row]
            /\ row.launch = item[i].launch /\ row.status = "leased"
            /\ row.attempts = item[i].attempts + 1
  BY <1>1, LeaseRow DEF AInv, Inv
<1>3. item'[i] = row /\ \A j \in Item \ {i} : item'[j] = item[j]
  BY <1>2 DEF AInv, Inv, TInv, TypeOK
<1>4. Lifecycle!Move(i, {"queued"}, "leased")
  BY <1>2, RowMoves DEF AInv
<1>5. [j \in Item |-> item'[j].attempts]
      = [[j \in Item |-> item[j].attempts] EXCEPT ![i] = item[i].attempts + 1]
  <2>1. [[j \in Item |-> item[j].attempts] EXCEPT ![i] = item[i].attempts + 1]
        = [j \in Item |-> IF j = i THEN item[i].attempts + 1 ELSE item[j].attempts]
    OBVIOUS
  <2>2. \A j \in Item : item'[j].attempts = IF j = i THEN item[i].attempts + 1 ELSE item[j].attempts
    BY <1>2, <1>3
  <2> QED BY <2>1, <2>2
<1>6. [j \in Item |-> IF item'[j].status = "none" THEN 0 ELSE MaxAttempts[item'[j].launch]]
      = [j \in Item |-> IF item[j].status = "none" THEN 0 ELSE MaxAttempts[item[j].launch]]
  BY <1>2, <1>3
<1>7. item[i].attempts < MaxAttempts[item[i].launch]
  <2>1. Cardinality(Worker) = 1
    BY FS_Singleton
  <2>2. /\ item[i].attempts \in Nat /\ MaxAttempts[item[i].launch] \in Nat
        /\ Cardinality(Pending(i)) \in Nat
    BY <1>2, RowNumbers, PendingCount DEF AInv, Inv
  <2> QED BY <1>2, <2>1, <2>2 DEF AInv, Within
<1> QED BY <1>2, <1>4, <1>5, <1>6, <1>7 DEF Lifecycle!Lease

LEMMA MarkRefine ==
  ASSUME AInv, NEW w \in Worker, MarkRunning(w), item' # item
  PROVE  \E i \in Item : Lifecycle!Begin(i)
<1>1. PICK i \in Item : i = job[w].item
  BY Own DEF MarkRunning, Working, Starting, AInv, Inv
<1>2. item[i].status = "leased" /\ Holds(w)
  BY <1>1 DEF MarkRunning
<1>3. PICK row \in Row :
            /\ item' = [item EXCEPT ![i] = row] /\ row.status = "running"
            /\ row.attempts = item[i].attempts /\ row.launch = item[i].launch
  BY <1>1, <1>2, MarkRow DEF MarkRunning, AInv, Inv
<1>4. Lifecycle!Move(i, {"leased"}, "running")
  BY <1>2, <1>3, RowMoves DEF AInv
<1>5. UNCHANGED <<[j \in Item |-> item[j].attempts],
                  [j \in Item |-> IF item[j].status = "none" THEN 0
                                  ELSE MaxAttempts[item[j].launch]]>>
  BY <1>2, <1>3, RowMoves DEF AInv
<1> QED BY <1>4, <1>5 DEF Lifecycle!Begin

(* A report of its run reaches a row only while it is running.              *)
LEMMA ReleaseRefine ==
  ASSUME AInv, NEW w \in Worker, Release(w), item' # item
  PROVE  \E i \in Item : Lifecycle!Report(i)
<1>1. PICK i \in Item : i = job[w].item
  BY Own DEF Release, Working, AInv, Inv
<1>2. item[i].status \in Owned /\ Holds(w) /\ pc[w] = "release"
  BY <1>1 DEF Release
<1>3. PICK row \in Row :
            /\ item' = [item EXCEPT ![i] = row]
            /\ row.status = job[w].report /\ row.status \in Ended
            /\ row.attempts = item[i].attempts /\ row.launch = item[i].launch
  BY <1>1, <1>2, ReleaseRow DEF AInv, Inv
<1>4. item[i].status \in {"leased", "running"} /\ item[i].status # "none" /\ row.status # "none"
  BY <1>2, <1>3 DEF Owned, Ended
<1>5. UNCHANGED <<[j \in Item |-> item[j].attempts],
                  [j \in Item |-> IF item[j].status = "none" THEN 0
                                  ELSE MaxAttempts[item[j].launch]]>>
  BY <1>3, <1>4, RowMoves DEF AInv
<1>6. CASE row.status = "failed"
  <2>1. Lifecycle!Move(i, {"leased", "running"}, "failed")
    BY <1>3, <1>4, <1>6, RowMoves DEF AInv
  <2> QED BY <1>5, <2>1 DEF Lifecycle!Report
<1>7. CASE row.status \in {"completed", "canceled"}
  <2>1. item[i].status = "running"
    BY <1>1, <1>2, <1>3, <1>7 DEF AInv, Alone
  <2>2. Lifecycle!Move(i, {"running"}, row.status)
    BY <1>3, <1>4, <2>1, RowMoves DEF AInv
  <2> QED BY <1>5, <1>7, <2>2 DEF Lifecycle!Report
<1> QED BY <1>3, <1>6, <1>7 DEF Ended

LEMMA AgeRefine ==
  ASSUME AInv, NEW i \in Item, item[i].status # "none", NEW a \in 0..2,
         item' = [item EXCEPT ![i].age = a]
  PROVE  UNCHANGED Lifecycle!vars
<1>1. PICK row \in Row :
            /\ item' = [item EXCEPT ![i] = row] /\ row.launch = item[i].launch
            /\ row.status = item[i].status /\ row.attempts = item[i].attempts
  BY AgeRow DEF AInv, Inv
<1>2. item'[i] = row /\ \A j \in Item \ {i} : item'[j] = item[j]
  BY <1>1 DEF AInv, Inv, TInv, TypeOK
<1> QED BY <1>1, <1>2, SameRowsRefine DEF SameRows

LEMMA NextRefines ==
  ASSUME AInv, Single, [Next]_vars
  PROVE  [Lifecycle!Next]_(Lifecycle!vars)
<1>1. PICK w : Worker = {w}
  BY DEF Single
<1>2. CASE item' = item
  BY <1>2, SameRowsRefine DEF SameRows
<1>3. CASE item' # item
  <2>1. CASE RecoverUpdate(w)
    BY <1>1, <2>1, SelectedRefine DEF Lifecycle!Next
  <2>2. CASE EnqueueDue(w)
    <3>1. job[w].launch \in Launch /\ Insert(job[w].launch)
      BY <1>1, <1>3, <2>2 DEF EnqueueDue, Skip, AInv, Inv, TInv, Placed
    <3> QED BY <3>1, InsertRefine DEF Lifecycle!Next
  <2>3. ASSUME NEW l \in Launch, EnqueueManual(l) PROVE Lifecycle!Next
    BY <2>3, InsertRefine DEF Lifecycle!Next, EnqueueManual
  <2>4. CASE Lease(w)
    BY <1>1, <1>3, <2>4, LeaseRefine DEF Lifecycle!Next
  <2>5. CASE MarkRunning(w)
    BY <1>1, <1>3, <2>5, MarkRefine DEF Lifecycle!Next
  <2>6. CASE Release(w)
    BY <1>1, <1>3, <2>6, ReleaseRefine DEF Lifecycle!Next
  <2>7. CASE Renew(w)
    <3>1. 0 \in 0..2 /\ job[w].item \in Item /\ item[job[w].item].status # "none"
      BY <1>1, <2>7, Own DEF Renew, Working, Starting, AInv, Inv
    <3>2. item' = [item EXCEPT ![job[w].item].age = 0]
      BY <1>3, <2>7 DEF Renew
    <3> QED BY <3>1, <3>2, AgeRefine
  <2>8. ASSUME NEW i \in Item, Expire(i) PROVE UNCHANGED Lifecycle!vars
    <3>1. item[i].status \in Owned /\ item[i].age < 2 /\ item[i].age \in 0..2
      BY <2>8 DEF AInv, Inv, TInv, TypeOK, Row, Expire
    <3>2. item[i].age + 1 \in 0..2 /\ item[i].status # "none"
      BY <3>1 DEF Owned
    <3>3. item' = [item EXCEPT ![i].age = item[i].age + 1]
      BY <2>8 DEF Expire, AInv, Inv, TInv, TypeOK
    <3> QED BY <3>2, <3>3, AgeRefine
  <2>9. \A i \in Item : ~CancelItem(i) /\ ~RunChanges(i)
    BY <1>3 DEF Single, CancelItem, RunChanges, AInv, Inv, TInv, TypeOK
  <2>10. ~RecoverSelect(w) /\ ~RecoverDone(w) /\ ~CountRuns(w) /\ ~CountActive(w)
    BY <1>3 DEF RecoverSelect, RecoverDone, CountRuns, CountActive, Skip
  <2>11. ~CheckLease(w) /\ ~LaunchRunbook(w) /\ ~LinkRun(w) /\ ~SnapshotRun(w)
    BY <1>3 DEF CheckLease, LaunchRunbook, LinkRun, SnapshotRun
  <2>12. ~PollEnded(w) /\ ~TimeOut(w) /\ ~LoseCall(w) /\ ~Die(w)
    BY <1>3 DEF PollEnded, TimeOut, LoseCall, Die
  <2>13. Next
    BY <1>3 DEF vars
  <2>14. CASE \E l \in Launch : EnqueueManual(l)
    BY <2>3, <2>14
  <2>15. CASE \E i \in Item : Expire(i)
    BY <2>8, <2>15
  <2>16. CASE Tick(w) \/ Start(w) \/ Finish(w) \/ Renew(w)
    BY <2>1, <2>2, <2>4, <2>5, <2>6, <2>7, <2>10, <2>11, <2>12, <2>16 DEF Tick, Start, Finish
  <2> QED BY <1>1, <2>9, <2>12, <2>13, <2>14, <2>15, <2>16 DEF Next, Scheduled
<1> QED BY <1>2, <1>3

(* One worker that nobody interferes with implements the lifecycle: every   *)
(* lease is an attempt, no attempt is made after the last, a lost lease     *)
(* goes back to the queue or fails the row, and the end is final.           *)
THEOREM OneWorkerImplementsLifecycle == Single => (Spec => ItemsFollowLifecycle)
<1> SUFFICES ASSUME Single PROVE Spec => ItemsFollowLifecycle
  OBVIOUS
<1>1. Init => Alone
  BY DEF Init, Alone
<1>2. Init => \A i \in Item : Within(i)
  BY DEF Init, Within, NoItem
<1>3. Init => AInv
  BY <1>1, <1>2, InitInv DEF AInv
<1>4. AInv /\ [Next]_vars => AInv'
  BY NextAlone
<1>5. Init => Lifecycle!Init
  BY DEF Init, Lifecycle!Init, NoItem
<1>6. AInv /\ [Next]_vars => [Lifecycle!Next]_(Lifecycle!vars)
  BY NextRefines
<1> QED BY <1>3, <1>4, <1>5, <1>6, PTL DEF Spec, ItemsFollowLifecycle, Lifecycle!Spec

-----------------------------------------------------------------------------
(* One worker and no one else who enqueues: the schedule's limits hold.     *)

(* What the counts have found is still so when the worker inserts.          *)
Counted == \A w \in Worker :
    LET l == job[w].launch IN
    /\ pc[w] \in {"parallel", "insert"} =>
          /\ l \in Launch
          /\ MaxRuns[l] = 0 \/ Cardinality(Rows(l, Active \cup Ended)) < MaxRuns[l]
    /\ pc[w] = "insert" => Cardinality(Rows(l, Active)) < MaxParallel[l]

SInv == AInv /\ Counted /\ WithinSchedule

(* No row becomes active, and none is inserted.                             *)
Calm == \A i \in Item :
    /\ item'[i].launch = item[i].launch
    /\ item'[i].status \in Active => item[i].status \in Active
    /\ item'[i].status # "none" => item[i].status # "none"

LEMMA RowsCount ==
  ASSUME NEW l, NEW S
  PROVE  IsFiniteSet(Rows(l, S)) /\ Cardinality(Rows(l, S)) \in Nat
<1>1. Rows(l, S) \in SUBSET Item /\ IsFiniteSet(Item)
  BY QueueAssumption DEF Rows
<1> QED BY <1>1, FS_Subset, FS_CardinalityType

LEMMA NewCount ==
  ASSUME NEW l, NEW S
  PROVE  Cardinality(Rows(l, S)') \in Nat
<1>1. Rows(l, S)' \in SUBSET Item /\ IsFiniteSet(Item)
  BY QueueAssumption DEF Rows
<1> QED BY <1>1, FS_Subset, FS_CardinalityType

LEMMA CalmCounts ==
  ASSUME TypeOK, TypeOK', Calm, NEW l \in Launch
  PROVE  /\ Cardinality(Rows(l, Active)') <= Cardinality(Rows(l, Active))
         /\ Cardinality(Rows(l, Active \cup Ended)') <= Cardinality(Rows(l, Active \cup Ended))
<1>1. Rows(l, Active)' \in SUBSET Rows(l, Active)
  BY DEF Rows, Calm
<1>2. Rows(l, Active \cup Ended)' \in SUBSET Rows(l, Active \cup Ended)
  <2>1. \A i \in Item : item[i].status \in {"none"} \cup Active \cup Ended
    BY DEF TypeOK, Row
  <2>2. "none" \notin Active \cup Ended
    BY DEF Active, Owned, Ended
  <2> QED BY <2>1, <2>2 DEF Rows, Calm
<1> QED BY <1>1, <1>2, RowsCount, FS_Subset

LEMMA InsertCounts ==
  ASSUME AInv, NEW l \in Launch, Insert(l), NEW k \in Launch, NEW S, "none" \notin S, "queued" \in S
  PROVE  Cardinality(Rows(k, S)') = Cardinality(Rows(k, S)) + (IF k = l THEN 1 ELSE 0)
<1>1. PICK i \in Item, row \in Row :
            /\ item[i] = NoItem /\ item' = [item EXCEPT ![i] = row]
            /\ row.launch = l /\ row.status = "queued"
  BY InsertRow DEF AInv, Inv
<1>2. item'[i] = row /\ \A j \in Item \ {i} : item'[j] = item[j]
  BY <1>1 DEF AInv, Inv, TInv, TypeOK
<1>3. i \notin Rows(k, S)
  BY <1>1 DEF Rows, NoItem
<1>4. CASE k = l
  <2>1. Rows(k, S)' = Rows(k, S) \cup {i}
    BY <1>1, <1>2, <1>4 DEF Rows
  <2> QED BY <1>3, <1>4, <2>1, RowsCount, FS_AddElement
<1>5. CASE k # l
  <2>1. Rows(k, S)' = Rows(k, S)
    BY <1>1, <1>2, <1>3, <1>5 DEF Rows
  <2> QED BY <1>5, <2>1, RowsCount
<1> QED BY <1>4, <1>5

(* One row changes, to a status that is active only if it was.              *)
LEMMA RowCalm ==
  ASSUME TypeOK, NEW i \in Item, NEW row \in Row, item' = [item EXCEPT ![i] = row],
         item[i].status # "none", row.launch = item[i].launch,
         row.status \in Active => item[i].status \in Active
  PROVE  Calm
  BY DEF Calm, TypeOK

LEMMA AgeCalm ==
  ASSUME AInv, NEW i \in Item, item[i].status # "none", NEW a \in 0..2,
         item' = [item EXCEPT ![i].age = a]
  PROVE  Calm
<1>1. PICK row \in Row : item' = [item EXCEPT ![i] = row] /\ row.launch = item[i].launch
                         /\ row.status = item[i].status
  BY AgeRow DEF AInv, Inv
<1> QED BY <1>1, RowCalm DEF AInv, Inv, TInv

(* Only the schedule's own insert makes a row active.                       *)
LEMMA StepCalm ==
  ASSUME AInv, Single, NEW w, Worker = {w}, [Scheduled]_vars
  PROVE  Calm \/ (EnqueueDue(w) /\ Insert(job[w].launch))
<1>1. CASE item' = item
  BY <1>1 DEF Calm
<1>2. CASE item' # item
  <2>1. CASE RecoverUpdate(w)
    <3>1. PICK x \in expired[w] : item' = [item EXCEPT ![x.id] = Unlease(item[x.id], x.status)]
      BY <2>1 DEF RecoverUpdate
    <3>2. /\ x.id \in Item /\ x.status \in {"queued"} \cup Ended /\ item[x.id] \in Row
          /\ item[x.id].status \in Active /\ item[x.id].status # "none"
      BY DEF AInv, Inv, TInv, TypeOK, Alone, Ended, Owned, Active
    <3>3. PICK i \in Item : i = x.id
      BY <3>2
    <3>4. PICK row \in Row : item' = [item EXCEPT ![i] = row] /\ row.launch = item[i].launch
      BY <3>1, <3>2, <3>3, UnleaseRow
    <3> QED BY <3>2, <3>3, <3>4, RowCalm DEF AInv, Inv, TInv
  <2>2. CASE EnqueueDue(w)
    BY <1>2, <2>2 DEF EnqueueDue, Skip
  <2>3. CASE Lease(w)
    <3>1. PICK i \in Oldest(w) : Leases(w, i)
      BY <1>2, <2>3 DEF Lease, Leases
    <3>2. PICK row \in Row :
              /\ i \in Item /\ item[i].status = "queued" /\ item' = [item EXCEPT ![i] = row]
              /\ row.launch = item[i].launch
      BY <3>1, LeaseRow DEF AInv, Inv
    <3>3. item[i].status # "none" /\ item[i].status \in Active
      BY <3>2 DEF Active
    <3> QED BY <3>2, <3>3, RowCalm DEF AInv, Inv, TInv
  <2>4. CASE MarkRunning(w)
    <3>1. PICK i \in Item : i = job[w].item
      BY <2>4, Own DEF MarkRunning, Working, Starting, AInv, Inv
    <3>2. item[i].status = "leased" /\ Holds(w)
      BY <1>2, <2>4, <3>1 DEF MarkRunning
    <3>3. PICK row \in Row : item' = [item EXCEPT ![i] = row] /\ row.launch = item[i].launch
      BY <2>4, <3>1, <3>2, MarkRow DEF MarkRunning, AInv, Inv
    <3>4. item[i].status # "none" /\ item[i].status \in Active
      BY <3>2 DEF Active, Owned
    <3> QED BY <3>3, <3>4, RowCalm DEF AInv, Inv, TInv
  <2>5. CASE Release(w)
    <3>1. PICK i \in Item : i = job[w].item
      BY <2>5, Own DEF Release, Working, AInv, Inv
    <3>2. item[i].status \in Owned /\ Holds(w)
      BY <1>2, <2>5, <3>1 DEF Release
    <3>3. PICK row \in Row : item' = [item EXCEPT ![i] = row] /\ row.launch = item[i].launch
      BY <2>5, <3>1, <3>2, ReleaseRow DEF AInv, Inv
    <3>4. item[i].status # "none" /\ item[i].status \in Active
      BY <3>2 DEF Active, Owned
    <3> QED BY <3>3, <3>4, RowCalm DEF AInv, Inv, TInv
  <2>6. CASE Renew(w)
    <3>1. 0 \in 0..2 /\ job[w].item \in Item /\ item[job[w].item].status # "none"
      BY <2>6, Own DEF Renew, Working, Starting, AInv, Inv
    <3>2. item' = [item EXCEPT ![job[w].item].age = 0]
      BY <1>2, <2>6 DEF Renew
    <3> QED BY <3>1, <3>2, AgeCalm
  <2>7. ASSUME NEW i \in Item, Expire(i) PROVE Calm
    <3>1. item[i].status \in Owned /\ item[i].age < 2 /\ item[i].age \in 0..2
      BY <2>7 DEF AInv, Inv, TInv, TypeOK, Row, Expire
    <3>2. item[i].age + 1 \in 0..2 /\ item[i].status # "none"
      BY <3>1 DEF Owned
    <3>3. item' = [item EXCEPT ![i].age = item[i].age + 1]
      BY <2>7 DEF Expire, AInv, Inv, TInv, TypeOK
    <3> QED BY <3>2, <3>3, AgeCalm
  <2>8. \A i \in Item : ~CancelItem(i) /\ ~RunChanges(i)
    BY <1>2 DEF Single, CancelItem, RunChanges, AInv, Inv, TInv, TypeOK
  <2>9. ~RecoverSelect(w) /\ ~RecoverDone(w) /\ ~CountRuns(w) /\ ~CountActive(w)
    BY <1>2 DEF RecoverSelect, RecoverDone, CountRuns, CountActive, Skip
  <2>10. ~CheckLease(w) /\ ~LaunchRunbook(w) /\ ~LinkRun(w) /\ ~SnapshotRun(w)
    BY <1>2 DEF CheckLease, LaunchRunbook, LinkRun, SnapshotRun
  <2>11. ~PollEnded(w) /\ ~TimeOut(w) /\ ~LoseCall(w) /\ ~Die(w)
    BY <1>2 DEF PollEnded, TimeOut, LoseCall, Die
  <2>12. CASE \E i \in Item : Expire(i)
    BY <2>7, <2>12
  <2>13. CASE Tick(w) \/ Start(w) \/ Finish(w) \/ Renew(w)
    BY <2>1, <2>2, <2>3, <2>4, <2>5, <2>6, <2>9, <2>10, <2>11, <2>13 DEF Tick, Start, Finish
  <2>14. Scheduled
    BY <1>2 DEF vars
  <2> QED BY <2>8, <2>11, <2>12, <2>13, <2>14 DEF Scheduled
<1> QED BY <1>1, <1>2

(* A worker comes to its insert by the two counts only.                     *)
LEMMA ToInsert ==
  ASSUME TypeOK, NEW w, Worker = {w}, [Scheduled]_vars, pc'[w] \in {"parallel", "insert"}
  PROVE  \/ CountRuns(w) /\ pc'[w] = "parallel"
         \/ CountActive(w) /\ pc'[w] = "insert"
         \/ pc'[w] = pc[w] /\ job'[w] = job[w]
<1>1. CASE Tick(w)
  BY <1>1 DEF Tick, RecoverSelect, RecoverUpdate, RecoverDone, CountRuns, CountActive, EnqueueDue,
              Skip, Lease, Return, TypeOK
<1>2. CASE Start(w)
  BY <1>2 DEF Start, CheckLease, LaunchRunbook, LinkRun, SnapshotRun, MarkRunning, GiveUp, TypeOK
<1>3. CASE Finish(w) \/ Renew(w) \/ LoseCall(w) \/ Die(w)
  BY <1>3 DEF Finish, PollEnded, TimeOut, Release, Renew, LoseCall, Die, GiveUp, Return, TypeOK
<1>4. CASE (\E i \in Item : Expire(i) \/ RunChanges(i) \/ CancelItem(i)) \/ UNCHANGED vars
  BY <1>4 DEF Expire, RunChanges, CancelItem, vars
<1> QED BY <1>1, <1>2, <1>3, <1>4 DEF Scheduled

LEMMA NextSInv ==
  ASSUME SInv, Single, [Scheduled]_vars
  PROVE  SInv'
<1>0. AInv' /\ TypeOK /\ TypeOK'
  <2>1. [Next]_vars
    BY DEF Next
  <2> QED BY <2>1, NextAlone DEF SInv, AInv, Inv, TInv
<1>1. PICK w : Worker = {w}
  BY DEF Single
<1>l. PICK l : l = job[w].launch
  OBVIOUS
<1>2. CASE Calm
  <2>1. WithinSchedule'
    <3> SUFFICES ASSUME NEW k \in Launch
                 PROVE  /\ Cardinality(Rows(k, Active)') <= MaxParallel[k]
                        /\ MaxRuns[k] > 0 =>
                              Cardinality(Rows(k, Active \cup Ended)') <= MaxRuns[k]
      BY DEF WithinSchedule
    <3>2. /\ Cardinality(Rows(k, Active)') \in Nat
          /\ Cardinality(Rows(k, Active \cup Ended)') \in Nat
      BY NewCount
    <3>3. MaxParallel[k] \in Nat /\ MaxRuns[k] \in Nat
      BY QueueAssumption
    <3>4. /\ Cardinality(Rows(k, Active)') <= Cardinality(Rows(k, Active))
          /\ Cardinality(Rows(k, Active \cup Ended)') <= Cardinality(Rows(k, Active \cup Ended))
      BY <1>0, <1>2, CalmCounts
    <3>5. /\ Cardinality(Rows(k, Active)) <= MaxParallel[k]
          /\ MaxRuns[k] > 0 => Cardinality(Rows(k, Active \cup Ended)) <= MaxRuns[k]
      BY DEF SInv, WithinSchedule
    <3> QED BY <3>2, <3>3, <3>4, <3>5, RowsCount
  <2>2. CASE pc'[w] \notin {"parallel", "insert"}
    BY <1>0, <1>1, <2>1, <2>2 DEF SInv, Counted
  <2>3. CASE pc'[w] \in {"parallel", "insert"}
    <3>k. PICK k : k = job'[w].launch
      OBVIOUS
    <3>1. CASE CountRuns(w) /\ pc'[w] = "parallel"
      <4>1. PICK m \in due[w] :
                /\ MaxRuns[m] = 0 \/ Cardinality(Rows(m, Active \cup Ended)) < MaxRuns[m]
                /\ job' = [job EXCEPT ![w].launch = m] /\ item' = item
        BY <1>0, <1>1, <3>1 DEF CountRuns, Skip, TypeOK
      <4>2. job[w] \in Job /\ due[w] \in SUBSET Launch
        BY <1>0, <1>1 DEF TypeOK
      <4>3. job'[w].launch = m
        BY <1>0, <1>1, <4>1, <4>2 DEF TypeOK, Job
      <4>4. Rows(m, Active \cup Ended)' = Rows(m, Active \cup Ended)
        BY <4>1 DEF Rows
      <4>5. /\ k \in Launch
            /\ MaxRuns[k] = 0 \/ Cardinality(Rows(k, Active \cup Ended)') < MaxRuns[k]
        BY <3>k, <4>1, <4>2, <4>3, <4>4
      <4> QED BY <1>0, <1>1, <2>1, <3>1, <3>k, <4>5 DEF SInv, Counted
    <3>2. CASE CountActive(w) /\ pc'[w] = "insert"
      <4>1. pc[w] = "parallel" /\ job' = job /\ item' = item
            /\ ~(Cardinality(Rows(l, Active)) >= MaxParallel[l])
        BY <1>0, <1>1, <1>l, <3>2 DEF CountActive, Skip, TypeOK
      <4>2. /\ Rows(l, Active \cup Ended)' = Rows(l, Active \cup Ended)
            /\ Rows(l, Active)' = Rows(l, Active)
        BY <4>1 DEF Rows
      <4>3. /\ l \in Launch
            /\ MaxRuns[l] = 0 \/ Cardinality(Rows(l, Active \cup Ended)) < MaxRuns[l]
        BY <1>1, <1>l, <4>1 DEF SInv, Counted
      <4>4. MaxParallel[l] \in Nat /\ Cardinality(Rows(l, Active)) \in Nat
        BY <4>3, QueueAssumption, RowsCount
      <4>5. Cardinality(Rows(l, Active)) < MaxParallel[l]
        BY <4>1, <4>4
      <4> QED BY <1>0, <1>1, <1>l, <2>1, <4>1, <4>2, <4>3, <4>5 DEF SInv, Counted
    <3>3. CASE pc'[w] = pc[w] /\ job'[w] = job[w]
      <4>1. /\ l \in Launch
            /\ MaxRuns[l] = 0 \/ Cardinality(Rows(l, Active \cup Ended)) < MaxRuns[l]
            /\ pc[w] = "insert" => Cardinality(Rows(l, Active)) < MaxParallel[l]
        BY <1>1, <1>l, <2>3, <3>3 DEF SInv, Counted
      <4>2. /\ Cardinality(Rows(l, Active)') <= Cardinality(Rows(l, Active))
            /\ Cardinality(Rows(l, Active \cup Ended)') <= Cardinality(Rows(l, Active \cup Ended))
        BY <1>0, <1>2, <4>1, CalmCounts
      <4>3. /\ Cardinality(Rows(l, Active)') \in Nat
            /\ Cardinality(Rows(l, Active \cup Ended)') \in Nat
        BY NewCount
      <4>4. /\ MaxRuns[l] = 0 \/ Cardinality(Rows(l, Active \cup Ended)') < MaxRuns[l]
            /\ pc[w] = "insert" => Cardinality(Rows(l, Active)') < MaxParallel[l]
        BY <4>1, <4>2, <4>3, RowsCount, QueueAssumption
      <4> QED BY <1>0, <1>1, <1>l, <2>1, <3>3, <4>1, <4>4 DEF SInv, Counted
    <3> QED BY <1>0, <1>1, <2>3, <3>1, <3>2, <3>3, ToInsert
  <2> QED BY <2>2, <2>3
<1>3. CASE EnqueueDue(w) /\ Insert(l)
  <2>1. pc[w] = "insert" /\ pc'[w] = "schedule"
    BY <1>0, <1>1, <1>3 DEF EnqueueDue, Skip, TypeOK
  <2>2. /\ l \in Launch
        /\ MaxRuns[l] = 0 \/ Cardinality(Rows(l, Active \cup Ended)) < MaxRuns[l]
        /\ Cardinality(Rows(l, Active)) < MaxParallel[l]
    BY <1>1, <1>l, <2>1 DEF SInv, Counted
  <2>3. WithinSchedule'
    <3> SUFFICES ASSUME NEW k \in Launch
                 PROVE  /\ Cardinality(Rows(k, Active)') <= MaxParallel[k]
                        /\ MaxRuns[k] > 0 =>
                              Cardinality(Rows(k, Active \cup Ended)') <= MaxRuns[k]
      BY DEF WithinSchedule
    <3>1. "none" \notin Active /\ "none" \notin Active \cup Ended /\ "queued" \in Active
      BY DEF Active, Owned, Ended
    <3>2. /\ Cardinality(Rows(k, Active)') = Cardinality(Rows(k, Active)) + (IF k = l THEN 1 ELSE 0)
          /\ Cardinality(Rows(k, Active \cup Ended)')
             = Cardinality(Rows(k, Active \cup Ended)) + (IF k = l THEN 1 ELSE 0)
      BY <1>3, <2>2, <3>1, InsertCounts DEF SInv
    <3>3. MaxParallel[k] \in Nat /\ MaxRuns[k] \in Nat
      BY QueueAssumption
    <3>4. /\ Cardinality(Rows(k, Active)) <= MaxParallel[k]
          /\ MaxRuns[k] > 0 => Cardinality(Rows(k, Active \cup Ended)) <= MaxRuns[k]
      BY DEF SInv, WithinSchedule
    <3>5. /\ Cardinality(Rows(k, Active)) \in Nat
          /\ Cardinality(Rows(k, Active \cup Ended)) \in Nat
      BY RowsCount
    <3>6. CASE k = l
      BY <2>2, <3>2, <3>3, <3>5, <3>6
    <3>7. CASE k # l
      BY <3>2, <3>3, <3>4, <3>5, <3>7
    <3> QED BY <3>6, <3>7
  <2> QED BY <1>0, <1>1, <2>1, <2>3 DEF SInv, Counted
<1> QED BY <1>1, <1>l, <1>2, <1>3, StepCalm DEF SInv

\* EnqueueDueScheduledLaunchpad keeps the limits of a launch's schedule, for any policies,
\* although it counts in two statements and inserts in a third, and although recovery puts
\* rows back in between: with one worker, nobody but the schedule that enqueues and nobody
\* who cancels.
THEOREM ScheduleIsKept == Single => (SerialSpec => []WithinSchedule)
<1> SUFFICES ASSUME Single PROVE SerialSpec => []WithinSchedule
  OBVIOUS
<1>1. Init => SInv
  <2> SUFFICES ASSUME Init PROVE SInv
    OBVIOUS
  <2>1. AInv
    <3>1. Alone /\ \A i \in Item : Within(i)
      BY DEF Init, Alone, Within, NoItem
    <3> QED BY <3>1, InitInv DEF AInv
  <2>2. Counted
    BY DEF Init, Counted
  <2>3. \A l \in Launch, S \in SUBSET (Active \cup Ended) : Rows(l, S) = {}
    BY QueueAssumption DEF Init, Rows, NoItem
  <2>4. WithinSchedule
    <3>1. \A l \in Launch : Rows(l, Active) = {} /\ Rows(l, Active \cup Ended) = {}
      BY <2>3
    <3>2. Cardinality({}) = 0
      BY FS_EmptySet
    <3>3. \A l \in Launch : MaxParallel[l] \in Nat /\ MaxRuns[l] \in Nat
      BY QueueAssumption
    <3>4. \A l \in Launch : /\ Cardinality(Rows(l, Active)) = 0
                            /\ Cardinality(Rows(l, Active \cup Ended)) = 0
      BY <3>1, <3>2, Zenon
    <3> QED BY <3>3, <3>4 DEF WithinSchedule
  <2> QED BY <2>1, <2>2, <2>4 DEF SInv
<1>2. SInv /\ [Scheduled]_vars => SInv'
  BY NextSInv
<1>3. SInv => WithinSchedule
  BY DEF SInv
<1> QED BY <1>1, <1>2, <1>3, PTL DEF SerialSpec
=============================================================================
