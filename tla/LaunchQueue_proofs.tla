------------------------- MODULE LaunchQueue_proofs -------------------------
(***************************************************************************)
(* Theorems about LaunchQueue, for any number of workers, launches and     *)
(* rows, and any policy, faults and cancels.                               *)
(***************************************************************************)
EXTENDS LaunchQueue, TLAPS

(* Where workers stand: what TypeOK needs to be inductive.                  *)
Starting == {"link", "snapshot", "mark", "wait"}
Working == {"check", "launch", "release"} \cup Starting

Placed ==
    /\ \A w \in Worker :
          /\ pc[w] \in {"parallel", "insert"} => job[w].launch \in Launch
          /\ pc[w] \in Working => job[w].item \in Item /\ item[job[w].item].status # "none"
          /\ pc[w] \in Starting => job[w].run \in DOMAIN runs[job[w].item]
          /\ \A x \in expired[w] : item[x.id].status # "none"
    /\ \A i \in Item : IF item[i].status = "none" THEN item[i] = NoItem
                                                  ELSE item[i].launch \in Launch

TInv == TypeOK /\ Placed


LEMMA Blank == NoItem \in Row /\ NoJob \in Job /\ NoItem.status = "none"
  BY QueueAssumption DEF NoItem, NoJob, Row, Job, Ended

LEMMA InitTInv == Init => TInv
<1> SUFFICES ASSUME Init PROVE TInv
  OBVIOUS
<1>1. TypeOK
  BY Blank, QueueAssumption DEF Init, TypeOK, Job, PCs, NoItem, Owned
<1>2. Placed
  BY Blank DEF Init, Placed, Working, Starting
<1> QED BY <1>1, <1>2 DEF TInv

(* A step of one worker that touches neither rows nor runs.                 *)
Others(w) == \A v \in Worker \ {w} :
    pc'[v] = pc[v] /\ job'[v] = job[v] /\ expired'[v] = expired[v]

LEMMA QuietTInv ==
  ASSUME TInv, NEW w \in Worker, Others(w), UNCHANGED <<item, runs, second>>,
         pc' \in [Worker -> PCs], job' \in [Worker -> Job],
         expired' \in [Worker -> SUBSET [id : Item, status : {"queued", "failed"}]],
         due' \in [Worker -> SUBSET Launch], faults' \in Nat, cancels' \in Nat,
         \A y \in expired'[w] : item[y.id].status # "none",
         pc'[w] \in {"parallel", "insert"} => job'[w].launch \in Launch,
         pc'[w] \in Working => job'[w].item \in Item /\ item[job'[w].item].status # "none",
         pc'[w] \in Starting => job'[w].run \in DOMAIN runs[job'[w].item]
  PROVE  TInv'
<1>1. TypeOK'
  BY DEF TInv, TypeOK
<1>2. Placed'
  BY DEF TInv, TypeOK, Placed, Others
<1> QED BY <1>1, <1>2 DEF TInv

LEMMA ReturnTInv ==
  ASSUME TInv, NEW w \in Worker, Return(w), UNCHANGED <<item, runs, second>>,
         faults' \in Nat, cancels' \in Nat
  PROVE  TInv'
<1>1. /\ pc' \in [Worker -> PCs] /\ job' \in [Worker -> Job]
      /\ expired' \in [Worker -> SUBSET [id : Item, status : {"queued", "failed"}]]
      /\ due' \in [Worker -> SUBSET Launch]
  BY Blank DEF TInv, TypeOK, Return, PCs
<1>2. Others(w) /\ pc'[w] = "recover" /\ expired'[w] = {}
  BY DEF TInv, TypeOK, Return, Others
<1>3. pc'[w] \notin Working \cup {"parallel", "insert"} /\ Starting \subseteq Working
  BY <1>2 DEF Working, Starting
<1> QED BY <1>1, <1>2, <1>3, QuietTInv

LEMMA RecoverSelectTInv == ASSUME TInv, NEW w \in Worker, RecoverSelect(w) PROVE TInv'
<1> DEFINE late == {j \in Item : item[j].status \in Owned /\ item[j].age = 2}
           x == {[id |-> i, status |-> IF item[i].attempts >= MaxAttempts[item[i].launch]
                                       THEN "failed" ELSE "queued"] : i \in late}
<1>1. x \in SUBSET [id : Item, status : {"queued", "failed"}]
  OBVIOUS
<1>2. \A y \in x : item[y.id].status # "none"
  BY DEF Owned
<1>3. /\ expired' = [expired EXCEPT ![w] = x] /\ pc' = [pc EXCEPT ![w] = "recovering"]
      /\ UNCHANGED <<item, runs, second, due, job, faults, cancels>>
  BY DEF RecoverSelect
<1> HIDE DEF x
<1>4. /\ pc' \in [Worker -> PCs] /\ expired'[w] = x
      /\ expired' \in [Worker -> SUBSET [id : Item, status : {"queued", "failed"}]]
  BY <1>1, <1>3 DEF TInv, TypeOK, PCs
<1>5. Others(w) /\ pc'[w] \notin Working \cup {"parallel", "insert"} /\ Starting \subseteq Working
  BY <1>3 DEF TInv, TypeOK, Others, Working, Starting
<1> QED BY <1>2, <1>3, <1>4, <1>5, QuietTInv DEF TInv, TypeOK

LEMMA RowField ==
  ASSUME NEW row \in Row
  PROVE  /\ \A s \in {"none"} \cup Active \cup Ended : [row EXCEPT !.status = s] \in Row
         /\ \A w \in Worker \cup {NoWorker} : [row EXCEPT !.lease = w] \in Row
         /\ \A a \in 0..2 : [row EXCEPT !.age = a] \in Row
         /\ \A n \in Nat : /\ [row EXCEPT !.attempts = n] \in Row
                           /\ [row EXCEPT !.run = n] \in Row
                           /\ [row EXCEPT !.second = n] \in Row
         /\ \A l \in Launch : [row EXCEPT !.launch = l] \in Row
  BY DEF Row

LEMMA UnleaseRow ==
  ASSUME NEW row \in Row, NEW s \in {"queued"} \cup Ended
  PROVE  /\ Unlease(row, s) \in Row
         /\ Unlease(row, s).status = s /\ Unlease(row, s).lease = NoWorker
         /\ Unlease(row, s).launch = row.launch /\ Unlease(row, s).attempts = row.attempts
         /\ Unlease(row, s).run = row.run
<1> DEFINE a == [row EXCEPT !.status = s]
           b == [a EXCEPT !.lease = NoWorker]
<1>1. a \in Row
  BY RowField DEF Active
<1>2. b \in Row
  <2> HIDE DEF a
  <2> QED BY <1>1, RowField
<1>3. [b EXCEPT !.age = 0] \in Row
  <2> HIDE DEF b
  <2>1. 0 \in 0..2
    OBVIOUS
  <2> QED BY <1>2, <2>1, RowField
<1>4. Unlease(row, s) \in Row
  BY <1>3 DEF Unlease
<1> QED BY <1>4 DEF Row, Unlease

LEMMA RecoverUpdateTInv == ASSUME TInv, NEW w \in Worker, RecoverUpdate(w) PROVE TInv'
<1>1. PICK x \in expired[w] :
         /\ item' = [item EXCEPT ![x.id] = Unlease(item[x.id], x.status)]
         /\ expired' = [expired EXCEPT ![w] = @ \ {x}]
  BY DEF RecoverUpdate
<1>2. x.id \in Item /\ x.status \in {"queued", "failed"} /\ item[x.id].status # "none"
  BY DEF TInv, TypeOK, Placed
<1>3. Unlease(item[x.id], x.status) \in Row
  BY <1>2, UnleaseRow DEF TInv, TypeOK, Ended
<1>4. TypeOK'
  BY <1>1, <1>2, <1>3 DEF TInv, TypeOK, RecoverUpdate, Unlease, Owned
<1>5. Placed'
  BY <1>1, <1>2 DEF TInv, TypeOK, Placed, RecoverUpdate, Unlease, Row
<1> QED BY <1>4, <1>5 DEF TInv

LEMMA RecoverDoneTInv == ASSUME TInv, NEW w \in Worker, RecoverDone(w) PROVE TInv'
<1>1. /\ pc' \in [Worker -> PCs] /\ due' \in [Worker -> SUBSET Launch]
      /\ Others(w) /\ pc'[w] = "schedule" /\ expired'[w] = expired[w]
      /\ UNCHANGED <<item, runs, second, expired, job, faults, cancels>>
  BY DEF TInv, TypeOK, RecoverDone, PCs, Others
<1>2. pc'[w] \notin Working \cup {"parallel", "insert"} /\ Starting \subseteq Working
  BY <1>1 DEF Working, Starting
<1>3. \A y \in expired'[w] : item[y.id].status # "none"
  BY <1>1 DEF TInv, Placed
<1> QED BY <1>1, <1>2, <1>3, QuietTInv DEF TInv, TypeOK

LEMMA SkipTInv == ASSUME TInv, NEW w \in Worker, NEW l \in Launch, Skip(w, l) PROVE TInv'
<1>1. /\ pc' \in [Worker -> PCs] /\ due' \in [Worker -> SUBSET Launch]
      /\ job' \in [Worker -> Job]
      /\ Others(w) /\ pc'[w] = "schedule" /\ expired'[w] = expired[w]
      /\ UNCHANGED <<item, runs, second, expired, faults, cancels>>
  BY Blank DEF TInv, TypeOK, Skip, PCs, Others
<1>2. pc'[w] \notin Working \cup {"parallel", "insert"} /\ Starting \subseteq Working
  BY <1>1 DEF Working, Starting
<1>3. \A y \in expired'[w] : item[y.id].status # "none"
  BY <1>1 DEF TInv, Placed
<1> QED BY <1>1, <1>2, <1>3, QuietTInv DEF TInv, TypeOK

LEMMA CountRunsTInv == ASSUME TInv, NEW w \in Worker, CountRuns(w) PROVE TInv'
<1>1. PICK l \in due[w] :
        \/ Skip(w, l)
        \/ /\ job' = [job EXCEPT ![w].launch = l]
           /\ pc' = [pc EXCEPT ![w] = "parallel"]
           /\ UNCHANGED <<item, runs, second, expired, due, faults, cancels>>
  BY DEF CountRuns
<1>2. l \in Launch
  BY DEF TInv, TypeOK
<1>3. CASE Skip(w, l)
  BY <1>2, <1>3, SkipTInv
<1>4. CASE /\ job' = [job EXCEPT ![w].launch = l]
           /\ pc' = [pc EXCEPT ![w] = "parallel"]
           /\ UNCHANGED <<item, runs, second, expired, due, faults, cancels>>
  <2>1. [job[w] EXCEPT !.launch = l] \in Job /\ [job[w] EXCEPT !.launch = l].launch = l
    BY <1>2 DEF TInv, TypeOK, Job
  <2>2. /\ pc' \in [Worker -> PCs] /\ job' \in [Worker -> Job] /\ job'[w].launch \in Launch
        /\ Others(w) /\ pc'[w] = "parallel" /\ expired'[w] = expired[w]
    BY <1>2, <1>4, <2>1 DEF TInv, TypeOK, PCs, Others
  <2>3. pc'[w] \notin Working /\ Starting \subseteq Working
    BY <2>2 DEF Working, Starting
  <2>4. \A y \in expired'[w] : item[y.id].status # "none"
    BY <2>2 DEF TInv, Placed
  <2> QED BY <1>4, <2>2, <2>3, <2>4, QuietTInv DEF TInv, TypeOK
<1> QED BY <1>1, <1>3, <1>4

LEMMA CountActiveTInv == ASSUME TInv, NEW w \in Worker, CountActive(w) PROVE TInv'
<1>1. job[w].launch \in Launch /\ pc[w] = "parallel"
  BY DEF TInv, Placed, CountActive
<1>2. CASE Skip(w, job[w].launch)
  BY <1>1, <1>2, SkipTInv
<1>3. CASE /\ pc' = [pc EXCEPT ![w] = "insert"]
           /\ UNCHANGED <<item, runs, second, expired, due, job, faults, cancels>>
  <2>1. /\ pc' \in [Worker -> PCs] /\ job'[w].launch \in Launch
        /\ Others(w) /\ pc'[w] = "insert" /\ expired'[w] = expired[w]
    BY <1>1, <1>3 DEF TInv, TypeOK, PCs, Others
  <2>2. pc'[w] \notin Working /\ Starting \subseteq Working
    BY <2>1 DEF Working, Starting
  <2>3. \A y \in expired'[w] : item[y.id].status # "none"
    BY <2>1 DEF TInv, Placed
  <2> QED BY <1>3, <2>1, <2>2, <2>3, QuietTInv DEF TInv, TypeOK
<1> QED BY <1>2, <1>3 DEF CountActive

(* A step that writes one row and leaves the runs and the workers alone.    *)
LEMMA WriteTInv ==
  ASSUME TInv, NEW i \in Item, NEW row \in Row, item' = [item EXCEPT ![i] = row],
         row.status # "none", row.launch \in Launch,
         row.status \in Owned <=> row.lease # NoWorker,
         second' \in Nat, faults' \in Nat, cancels' \in Nat,
         UNCHANGED <<runs, pc, expired, due, job>>
  PROVE  TInv'
<1>1. TypeOK'
  BY DEF TInv, TypeOK
<1>2. Placed'
  BY DEF TInv, TypeOK, Placed
<1> QED BY <1>1, <1>2 DEF TInv

LEMMA InsertRow ==
  ASSUME TInv, NEW l \in Launch, Insert(l)
  PROVE  \E i \in Item : \E row \in Row :
            /\ item[i] = NoItem /\ item' = [item EXCEPT ![i] = row] /\ second' \in Nat
            /\ row.launch = l /\ row.status = "queued" /\ row.attempts = 0
            /\ row.lease = NoWorker
<1>1. PICK i \in Item, s \in {second, second + 1} :
        /\ item[i].status = "none" /\ second' = s
        /\ item' = [item EXCEPT ![i] = [NoItem EXCEPT !.launch = l, !.status = "queued",
                                                      !.second = s]]
  BY DEF Insert
<1> DEFINE a == [NoItem EXCEPT !.launch = l]
           b == [a EXCEPT !.status = "queued"]
           c == [b EXCEPT !.second = s]
<1>2. s \in Nat
  BY DEF TInv, TypeOK
<1>3. a \in Row
  BY Blank, RowField
<1>4. b \in Row
  <2> HIDE DEF a
  <2> QED BY <1>3, RowField DEF Active
<1>5. c \in Row
  <2> HIDE DEF b
  <2> QED BY <1>2, <1>4, RowField
<1>6. /\ c.launch = l /\ c.status = "queued" /\ c.attempts = 0 /\ c.lease = NoWorker
  BY DEF NoItem
<1>7. item[i] = NoItem /\ second' \in Nat /\ item' = [item EXCEPT ![i] = c]
  BY <1>1, <1>2 DEF TInv, Placed
<1> HIDE DEF c
<1> QED BY <1>5, <1>6, <1>7

LEMMA InsertTInv ==
  ASSUME TInv, NEW l \in Launch, Insert(l), faults' \in Nat, cancels' \in Nat,
         UNCHANGED <<runs, pc, expired, due, job>>
  PROVE  TInv'
  BY InsertRow, WriteTInv DEF Owned

(* A step of one worker that writes a row.                                  *)
LEMMA WorkTInv ==
  ASSUME TInv, NEW w \in Worker, Others(w), NEW i \in Item, NEW row \in Row,
         item' = [item EXCEPT ![i] = row], row.status # "none", row.launch \in Launch,
         row.status \in Owned <=> row.lease # NoWorker, second' \in Nat,
         pc' \in [Worker -> PCs], job' \in [Worker -> Job], due' \in [Worker -> SUBSET Launch],
         expired' \in [Worker -> SUBSET [id : Item, status : {"queued", "failed"}]],
         expired'[w] \subseteq expired[w], UNCHANGED <<runs, faults, cancels>>,
         pc'[w] \notin {"parallel", "insert"},
         pc'[w] \in Working => job'[w].item \in Item /\ item'[job'[w].item].status # "none",
         pc'[w] \in Starting => job'[w].run \in DOMAIN runs[job'[w].item]
  PROVE  TInv'
<1>1. TypeOK'
  BY DEF TInv, TypeOK
<1>2. \A j \in Item : item[j].status # "none" => item'[j].status # "none"
  BY DEF TInv, TypeOK
<1>3. Placed'
  <2>1. ASSUME NEW v \in Worker
        PROVE  /\ pc'[v] \in {"parallel", "insert"} => job'[v].launch \in Launch
               /\ pc'[v] \in Working => job'[v].item \in Item
                                        /\ item'[job'[v].item].status # "none"
               /\ pc'[v] \in Starting => job'[v].run \in DOMAIN runs'[job'[v].item]
               /\ \A x \in expired'[v] : item'[x.id].status # "none"
    BY <1>2 DEF TInv, TypeOK, Placed, Others
  <2>2. ASSUME NEW j \in Item
        PROVE  IF item'[j].status = "none" THEN item'[j] = NoItem ELSE item'[j].launch \in Launch
    BY DEF TInv, TypeOK, Placed
  <2> QED BY <2>1, <2>2 DEF Placed
<1> QED BY <1>1, <1>3 DEF TInv

LEMMA EnqueueDueTInv == ASSUME TInv, NEW w \in Worker, EnqueueDue(w) PROVE TInv'
<1>1. job[w].launch \in Launch /\ pc[w] = "insert"
  BY DEF TInv, Placed, EnqueueDue
<1>2. CASE Skip(w, job[w].launch)
  BY <1>1, <1>2, SkipTInv
<1>3. CASE /\ Insert(job[w].launch)
           /\ due' = [due EXCEPT ![w] = @ \ {job[w].launch}]
           /\ pc' = [pc EXCEPT ![w] = "schedule"]
           /\ job' = [job EXCEPT ![w] = NoJob]
           /\ UNCHANGED <<runs, expired, faults, cancels>>
  <2>1. PICK i \in Item, row \in Row :
            /\ item' = [item EXCEPT ![i] = row] /\ second' \in Nat
            /\ row.launch = job[w].launch /\ row.status = "queued" /\ row.lease = NoWorker
    BY <1>1, <1>3, InsertRow
  <2>2. /\ pc' \in [Worker -> PCs] /\ job' \in [Worker -> Job]
        /\ due' \in [Worker -> SUBSET Launch] /\ Others(w) /\ pc'[w] = "schedule"
        /\ expired'[w] = expired[w]
    BY <1>3, Blank DEF TInv, TypeOK, PCs, Others
  <2>3. pc'[w] \notin Working /\ Starting \subseteq Working
    BY <2>2 DEF Working, Starting
  <2> QED BY <1>1, <1>3, <2>1, <2>2, <2>3, WorkTInv DEF TInv, TypeOK, Owned
<1> QED BY <1>2, <1>3 DEF EnqueueDue

(* What the lease transaction writes.                                       *)
Leases(w, i) ==
    /\ item' = [item EXCEPT ![i].status = "leased", ![i].lease = w, ![i].age = 0,
                            ![i].attempts = item[i].attempts + 1]
    /\ job' = [job EXCEPT ![w] = [NoJob EXCEPT !.item = i, !.attempt = item[i].attempts + 1]]

LEMMA LeaseRow ==
  ASSUME TInv, NEW w \in Worker, NEW i \in Oldest(w), Leases(w, i)
  PROVE  \E row \in Row :
            /\ i \in Item /\ item[i].status = "queued" /\ item' = [item EXCEPT ![i] = row]
            /\ row.launch = item[i].launch /\ row.status = "leased" /\ row.lease = w
            /\ row.attempts = item[i].attempts + 1 /\ row.launch \in Launch
            /\ job' \in [Worker -> Job] /\ job'[w].item = i /\ job'[w].report = "failed"
            /\ job'[w].attempt = item[i].attempts + 1
<1>1. i \in Item /\ item[i].status = "queued" /\ item[i] \in Row
  BY DEF Oldest, TInv, TypeOK
<1> DEFINE n == item[i].attempts + 1
           a == [item[i] EXCEPT !.status = "leased"]
           b == [a EXCEPT !.lease = w]
           c == [b EXCEPT !.age = 0]
           row == [c EXCEPT !.attempts = n]
           j == [NoJob EXCEPT !.item = i, !.attempt = n]
<1>2. n \in Nat
  BY <1>1 DEF Row
<1>3. a \in Row
  BY <1>1, RowField DEF Active, Owned
<1>4. b \in Row
  <2> HIDE DEF a
  <2> QED BY <1>3, RowField
<1>5. c \in Row
  <2>1. 0 \in 0..2
    OBVIOUS
  <2> HIDE DEF b
  <2> QED BY <1>4, <2>1, RowField
<1>6. row \in Row
  <2> HIDE DEF c, n
  <2> QED BY <1>2, <1>5, RowField
<1>7. item' = [item EXCEPT ![i] = row]
  BY <1>1 DEF TInv, TypeOK, Leases
<1>8. /\ row.launch = item[i].launch /\ row.status = "leased" /\ row.lease = w
      /\ row.attempts = n
  BY <1>1 DEF Row
<1>9. j \in Job /\ j.item = i /\ j.report = "failed" /\ j.attempt = n
  BY <1>1, <1>2, Blank DEF Job, NoJob
<1>10. item[i].launch \in Launch
  BY <1>1 DEF TInv, Placed
<1>11. job' = [job EXCEPT ![w] = j]
  BY DEF Leases
<1> HIDE DEF row, j
<1>12. job' \in [Worker -> Job] /\ job'[w] = j
  BY <1>9, <1>11 DEF TInv, TypeOK
<1> QED BY <1>1, <1>6, <1>7, <1>8, <1>9, <1>10, <1>12 DEF n

LEMMA LeaseTInv == ASSUME TInv, NEW w \in Worker, Lease(w) PROVE TInv'
<1>1. CASE Return(w) /\ UNCHANGED <<item, runs, second, faults, cancels>>
  BY <1>1, ReturnTInv DEF TInv, TypeOK
<1>2. ASSUME NEW i \in Oldest(w), Leases(w, i),
             pc' = [pc EXCEPT ![w] = "check"],
             UNCHANGED <<expired, due, runs, second, faults, cancels>>
      PROVE  TInv'
  <2>1. PICK row \in Row :
            /\ i \in Item /\ item' = [item EXCEPT ![i] = row]
            /\ row.launch \in Launch /\ row.status = "leased" /\ row.lease = w
            /\ job' \in [Worker -> Job] /\ job'[w].item = i
    BY <1>2, LeaseRow
  <2>2. /\ pc' \in [Worker -> PCs] /\ Others(w) /\ pc'[w] = "check" /\ expired'[w] = expired[w]
        /\ item'[i].status = "leased"
    BY <1>2, <2>1 DEF TInv, TypeOK, PCs, Others, Leases
  <2>3. pc'[w] \notin Starting
    BY <2>2 DEF Starting
  <2>4. row.status # "none" /\ (row.status \in Owned <=> row.lease # NoWorker)
    BY <2>1, QueueAssumption DEF Owned
  <2>5. second' \in Nat /\ UNCHANGED <<runs, faults, cancels>>
        /\ due' \in [Worker -> SUBSET Launch]
        /\ expired' \in [Worker -> SUBSET [id : Item, status : {"queued", "failed"}]]
        /\ expired'[w] \subseteq expired[w] /\ pc'[w] \notin {"parallel", "insert"}
    BY <1>2, <2>2 DEF TInv, TypeOK
  <2>6. item'[job'[w].item].status # "none"
    BY <2>1, <2>2
  <2> QED BY <2>1, <2>2, <2>3, <2>4, <2>5, <2>6, WorkTInv
<1> QED BY <1>1, <1>2 DEF Lease, Leases

(* A worker that is at work changes its step or its job, neither its row nor *)
(* runs.                                                                    *)
LEMMA StepTInv ==
  ASSUME TInv, NEW w \in Worker, pc[w] \in Working, NEW p \in Working,
         pc' = [pc EXCEPT ![w] = p], job' \in [Worker -> Job],
         job'[w].item = job[w].item, \A v \in Worker \ {w} : job'[v] = job[v],
         p \in Starting => job'[w].run \in DOMAIN runs[job[w].item],
         UNCHANGED <<item, runs, second, expired, due, cancels>>, faults' \in Nat
  PROVE  TInv'
<1>1. p \in PCs /\ p \notin {"parallel", "insert"}
  BY DEF Working, Starting, PCs
<1>2. /\ pc' \in [Worker -> PCs] /\ pc'[w] = p /\ Others(w)
  BY <1>1 DEF TInv, TypeOK, Others
<1>3. job[w].item \in Item /\ item[job[w].item].status # "none"
      /\ \A y \in expired'[w] : item[y.id].status # "none"
  BY DEF TInv, Placed
<1>4. /\ expired' \in [Worker -> SUBSET [id : Item, status : {"queued", "failed"}]]
      /\ due' \in [Worker -> SUBSET Launch] /\ cancels' \in Nat
  BY DEF TInv, TypeOK
<1> QED BY <1>1, <1>2, <1>3, <1>4, QuietTInv

LEMMA GiveUpTInv ==
  ASSUME TInv, NEW w \in Worker, pc[w] \in Working, GiveUp(w),
         UNCHANGED <<item, runs, second, expired, due, job, faults, cancels>>
  PROVE  TInv'
<1>1. "release" \in Working \ Starting
  BY DEF Working, Starting
<1> QED BY <1>1, StepTInv DEF GiveUp, TInv, TypeOK

LEMMA CheckLeaseTInv == ASSUME TInv, NEW w \in Worker, CheckLease(w) PROVE TInv'
<1>1. pc[w] \in Working /\ "launch" \in Working \ Starting
  BY DEF CheckLease, Working, Starting
<1>2. CASE /\ pc' = [pc EXCEPT ![w] = "launch"]
           /\ UNCHANGED <<item, runs, second, expired, due, job, faults, cancels>>
  BY <1>1, <1>2, StepTInv DEF TInv, TypeOK
<1>3. CASE /\ GiveUp(w)
           /\ UNCHANGED <<item, runs, second, expired, due, job, faults, cancels>>
  BY <1>1, <1>3, GiveUpTInv
<1> QED BY <1>2, <1>3 DEF CheckLease

LEMMA PollEndedTInv == ASSUME TInv, NEW w \in Worker, PollEnded(w) PROVE TInv'
<1> DEFINE s == QueueStatusForRun(runs[job[w].item][job[w].run].status)
<1>1. pc[w] \in Working /\ "release" \in Working \ Starting
  BY DEF PollEnded, Working, Starting
<1>2. s \in Ended
  BY DEF QueueStatusForRun, Ended
<1>3. job' = [job EXCEPT ![w].report = s] /\ pc' = [pc EXCEPT ![w] = "release"]
      /\ UNCHANGED <<item, runs, second, expired, due, faults, cancels>>
  BY DEF PollEnded
<1> HIDE DEF s
<1>4. [job[w] EXCEPT !.report = s] \in Job /\ [job[w] EXCEPT !.report = s].item = job[w].item
  BY <1>2 DEF TInv, TypeOK, Job
<1>5. job' \in [Worker -> Job] /\ job'[w].item = job[w].item
      /\ \A v \in Worker \ {w} : job'[v] = job[v]
  BY <1>3, <1>4 DEF TInv, TypeOK
<1> QED BY <1>1, <1>3, <1>5, StepTInv DEF TInv, TypeOK

LEMMA TimeOutTInv == ASSUME TInv, NEW w \in Worker, TimeOut(w) PROVE TInv'
  BY GiveUpTInv DEF TimeOut, Working, Starting

LEMMA LoseCallTInv == ASSUME TInv, NEW w \in Worker, LoseCall(w) PROVE TInv'
<1> DEFINE n == IF pc[w] = "wait" THEN job[w].run ELSE 0
<1>1. pc[w] \in Working /\ "release" \in Working \ Starting
  BY DEF LoseCall, Working, Starting
<1>2. job' = [job EXCEPT ![w].run = n] /\ pc' = [pc EXCEPT ![w] = "release"] /\ n \in Nat
      /\ faults' \in Nat /\ UNCHANGED <<item, runs, second, expired, due, cancels>>
  BY DEF LoseCall, GiveUp, TInv, TypeOK, Job
<1> HIDE DEF n
<1>3. [job[w] EXCEPT !.run = n] \in Job /\ [job[w] EXCEPT !.run = n].item = job[w].item
  BY <1>2 DEF TInv, TypeOK, Job
<1>4. job' \in [Worker -> Job] /\ job'[w].item = job[w].item
      /\ \A v \in Worker \ {w} : job'[v] = job[v]
  BY <1>2, <1>3 DEF TInv, TypeOK
<1> QED BY <1>1, <1>2, <1>4, StepTInv

LEMMA DieTInv == ASSUME TInv, NEW w \in Worker, Die(w) PROVE TInv'
  BY ReturnTInv DEF Die, TInv, TypeOK

(* The row of a worker at work.                                             *)
LEMMA Own ==
  ASSUME TInv, NEW w \in Worker, pc[w] \in Working
  PROVE  /\ job[w] \in Job /\ job[w].item \in Item /\ job[w].run \in Nat
         /\ item[job[w].item] \in Row /\ item[job[w].item].status # "none"
         /\ item[job[w].item].launch \in Launch
  BY DEF TInv, TypeOK, Placed, Job

(* What marking a row as running writes.                                    *)
LEMMA MarkRow ==
  ASSUME TInv, NEW w \in Worker, pc[w] = "mark", item[job[w].item].status = "leased", Holds(w),
         MarkRunning(w)
  PROVE  \E row \in Row :
            /\ item' = [item EXCEPT ![job[w].item] = row] /\ row.launch \in Launch
            /\ row.status = "running" /\ row.lease = w /\ row.run = job[w].run
            /\ row.attempts = item[job[w].item].attempts
            /\ row.launch = item[job[w].item].launch
<1> DEFINE i == job[w].item
           a == [item[i] EXCEPT !.status = "running"]
           b == [a EXCEPT !.run = job[w].run]
<1>1. job[w].run \in Nat /\ i \in Item /\ item[i] \in Row /\ item[i].launch \in Launch
  BY Own DEF Working, Starting
<1>2. a \in Row
  BY <1>1, RowField DEF Active, Owned
<1>3. b \in Row
  <2> HIDE DEF a
  <2> QED BY <1>1, <1>2, RowField
<1>4. item' = [item EXCEPT ![i] = b]
  BY <1>1 DEF TInv, TypeOK, MarkRunning
<1>5. /\ b.launch \in Launch /\ b.status = "running" /\ b.lease = w
      /\ b.run = job[w].run /\ b.attempts = item[i].attempts /\ b.launch = item[i].launch
  BY <1>1 DEF Row, Holds
<1> HIDE DEF b
<1> QED BY <1>3, <1>4, <1>5

LEMMA MarkRunningTInv == ASSUME TInv, NEW w \in Worker, MarkRunning(w) PROVE TInv'
<1>1. pc[w] = "mark" /\ pc[w] \in Working /\ pc[w] \in Starting
  BY DEF MarkRunning, Working, Starting
<1>2. CASE item[job[w].item].status = "leased" /\ Holds(w)
  <2>1. PICK row \in Row :
            /\ item' = [item EXCEPT ![job[w].item] = row] /\ row.launch \in Launch
            /\ row.status = "running" /\ row.lease = w
    BY <1>1, <1>2, MarkRow
  <2>2. /\ pc' = [pc EXCEPT ![w] = "wait"]
        /\ UNCHANGED <<job, runs, second, expired, due, faults, cancels>>
    BY <1>2 DEF MarkRunning
  <2>3. /\ pc' \in [Worker -> PCs] /\ pc'[w] = "wait" /\ Others(w)
    BY <2>2 DEF TInv, TypeOK, PCs, Others
  <2>4. job[w].item \in Item /\ job[w].run \in DOMAIN runs[job[w].item]
    BY <1>1 DEF TInv, Placed
  <2>5. item'[job[w].item].status # "none"
    BY <2>1, <2>4 DEF TInv, TypeOK
  <2>6. row.status # "none" /\ (row.status \in Owned <=> row.lease # NoWorker)
    BY <2>1, QueueAssumption DEF Owned
  <2>7. /\ job' \in [Worker -> Job] /\ due' \in [Worker -> SUBSET Launch] /\ second' \in Nat
        /\ expired' \in [Worker -> SUBSET [id : Item, status : {"queued", "failed"}]]
        /\ expired'[w] \subseteq expired[w] /\ pc'[w] \notin {"parallel", "insert"}
    BY <2>2, <2>3 DEF TInv, TypeOK
  <2> QED BY <2>1, <2>2, <2>3, <2>4, <2>5, <2>6, <2>7, WorkTInv
<1>3. CASE ~(item[job[w].item].status = "leased" /\ Holds(w))
  <2>1. /\ job' = [job EXCEPT ![w].run = 0] /\ pc' = [pc EXCEPT ![w] = "release"]
        /\ UNCHANGED <<item, runs, second, expired, due, faults, cancels>>
    BY <1>3 DEF MarkRunning, GiveUp
  <2>2. [job[w] EXCEPT !.run = 0] \in Job /\ [job[w] EXCEPT !.run = 0].item = job[w].item
    BY DEF TInv, TypeOK, Job
  <2>3. job' \in [Worker -> Job] /\ job'[w].item = job[w].item
        /\ \A v \in Worker \ {w} : job'[v] = job[v]
    BY <2>1, <2>2 DEF TInv, TypeOK
  <2>4. "release" \in Working \ Starting
    BY DEF Working, Starting
  <2> QED BY <1>1, <2>1, <2>3, <2>4, StepTInv DEF TInv, TypeOK
<1> QED BY <1>2, <1>3

(* What a renewal writes.                                                   *)
LEMMA AgeRow ==
  ASSUME TInv, NEW i \in Item, item[i].status # "none", NEW a \in 0..2,
         item' = [item EXCEPT ![i].age = a]
  PROVE  \E row \in Row :
            /\ item' = [item EXCEPT ![i] = row] /\ row.launch \in Launch
            /\ row.launch = item[i].launch /\ row.status = item[i].status
            /\ row.lease = item[i].lease
            /\ row.attempts = item[i].attempts /\ row.run = item[i].run
<1> DEFINE b == [item[i] EXCEPT !.age = a]
<1>1. item[i] \in Row /\ item[i].launch \in Launch
  BY DEF TInv, TypeOK, Placed
<1>2. b \in Row
  BY <1>1, RowField
<1>3. item' = [item EXCEPT ![i] = b]
  BY DEF TInv, TypeOK
<1>4. /\ b.launch = item[i].launch /\ b.status = item[i].status
      /\ b.lease = item[i].lease /\ b.attempts = item[i].attempts /\ b.run = item[i].run
  BY <1>1 DEF Row
<1> HIDE DEF b
<1> QED BY <1>1, <1>2, <1>3, <1>4

LEMMA AgeTInv ==
  ASSUME TInv, NEW i \in Item, item[i].status # "none", NEW a \in 0..2,
         item' = [item EXCEPT ![i].age = a],
         UNCHANGED <<runs, second, pc, expired, due, job, faults, cancels>>
  PROVE  TInv'
<1>1. PICK row \in Row :
            /\ item' = [item EXCEPT ![i] = row] /\ row.launch \in Launch
            /\ row.status = item[i].status /\ row.lease = item[i].lease
  BY AgeRow
<1>2. row.status # "none" /\ (row.status \in Owned <=> row.lease # NoWorker)
  BY <1>1 DEF TInv, TypeOK
<1>3. second' \in Nat /\ faults' \in Nat /\ cancels' \in Nat
  BY DEF TInv, TypeOK
<1> QED BY <1>1, <1>2, <1>3, WriteTInv

LEMMA RenewTInv == ASSUME TInv, NEW w \in Worker, Renew(w) PROVE TInv'
<1>1. pc[w] \in Working /\ job[w].item \in Item /\ item[job[w].item].status # "none"
  BY Own DEF Renew, Working, Starting
<1>2. 0 \in 0..2
  OBVIOUS
<1>3. CASE item[job[w].item].status \in Owned /\ Holds(w)
  BY <1>1, <1>2, <1>3, AgeTInv DEF Renew
<1>4. CASE ~(item[job[w].item].status \in Owned /\ Holds(w))
  BY <1>1, <1>4, GiveUpTInv DEF Renew
<1> QED BY <1>3, <1>4

LEMMA ExpireTInv == ASSUME TInv, NEW i \in Item, Expire(i) PROVE TInv'
<1>1. item[i].age + 1 \in 0..2 /\ item[i].status # "none"
  BY DEF TInv, TypeOK, Row, Expire, Owned
<1>2. item' = [item EXCEPT ![i].age = item[i].age + 1]
  BY DEF Expire, TInv, TypeOK
<1> QED BY <1>1, <1>2, AgeTInv DEF Expire

LEMMA CancelItemTInv == ASSUME TInv, NEW i \in Item, CancelItem(i) PROVE TInv'
<1> DEFINE row == Unlease(item[i], "canceled")
<1>1. item[i] \in Row /\ item[i].launch \in Launch
  BY DEF TInv, TypeOK, Placed, CancelItem
<1>2. /\ row \in Row /\ row.launch \in Launch /\ row.status # "none"
      /\ row.status \in Owned <=> row.lease # NoWorker
  BY <1>1, UnleaseRow DEF Ended, Owned
<1>3. /\ item' = [item EXCEPT ![i] = row] /\ cancels' \in Nat
      /\ UNCHANGED <<runs, second, pc, expired, due, job, faults>>
  BY DEF CancelItem, TInv, TypeOK
<1>4. second' \in Nat /\ faults' \in Nat
  BY <1>3 DEF TInv, TypeOK
<1> HIDE DEF row
<1> QED BY <1>2, <1>3, <1>4, WriteTInv

(* What a release that finds its lease writes.                              *)
LEMMA ReleaseRow ==
  ASSUME TInv, NEW w \in Worker, Release(w), item[job[w].item].status \in Owned, Holds(w)
  PROVE  \E row \in Row :
            /\ item' = [item EXCEPT ![job[w].item] = row] /\ row.launch \in Launch
            /\ row.status = job[w].report /\ row.status \in Ended /\ row.lease = NoWorker
            /\ row.attempts = item[job[w].item].attempts
            /\ row.launch = item[job[w].item].launch
            /\ row.run = (IF job[w].run = 0 THEN item[job[w].item].run ELSE job[w].run)
<1> DEFINE i == job[w].item
           a == Unlease(item[i], job[w].report)
           n == IF job[w].run = 0 THEN a.run ELSE job[w].run
           b == [a EXCEPT !.run = n]
<1>1. job[w] \in Job /\ i \in Item /\ item[i] \in Row /\ item[i].launch \in Launch
  BY Own DEF Working, Release
<1>2. job[w].run \in Nat /\ job[w].report \in Ended
  BY <1>1 DEF Job
<1>3. /\ a \in Row /\ a.status = job[w].report /\ a.lease = NoWorker /\ a.run = item[i].run
      /\ a.launch = item[i].launch /\ a.attempts = item[i].attempts
  BY <1>1, <1>2, UnleaseRow
<1>4. n \in Nat
  BY <1>2, <1>3 DEF Row
<1>5. item' = [item EXCEPT ![i] = b]
  BY DEF Release
<1> HIDE DEF a
<1>6. b \in Row
  <2> HIDE DEF n
  <2> QED BY <1>3, <1>4, RowField
<1>7. /\ b.status = a.status /\ b.lease = a.lease /\ b.run = n
      /\ b.launch = a.launch /\ b.attempts = a.attempts
  BY <1>3 DEF Row
<1> HIDE DEF b
<1> QED BY <1>1, <1>2, <1>3, <1>5, <1>6, <1>7

LEMMA ReleaseTInv == ASSUME TInv, NEW w \in Worker, Release(w) PROVE TInv'
<1>1. CASE item[job[w].item].status \in Owned /\ Holds(w)
  <2>1. PICK row \in Row :
            /\ item' = [item EXCEPT ![job[w].item] = row] /\ row.launch \in Launch
            /\ row.status \in Ended /\ row.lease = NoWorker
    BY <1>1, ReleaseRow
  <2>2. /\ pc' \in [Worker -> PCs] /\ job' \in [Worker -> Job]
        /\ expired' \in [Worker -> SUBSET [id : Item, status : {"queued", "failed"}]]
        /\ due' \in [Worker -> SUBSET Launch]
        /\ Others(w) /\ pc'[w] = "recover" /\ expired'[w] = {}
    BY Blank DEF TInv, TypeOK, Return, Release, PCs, Others
  <2>3. pc'[w] \notin Working \cup {"parallel", "insert"} /\ Starting \subseteq Working
    BY <2>2 DEF Working, Starting
  <2>4. row.status # "none" /\ row.status \notin Owned
    BY <2>1 DEF Ended, Owned
  <2>5. job[w].item \in Item /\ UNCHANGED <<runs, second, faults, cancels>> /\ second' \in Nat
    BY Own DEF Working, Release, TInv, TypeOK
  <2> QED BY <2>1, <2>2, <2>3, <2>4, <2>5, WorkTInv
<1>2. CASE ~(item[job[w].item].status \in Owned /\ Holds(w))
  BY <1>2, ReturnTInv DEF Release, TInv, TypeOK
<1> QED BY <1>1, <1>2

(* Run number k of row i is overwritten.                                    *)
WriteRun(i, k, r) == runs' = [runs EXCEPT ![i] = [runs[i] EXCEPT ![k] = r]]

LEMMA WrittenRun ==
  ASSUME TInv, NEW i \in Item, NEW k \in DOMAIN runs[i], NEW r \in Run, WriteRun(i, k, r)
  PROVE  /\ runs' \in [Item -> Seq(Run)] /\ runs'[i][k] = r
         /\ \A j \in Item : DOMAIN runs'[j] = DOMAIN runs[j]
         /\ \A j \in Item : \A m \in DOMAIN runs[j] :
               j # i \/ m # k => runs'[j][m] = runs[j][m]
<1>1. [runs[i] EXCEPT ![k] = r] \in Seq(Run)
  BY DEF TInv, TypeOK
<1>2. runs' \in [Item -> Seq(Run)]
  BY <1>1 DEF TInv, TypeOK, WriteRun
<1>3. runs'[i] = [runs[i] EXCEPT ![k] = r] /\ \A j \in Item \ {i} : runs'[j] = runs[j]
  BY DEF TInv, TypeOK, WriteRun
<1>4. DOMAIN runs'[i] = DOMAIN runs[i] /\ runs'[i][k] = r
      /\ \A m \in DOMAIN runs[i] : m # k => runs'[i][m] = runs[i][m]
  BY <1>3 DEF TInv, TypeOK
<1> QED BY <1>2, <1>3, <1>4

(* What a write of status s makes of the run.                               *)
StatusWritten(i, k, s) ==
    [runs[i][k] EXCEPT !.status = s, !.won = runs[i][k].won \/ s = "succeeded"]

LEMMA RunFields ==
  ASSUME TInv, NEW i \in Item, NEW k \in DOMAIN runs[i]
  PROVE  /\ runs[i][k] \in Run
         /\ [runs[i][k] EXCEPT !.link = TRUE] \in Run
         /\ [runs[i][k] EXCEPT !.snapshot = TRUE] \in Run
         /\ \A s \in {"active"} \cup RunEnded : StatusWritten(i, k, s) \in Run
<1>1. runs[i][k] \in Run
  BY DEF TInv, TypeOK
<1>2. /\ [runs[i][k] EXCEPT !.link = TRUE] \in Run
      /\ [runs[i][k] EXCEPT !.snapshot = TRUE] \in Run
  BY <1>1 DEF Run
<1>3. ASSUME NEW s \in {"active"} \cup RunEnded PROVE StatusWritten(i, k, s) \in Run
  <2> DEFINE b == runs[i][k].won \/ s = "succeeded"
  <2>1. b \in BOOLEAN /\ (s = "succeeded" => b)
    BY <1>1 DEF Run
  <2>2. StatusWritten(i, k, s) = [runs[i][k] EXCEPT !.status = s, !.won = b]
    BY DEF StatusWritten
  <2> HIDE DEF b
  <2>3. [runs[i][k] EXCEPT !.status = s, !.won = b] \in Run
    BY <1>1, <2>1 DEF Run
  <2> QED BY <2>2, <2>3
<1> QED BY <1>1, <1>2, <1>3

(* Steps that write a run.                                                  *)
LEMMA RunTInv ==
  ASSUME TInv, NEW i \in Item, NEW k \in DOMAIN runs[i], NEW r \in Run, WriteRun(i, k, r),
         pc' \in [Worker -> PCs],
         \A w \in Worker : /\ pc'[w] \in {"parallel", "insert"} => pc'[w] = pc[w]
                           /\ pc'[w] \in Working => pc[w] \in Working
                           /\ pc'[w] \in Starting => pc[w] \in Starting,
         cancels' \in Nat, UNCHANGED <<item, second, expired, due, job, faults>>
  PROVE  TInv'
<1>1. /\ runs' \in [Item -> Seq(Run)]
      /\ \A j \in Item : DOMAIN runs'[j] = DOMAIN runs[j]
  BY WrittenRun
<1>2. TypeOK'
  BY <1>1 DEF TInv, TypeOK
<1>3. Placed'
  BY <1>1 DEF TInv, TypeOK, Placed, Starting, Working
<1> QED BY <1>2, <1>3 DEF TInv

LEMMA RunOwn ==
  ASSUME TInv, NEW w \in Worker, pc[w] \in Starting
  PROVE  /\ pc[w] \in Working /\ job[w].item \in Item
         /\ job[w].run \in DOMAIN runs[job[w].item]
  BY DEF TInv, Placed, Working

LEMMA LinkRunTInv == ASSUME TInv, NEW w \in Worker, LinkRun(w) PROVE TInv'
<1> DEFINE i == job[w].item
           k == job[w].run
           r == [runs[i][k] EXCEPT !.link = TRUE]
<1>1. pc[w] \in Starting /\ i \in Item /\ k \in DOMAIN runs[i] /\ r \in Run
  BY RunOwn, RunFields DEF LinkRun, Starting
<1>2. WriteRun(i, k, r)
  BY <1>1 DEF LinkRun, WriteRun, TInv, TypeOK
<1>3. /\ pc' = [pc EXCEPT ![w] = "snapshot"] /\ pc[w] = "link"
      /\ UNCHANGED <<item, second, expired, due, job, faults, cancels>>
  BY DEF LinkRun
<1>4. /\ pc' \in [Worker -> PCs]
      /\ \A v \in Worker : /\ pc'[v] \in {"parallel", "insert"} => pc'[v] = pc[v]
                           /\ pc'[v] \in Working => pc[v] \in Working
                           /\ pc'[v] \in Starting => pc[v] \in Starting
  BY <1>3 DEF TInv, TypeOK, PCs, Starting, Working
<1>5. cancels' \in Nat
  BY <1>3 DEF TInv, TypeOK
<1> HIDE DEF i, k, r
<1> QED BY <1>1, <1>2, <1>3, <1>4, <1>5, RunTInv

LEMMA SnapshotRunTInv == ASSUME TInv, NEW w \in Worker, SnapshotRun(w) PROVE TInv'
<1> DEFINE i == job[w].item
           k == job[w].run
           r == [runs[i][k] EXCEPT !.snapshot = TRUE]
<1>1. pc[w] \in Starting /\ i \in Item /\ k \in DOMAIN runs[i] /\ r \in Run
  BY RunOwn, RunFields DEF SnapshotRun, Starting
<1>2. WriteRun(i, k, r)
  BY <1>1 DEF SnapshotRun, WriteRun, TInv, TypeOK
<1>3. /\ pc' = [pc EXCEPT ![w] = "mark"] /\ pc[w] = "snapshot"
      /\ UNCHANGED <<item, second, expired, due, job, faults, cancels>>
  BY DEF SnapshotRun
<1>4. /\ pc' \in [Worker -> PCs]
      /\ \A v \in Worker : /\ pc'[v] \in {"parallel", "insert"} => pc'[v] = pc[v]
                           /\ pc'[v] \in Working => pc[v] \in Working
                           /\ pc'[v] \in Starting => pc[v] \in Starting
  BY <1>3 DEF TInv, TypeOK, PCs, Starting, Working
<1>5. cancels' \in Nat
  BY <1>3 DEF TInv, TypeOK
<1> HIDE DEF i, k, r
<1> QED BY <1>1, <1>2, <1>3, <1>4, <1>5, RunTInv

LEMMA ChangedRun ==
  ASSUME TInv, NEW i \in Item, RunChanges(i)
  PROVE  \E k \in DOMAIN runs[i] : \E s \in {"active"} \cup RunEnded :
            WriteRun(i, k, StatusWritten(i, k, s)) /\ StatusWritten(i, k, s) \in Run
<1>1. PICK k \in DOMAIN runs[i], s \in {"active"} \cup RunEnded :
         runs' = [runs EXCEPT ![i][k].status = s, ![i][k].won = @ \/ s = "succeeded"]
  BY DEF RunChanges
<1>2. WriteRun(i, k, StatusWritten(i, k, s))
  BY <1>1 DEF WriteRun, StatusWritten, TInv, TypeOK
<1> QED BY <1>2, RunFields

LEMMA RunChangesTInv == ASSUME TInv, NEW i \in Item, RunChanges(i) PROVE TInv'
<1>1. PICK k \in DOMAIN runs[i], s \in {"active"} \cup RunEnded :
         WriteRun(i, k, StatusWritten(i, k, s)) /\ StatusWritten(i, k, s) \in Run
  BY ChangedRun
<1>2. /\ pc' \in [Worker -> PCs] /\ cancels' \in Nat
      /\ UNCHANGED <<item, second, pc, expired, due, job, faults>>
  BY DEF RunChanges, TInv, TypeOK
<1> DEFINE r == StatusWritten(i, k, s)
<1>3. WriteRun(i, k, r) /\ r \in Run
  BY <1>1
<1> HIDE DEF r
<1> QED BY <1>2, <1>3, RunTInv

LEMMA Appended ==
  ASSUME NEW S, NEW s \in Seq(S), NEW x \in S
  PROVE  /\ Append(s, x) \in Seq(S) /\ Len(s) + 1 \in Nat
         /\ DOMAIN Append(s, x) = DOMAIN s \cup {Len(s) + 1} /\ Len(s) + 1 \notin DOMAIN s
         /\ Append(s, x)[Len(s) + 1] = x
         /\ \A k \in DOMAIN s : Append(s, x)[k] = s[k]
<1>1. Append(s, x) \in Seq(S) /\ Len(s) \in Nat /\ Len(Append(s, x)) = Len(s) + 1
  OBVIOUS
<1>2. DOMAIN s = 1..Len(s) /\ DOMAIN Append(s, x) = 1..(Len(s) + 1)
  BY <1>1
<1>3. Append(s, x)[Len(s) + 1] = x /\ \A k \in 1..Len(s) : Append(s, x)[k] = s[k]
  OBVIOUS
<1>4. 1..(Len(s) + 1) = 1..Len(s) \cup {Len(s) + 1} /\ Len(s) + 1 \notin 1..Len(s)
  BY <1>1
<1> QED BY <1>1, <1>2, <1>3, <1>4

(* A run is started.                                                        *)
LEMMA NewRun ==
  ASSUME TInv, NEW w \in Worker, LaunchRunbook(w), runs' # runs
  PROVE  LET i == job[w].item
             new == [status |-> "active", attempt |-> job[w].attempt,
                     won |-> FALSE, link |-> FALSE, snapshot |-> FALSE]
             n == Len(runs[i]) + 1
         IN  /\ i \in Item /\ item[i].status # "none" /\ n \in Nat
             /\ pc' = [pc EXCEPT ![w] = "link"]
             /\ runs' \in [Item -> Seq(Run)] /\ runs'[i] = Append(runs[i], new)
             /\ DOMAIN runs'[i] = DOMAIN runs[i] \cup {n} /\ n \notin DOMAIN runs[i]
             /\ runs'[i][n] = new /\ \A k \in DOMAIN runs[i] : runs'[i][k] = runs[i][k]
             /\ \A j \in Item \ {i} : runs'[j] = runs[j]
             /\ job' \in [Worker -> Job] /\ job'[w].run = n /\ job'[w].item = i
             /\ job'[w].attempt = job[w].attempt /\ job'[w].report = job[w].report
             /\ \A v \in Worker \ {w} : job'[v] = job[v]
<1> DEFINE i == job[w].item
           new == [status |-> "active", attempt |-> job[w].attempt,
                   won |-> FALSE, link |-> FALSE, snapshot |-> FALSE]
           n == Len(runs[i]) + 1
<1>1. job[w] \in Job /\ i \in Item /\ item[i].status # "none"
  BY Own DEF Working, LaunchRunbook
<1>2. /\ runs' = [runs EXCEPT ![i] = Append(runs[i], new)] /\ pc' = [pc EXCEPT ![w] = "link"]
      /\ job' = [job EXCEPT ![w].run = n]
  BY <1>1 DEF LaunchRunbook, TInv, TypeOK
<1>3. new \in Run /\ runs[i] \in Seq(Run)
  BY <1>1 DEF Run, Job, TInv, TypeOK
<1> HIDE DEF new
<1>4. /\ Append(runs[i], new) \in Seq(Run) /\ n \in Nat
      /\ DOMAIN Append(runs[i], new) = DOMAIN runs[i] \cup {n} /\ n \notin DOMAIN runs[i]
      /\ Append(runs[i], new)[n] = new
      /\ \A k \in DOMAIN runs[i] : Append(runs[i], new)[k] = runs[i][k]
  BY <1>3, Appended
<1>5. /\ runs' \in [Item -> Seq(Run)] /\ runs'[i] = Append(runs[i], new)
      /\ \A j \in Item \ {i} : runs'[j] = runs[j]
  BY <1>1, <1>2, <1>4 DEF TInv, TypeOK
<1>6. /\ [job[w] EXCEPT !.run = n] \in Job /\ [job[w] EXCEPT !.run = n].run = n
      /\ [job[w] EXCEPT !.run = n].item = i
      /\ [job[w] EXCEPT !.run = n].attempt = job[w].attempt
      /\ [job[w] EXCEPT !.run = n].report = job[w].report
  BY <1>1, <1>4 DEF Job
<1>7. job' \in [Worker -> Job] /\ job'[w] = [job[w] EXCEPT !.run = n]
      /\ \A v \in Worker \ {w} : job'[v] = job[v]
  <2> HIDE DEF n
  <2> QED BY <1>2, <1>6 DEF TInv, TypeOK
<1> QED BY <1>1, <1>2, <1>4, <1>5, <1>6, <1>7 DEF new

LEMMA LaunchRunbookTInv == ASSUME TInv, NEW w \in Worker, LaunchRunbook(w) PROVE TInv'
<1>1. pc[w] = "launch" /\ pc[w] \in Working
  BY DEF LaunchRunbook, Working
<1>2. CASE runs' = runs
  <2>1. runs # [runs EXCEPT ![job[w].item] = Append(@, [status |-> "active",
             attempt |-> job[w].attempt,
             won |-> FALSE, link |-> FALSE, snapshot |-> FALSE])]
    BY <1>1, Own DEF TInv, TypeOK
  <2> QED BY <1>1, <1>2, <2>1, GiveUpTInv DEF LaunchRunbook
<1>3. CASE runs' # runs
  <2> DEFINE i == job[w].item
  <2>1. /\ i \in Item /\ item[i].status # "none" /\ pc' = [pc EXCEPT ![w] = "link"]
        /\ runs' \in [Item -> Seq(Run)] /\ job'[w].run \in DOMAIN runs'[i]
        /\ \A j \in Item : DOMAIN runs[j] \subseteq DOMAIN runs'[j]
        /\ job' \in [Worker -> Job] /\ job'[w].item = i
        /\ \A v \in Worker \ {w} : job'[v] = job[v]
    BY <1>3, NewRun
  <2>2. /\ pc' \in [Worker -> PCs] /\ pc'[w] = "link"
        /\ UNCHANGED <<item, second, expired, due, faults, cancels>> /\ Others(w)
    BY <2>1 DEF TInv, TypeOK, PCs, Others, LaunchRunbook
  <2>3. TypeOK'
    BY <2>1, <2>2 DEF TInv, TypeOK
  <2>4. Placed'
    BY <2>1, <2>2 DEF TInv, TypeOK, Placed, Others, Working, Starting
  <2> QED BY <2>3, <2>4 DEF TInv
<1> QED BY <1>2, <1>3

LEMMA NextTInv == ASSUME TInv, [Next]_vars PROVE TInv'
<1>1. CASE UNCHANGED vars
  BY <1>1 DEF vars, TInv, TypeOK, Placed, Working, Starting
<1>2. ASSUME NEW w \in Worker, Tick(w) PROVE TInv'
  BY <1>2, RecoverSelectTInv, RecoverUpdateTInv, RecoverDoneTInv, CountRunsTInv,
     CountActiveTInv, EnqueueDueTInv, LeaseTInv DEF Tick
<1>3. ASSUME NEW w \in Worker, Start(w) PROVE TInv'
  BY <1>3, CheckLeaseTInv, LaunchRunbookTInv, LinkRunTInv, SnapshotRunTInv, MarkRunningTInv
     DEF Start
<1>4. ASSUME NEW w \in Worker, Finish(w) \/ Renew(w) \/ LoseCall(w) \/ Die(w) PROVE TInv'
  BY <1>4, PollEndedTInv, TimeOutTInv, ReleaseTInv, RenewTInv, LoseCallTInv, DieTInv DEF Finish
<1>5. ASSUME NEW i \in Item, Expire(i) \/ RunChanges(i) \/ CancelItem(i) PROVE TInv'
  BY <1>5, ExpireTInv, RunChangesTInv, CancelItemTInv
<1>6. ASSUME NEW l \in Launch, EnqueueManual(l) PROVE TInv'
  BY <1>6, InsertTInv DEF EnqueueManual, TInv, TypeOK
<1> QED BY <1>1, <1>2, <1>3, <1>4, <1>5, <1>6 DEF Next, Scheduled

(* Every value stays in its type: a worker at work has a row, a worker that *)
(* waits for a run has one, and a row has a holder exactly while it is      *)
(* leased or running (the columns LeaseNextRunQueueItem and                 *)
(* ReleaseRunQueueLease write together).                                    *)
THEOREM TypeCorrect == Spec => []TypeOK
<1>1. Spec => []TInv
  BY InitTInv, NextTInv, PTL DEF Spec
<1> QED BY <1>1, PTL DEF TInv
=============================================================================
