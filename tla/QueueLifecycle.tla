--------------------------- MODULE QueueLifecycle ---------------------------
(***************************************************************************)
(* What the Launchpad queue promises about one queued run, seen from its   *)
(* status and its attempts: every lease is an attempt and an attempt more  *)
(* than the launch's policy allows is never made, a lost lease goes back   *)
(* to the queue or fails the item when the attempts are used up, an item   *)
(* is canceled only before its runbook runs, and the end is final.         *)
(***************************************************************************)
EXTENDS Naturals

CONSTANT Item
VARIABLES status,    \* item |-> status; "none" until it is queued
          attempts,  \* item |-> leases so far
          limit      \* item |-> attempts its policy allows; 0 until it is queued

vars == <<status, attempts, limit>>

Init == /\ status = [i \in Item |-> "none"]
        /\ attempts = [i \in Item |-> 0]
        /\ limit = [i \in Item |-> 0]

Move(i, from, to) == /\ status[i] \in from
                     /\ status' = [status EXCEPT ![i] = to]

Enqueue(i) == /\ Move(i, {"none"}, "queued")
              /\ limit'[i] \in Nat \ {0}
              /\ limit' = [limit EXCEPT ![i] = limit'[i]]
              /\ UNCHANGED attempts

Lease(i) == /\ Move(i, {"queued"}, "leased")
            /\ attempts[i] < limit[i]
            /\ attempts' = [attempts EXCEPT ![i] = attempts[i] + 1]
            /\ UNCHANGED limit

Begin(i) == Move(i, {"leased"}, "running") /\ UNCHANGED <<attempts, limit>>

\* The holder reports the end, before the run began or after.
Report(i) == /\ \/ Move(i, {"leased", "running"}, "failed")
                \/ Move(i, {"running"}, "completed")
                \/ Move(i, {"running"}, "canceled")
             /\ UNCHANGED <<attempts, limit>>

Cancel(i) == Move(i, {"queued", "leased"}, "canceled") /\ UNCHANGED <<attempts, limit>>

\* The lease expired.
Recover(i) == /\ IF attempts[i] < limit[i]
                 THEN Move(i, {"leased", "running"}, "queued")
                 ELSE Move(i, {"leased", "running"}, "failed")
              /\ UNCHANGED <<attempts, limit>>

Next == \E i \in Item : \/ Enqueue(i) \/ Lease(i) \/ Begin(i) \/ Report(i)
                        \/ Cancel(i) \/ Recover(i)

Spec == Init /\ [][Next]_vars
=============================================================================
