--------------------------- MODULE NodeLifecycle ---------------------------
(***************************************************************************)
(* What the runbook runtime promises about the entry actions that it       *)
(* executes itself (all but human.request): the transitions that           *)
(* fireNodeStateTrigger configures for a durable node state, with the      *)
(* executions of the action they bracket.  An action runs only while its   *)
(* node is running, success takes a successful execution, a verdict is     *)
(* final, and nothing runs after it.                                       *)
(***************************************************************************)
EXTENDS Naturals

CONSTANT Node
VARIABLES status,   \* node |-> status of its row; "pending" when there is none
          effects,  \* node |-> executions of its action so far
          wins      \* node |-> the successful ones among them

vars == <<status, effects, wins>>

Init == /\ status = [n \in Node |-> "pending"]
        /\ effects = [n \in Node |-> 0]
        /\ wins = [n \in Node |-> 0]

\* An attempt starts; a running node is entered again (PermitReentry).
Start(n) == /\ status[n] \in {"pending", "running"}
            /\ status' = [status EXCEPT ![n] = "running"]
            /\ UNCHANGED <<effects, wins>>

\* The action is executed, successfully or not, within an attempt.
Execute(n) == /\ status[n] = "running"
              /\ effects' = [effects EXCEPT ![n] = effects[n] + 1]
              /\ \/ wins' = [wins EXCEPT ![n] = wins[n] + 1]
                 \/ UNCHANGED wins
              /\ UNCHANGED status

\* The node succeeds, which takes a successful execution.
Succeed(n) == /\ status[n] = "running" /\ wins[n] > 0
              /\ status' = [status EXCEPT ![n] = "succeeded"]
              /\ UNCHANGED <<effects, wins>>

\* The node fails: its attempts are used up.
Fail(n) == /\ status[n] = "running"
           /\ status' = [status EXCEPT ![n] = "failed"]
           /\ UNCHANGED <<effects, wins>>

Next == \E n \in Node : Start(n) \/ Execute(n) \/ Succeed(n) \/ Fail(n)

Spec == Init /\ [][Next]_vars
=============================================================================
