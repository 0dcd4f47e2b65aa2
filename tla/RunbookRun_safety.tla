------------------------- MODULE RunbookRun_safety -------------------------
(***************************************************************************)
(* The inductive invariant behind the safety properties of RunbookRun, and *)
(* the theorems that follow from it: the budget of executions, no repeated *)
(* success, approval before the effect, and the refinement of              *)
(* NodeLifecycle.  All of them hold for every runbook definition and every *)
(* number of goroutines, signals, cancels, crashes and reloads.            *)
(***************************************************************************)
EXTENDS RunbookRun_proofs

\* The runtime executes the action itself; human.request waits for a signal.
Own(n) == Kind[n] # "human"

\* Goroutine e is inside executeStateAction for node n.
At(e, n) == pc[e] \in InAction /\ act[e].node = n

\* The run mutex excludes: only its holder is past lockRun.
Mutex == \A e \in Exec : pc[e] \in Locked => lock = e

\* Only human.request asks questions without a policy, and so only its nodes
\* are ever written by a Signal.
HumanItems(s) == \A k \in 1..Len(s) : s[k].policy \/ Kind[s[k].node] = "human"
Asked ==
    /\ HumanItems(open)
    /\ \A g \in Sig : /\ HumanItems(sig[g].items)
                      /\ sig[g].pc \in {"read", "fire"} => ~Head(sig[g].items).policy

\* human.request nodes have no effect of their own.
HumanIdle ==
    /\ \A n \in Nodes : ~Own(n) => effects[n] = 0 /\ wins[n] = 0
    /\ \A e \in Exec : pc[e] \in {"act", "save", "succeed"} => Own(act[e].node)

\* What holds at each step of executeStateAction, for the node's durable row,
\* the attempt under way and the executions so far.
StepOK(e) ==
    LET n == act[e].node
        a == act[e].attempts
    IN
    /\ node[n].status \in {"pending", "running"}
    /\ a <= Retry[n] + 1
    /\ pc[e] = "count" => effects[n] <= CompletedAttempts(n) + crashes
    /\ pc[e] \in {"attempt", "exhausted", "failread", "fail"} =>
          /\ effects[n] <= a + crashes
          /\ a = CompletedAttempts(n) \/ (node[n].status = "running" /\ a = node[n].attempts)
    /\ pc[e] = "start" =>
          /\ effects[n] + 1 <= a + crashes
          /\ a = CompletedAttempts(n) + 1
             \/ (node[n].status = "running" /\ a = node[n].attempts + 1)
    /\ pc[e] \in {"invoke", "ask", "act"} =>
          /\ node[n].status = "running" /\ node[n].attempts = a /\ a > 0
          /\ effects[n] + 1 <= a + crashes
    /\ pc[e] \in {"save", "succeed"} =>
          /\ node[n].status = "running" /\ node[n].attempts = a
          /\ effects[n] <= a + crashes /\ wins[n] > 0
    /\ pc[e] \in {"start", "fail"} => act[e].seen = node[n].status
    /\ wins[n] <= IF pc[e] \in {"save", "succeed"} THEN crashes + 1 ELSE crashes

\* What holds for a node while no goroutine is inside its action.
RestOK(n) ==
    /\ effects[n] <= CompletedAttempts(n) + crashes
    /\ wins[n] <= IF node[n].status = "succeeded" THEN crashes + 1 ELSE crashes

Steps == \A e \in Exec : pc[e] \in InAction /\ Own(act[e].node) => StepOK(e)
Rows == \A n \in Nodes : Own(n) =>
    /\ node[n].attempts <= Retry[n] + 1
    /\ (\A e \in Exec : ~At(e, n)) => RestOK(n)

\* Every approval that gates an action was given by somebody.
Approvals ==
    /\ \A n \in Nodes : approval[n] = "yes" => n \in granted
    /\ \A e \in Exec : pc[e] = "act" /\ Kind[act[e].node] = "gated" => act[e].node \in granted
    /\ \A n \in Nodes : Kind[n] = "gated" /\ effects[n] > 0 => n \in granted

\* The inductive invariant.
IInv == TInv /\ Mutex /\ Asked /\ HumanIdle /\ Steps /\ Rows /\ Approvals

(* Everything the invariant reads, except pc and act.                       *)
Elsewhere ==
    /\ UNCHANGED <<effects, wins, crashes>>
    /\ \A n \in Nodes : Own(n) => node'[n] = node[n]
    /\ \A e \in Exec : \/ pc'[e] = pc[e] /\ act'[e] = act[e]
                       \/ pc[e] \notin InAction /\ pc'[e] \notin InAction

LEMMA ElsewhereKeeps == ASSUME TInv, HumanIdle, Steps, Rows, Elsewhere
                        PROVE  HumanIdle' /\ Steps' /\ Rows'
<1>1. ASSUME NEW n \in Nodes, Own(n)
      PROVE  node'[n] = node[n] /\ CompletedAttempts(n)' = CompletedAttempts(n)
  BY <1>1 DEF Elsewhere, CompletedAttempts
<1>2. HumanIdle'
  BY DEF HumanIdle, Elsewhere, InAction, Own
<1>3. ASSUME NEW e \in Exec, pc'[e] \in InAction, Own(act[e].node)' PROVE StepOK(e)'
  <2>1. pc'[e] = pc[e] /\ act'[e] = act[e] /\ act[e].node \in Nodes /\ Own(act[e].node)
    BY <1>3, LocalsOf DEF Elsewhere, Own
  <2>2. StepOK(e)
    BY <1>3, <2>1 DEF Steps
  <2>3. /\ node'[act[e].node] = node[act[e].node]
        /\ CompletedAttempts(act[e].node)' = CompletedAttempts(act[e].node)
    BY <2>1, <1>1 DEF CompletedAttempts
  <2> QED BY <2>1, <2>2, <2>3 DEF StepOK, Elsewhere
<1>4. ASSUME NEW n \in Nodes, Own(n)
      PROVE  /\ (node[n].attempts <= Retry[n] + 1)'
             /\ (\A e \in Exec : ~At(e, n)') => RestOK(n)'
  <2>1. node[n].attempts <= Retry[n] + 1 /\ ((\A e \in Exec : ~At(e, n)) => RestOK(n))
    BY <1>4 DEF Rows
  <2>2. ASSUME NEW e \in Exec PROVE At(e, n)' <=> At(e, n)
    BY DEF Elsewhere, At
  <2> QED BY <1>1, <1>4, <2>1, <2>2 DEF RestOK, Elsewhere
<1>5. Rows'
  BY <1>4 DEF Rows, Own
<1> QED BY <1>2, <1>3, <1>5 DEF Steps

(* A step inside the action of node n, by the holder of the run mutex.      *)
LEMMA ActionStep ==
  ASSUME TInv, TInv', Mutex, Steps, Rows, NEW e \in Exec, NEW n \in Nodes, pc[e] \in Locked,
         pc[e] \in InAction => act[e].node = n, pc'[e] \in InAction => act'[e].node = n,
         \A d \in Exec : d # e => pc'[d] = pc[d], crashes' = crashes,
         \A m \in Nodes : m # n =>
             node'[m] = node[m] /\ effects'[m] = effects[m] /\ wins'[m] = wins[m],
         Own(n) /\ pc'[e] \in InAction => StepOK(e)',
         Own(n) => (node[n].attempts <= Retry[n] + 1)',
         Own(n) /\ pc'[e] \notin InAction => RestOK(n)'
  PROVE  Steps' /\ Rows'
<1>1. ASSUME NEW d \in Exec, d # e PROVE pc[d] \notin InAction /\ pc'[d] \notin InAction
  BY <1>1 DEF Mutex, InAction, Locked, ExecPCs
<1>2. Steps'
  BY <1>1 DEF Steps, Own
<1>3. ASSUME NEW m \in Nodes, Own(m), m # n
      PROVE  (node[m].attempts <= Retry[m] + 1)' /\ RestOK(m)'
  <2>1. node'[m] = node[m] /\ CompletedAttempts(m)' = CompletedAttempts(m)
    BY <1>3 DEF CompletedAttempts
  <2>2. \A d \in Exec : ~At(d, m)
    BY <1>1, <1>3 DEF At
  <2>3. RestOK(m) /\ node[m].attempts <= Retry[m] + 1
    BY <1>3, <2>2 DEF Rows
  <2> QED BY <1>3, <2>1, <2>3 DEF RestOK
<1>4. (\A d \in Exec : ~At(d, n)') => pc'[e] \notin InAction
  BY DEF At
<1>5. Rows'
  BY <1>3, <1>4 DEF Rows, Own
<1> QED BY <1>2, <1>5

(* What every step of a goroutine past lockRun leaves alone.                *)
LEMMA WalkFrame == ASSUME TInv, NEW e \in Exec, Walk(e)
                   PROVE  /\ \A d \in Exec : d # e => pc'[d] = pc[d] /\ act'[d] = act[d]
                          /\ UNCHANGED <<approval, sig, granted, crashes>>
                          /\ pc[e] \in Locked /\ pc'[e] # "lock"
                          /\ lock' = lock \/ pc'[e] = "idle"
<1> USE DEF TInv, TypeOK, Locked, ExecPCs, durable, callers, counts, history
<1>1. CASE LoadRun(e)
  BY <1>1 DEF LoadRun, Leave
<1>2. CASE EnterState(e) \/ EntryDone(e) \/ Transit(e)
  BY <1>2 DEF EnterState, EntryDone, Transit
<1>3. CASE NextEntry(e)
  BY <1>3 DEF NextEntry
<1>4. CASE CountAttempts(e) \/ NextAttempt(e) \/ FireFailRead(e)
  BY <1>4 DEF CountAttempts, NextAttempt, FireFailRead
<1>5. CASE FireStart(e) \/ FireSucceed(e) \/ FireFail(e)
  BY <1>5 DEF FireStart, FireSucceed, FireFail, EntryFailed
<1>6. CASE Invoke(e) \/ AskPolicy(e) \/ Execute(e)
  BY <1>6 DEF Invoke, AskPolicy, RequestHuman, Execute
<1>7. CASE SaveOutput(e) \/ SaveFailure(e)
  BY <1>7 DEF SaveOutput, SaveFailure
<1>8. CASE ParkRun(e) \/ WaitRun(e) \/ MachineEnded(e) \/ FinishRun(e) \/ FailRun(e)
  BY <1>8 DEF ParkRun, WaitRun, MachineEnded, FinishRun, FailRun, Leave
<1> QED BY <1>1, <1>2, <1>3, <1>4, <1>5, <1>6, <1>7, <1>8 DEF Walk

(* The steps between the actions.                                           *)
Between(e) ==
    \/ LoadRun(e) \/ EnterState(e) \/ EntryDone(e) \/ Transit(e)
    \/ ParkRun(e) \/ WaitRun(e) \/ MachineEnded(e) \/ FinishRun(e) \/ FailRun(e)

LEMMA BetweenElsewhere == ASSUME TInv, NEW e \in Exec, Between(e) PROVE Elsewhere
<1> USE DEF TInv, TypeOK, InAction, durable, counts, history
<1>1. \A d \in Exec : d # e => pc'[d] = pc[d] /\ act'[d] = act[d]
  BY WalkFrame DEF Between, Walk
<1>2. UNCHANGED <<node, effects, wins, crashes>> /\ pc[e] \notin InAction
  BY DEF Between, LoadRun, EnterState, EntryDone, Transit, ParkRun, WaitRun, MachineEnded, FinishRun,
         FailRun
<1>3. CASE LoadRun(e) \/ EnterState(e) \/ EntryDone(e) \/ Transit(e)
  <2>1. pc'[e] \notin InAction
    BY <1>3 DEF LoadRun, EnterState, EntryDone, Transit, Leave
  <2> QED BY <1>1, <1>2, <2>1 DEF Elsewhere
<1>4. CASE ParkRun(e) \/ WaitRun(e) \/ MachineEnded(e) \/ FinishRun(e) \/ FailRun(e)
  <2>1. pc'[e] \notin InAction
    BY <1>4 DEF ParkRun, WaitRun, MachineEnded, FinishRun, FailRun, Leave
  <2> QED BY <1>1, <1>2, <2>1 DEF Elsewhere
<1> QED BY <1>3, <1>4 DEF Between

-----------------------------------------------------------------------------
(* The steps of executeStateAction.                                         *)

Inside == TInv /\ TInv' /\ Mutex /\ HumanIdle /\ Steps /\ Rows

LEMMA StepFacts ==
  ASSUME TInv, HumanIdle, Steps, NEW e \in Exec, pc[e] \in InAction, Own(act[e].node)
  PROVE  /\ StepOK(e) /\ act[e].attempts \in Nat
         /\ effects[act[e].node] \in Nat /\ wins[act[e].node] \in Nat /\ crashes \in Nat
         /\ Retry[act[e].node] \in Nat /\ node[act[e].node].attempts \in Nat
         /\ CompletedAttempts(act[e].node) \in Nat
<1>1. act[e].node \in Nodes
  BY LocalsOf
<1> QED BY <1>1, LocalsOf, RowOf, DefinitionAssumption DEF Steps, TInv, TypeOK

LEMMA NextEntryKeeps == ASSUME Inside, NEW e \in Exec, NextEntry(e) PROVE Steps' /\ Rows'
<1> DEFINE f == frame[e]
<1>1. f \in Frame /\ f.state \in States /\ pc[e] = "entry" /\ f.next <= Len(Entry[f.state])
  BY DEF NextEntry, TInv, TypeOK, Placed, Inside, InAction
<1>2. PICK n \in Nodes : n = Entry[f.state][f.next]
  <2>1. Entry[f.state] \in Seq(Nodes) /\ f.next \in Nat \ {0}
    BY <1>1, DefinitionAssumption DEF Frame
  <2> QED BY <1>1, <2>1
<1>3. UNCHANGED <<node, effects, wins, crashes>>
  BY DEF NextEntry, durable, counts, history
<1>4. \A d \in Exec : d # e => pc'[d] = pc[d] /\ act'[d] = act[d]
  BY WalkFrame DEF Walk, Inside
<1>5. CASE node[n].status \in {"succeeded", "failed"}
  <2>1. pc'[e] \in {"entry", "transit"}
    BY <1>1, <1>2, <1>5 DEF NextEntry, Inside, TInv, TypeOK
  <2>2. Elsewhere
    BY <1>1, <1>3, <1>4, <2>1 DEF Elsewhere, InAction
  <2> QED BY <2>2, ElsewhereKeeps DEF Inside
<1>6. CASE node[n].status \notin {"succeeded", "failed"}
  <2> DEFINE b == [NoAct EXCEPT !.node = n]
  <2>1. act' = [act EXCEPT ![e] = b] /\ pc' = [pc EXCEPT ![e] = "count"]
    BY <1>2, <1>6 DEF NextEntry
  <2>2. act'[e] = b /\ pc'[e] = "count"
    BY <2>1 DEF Inside, TInv, TypeOK
  <2>3. b.node = n /\ b.attempts = 0
    BY DEF NoAct
  <2> HIDE DEF b
  <2>4. \A d \in Exec : pc[d] \notin InAction
    BY <1>1 DEF Inside, Mutex, Locked, InAction, ExecPCs
  <2>5. ASSUME Own(n) PROVE StepOK(e)' /\ (node[n].attempts <= Retry[n] + 1)'
    <3>1. RestOK(n) /\ node[n].attempts <= Retry[n] + 1
      BY <1>2, <2>4, <2>5 DEF Inside, Rows, At
    <3>2. node[n].status \in NodeStatuses /\ CompletedAttempts(n) \in Nat /\ crashes \in Nat
          /\ effects[n] \in Nat /\ wins[n] \in Nat /\ Retry[n] \in Nat
      BY <1>2, RowOf, DefinitionAssumption DEF Inside, TInv, TypeOK
    <3>3. CompletedAttempts(n)' = CompletedAttempts(n)
      BY <1>3 DEF CompletedAttempts
    <3>4. StepOK(e)'
      BY <1>3, <1>6, <2>2, <2>3, <3>1, <3>2, <3>3 DEF StepOK, RestOK, NodeStatuses
    <3> QED BY <3>1, <3>4, <1>3
  <2> QED BY <1>1, <1>2, <1>3, <1>4, <2>2, <2>3, <2>5, ActionStep DEF Inside, Locked, ExecPCs, InAction
<1> QED BY <1>5, <1>6

(* A step inside the action of act[e].node that leaves its rows alone.      *)
LEMMA LocalStep ==
  ASSUME Inside, NEW e \in Exec, Walk(e), pc[e] \in InAction,
         UNCHANGED <<node, effects, wins>>,
         pc'[e] \in InAction => act'[e].node = act[e].node,
         Own(act[e].node) /\ pc'[e] \in InAction => StepOK(e)',
         Own(act[e].node) /\ pc'[e] \notin InAction => RestOK(act[e].node)
  PROVE  Steps' /\ Rows'
<1>1. PICK n \in Nodes : n = act[e].node
  BY LocalsOf DEF Inside
<1>2. /\ \A d \in Exec : d # e => pc'[d] = pc[d]
      /\ UNCHANGED crashes /\ pc[e] \in Locked
  BY WalkFrame DEF Inside
<1>3. Own(n) => (node[n].attempts <= Retry[n] + 1)'
  BY DEF Rows, Inside
<1>4. RestOK(n)' <=> RestOK(n)
  BY <1>2 DEF RestOK, CompletedAttempts
<1> QED BY <1>1, <1>2, <1>3, <1>4, ActionStep DEF Inside

LEMMA CountAttemptsKeeps == ASSUME Inside, NEW e \in Exec, CountAttempts(e) PROVE Steps' /\ Rows'
<1> DEFINE b == [act[e] EXCEPT !.attempts = CompletedAttempts(act[e].node)]
<1>1. pc[e] = "count" /\ act' = [act EXCEPT ![e] = b] /\ pc' = [pc EXCEPT ![e] = "attempt"]
      /\ UNCHANGED <<node, effects, wins, crashes>>
  BY DEF CountAttempts, durable, counts, history
<1>2. pc[e] \in InAction /\ act[e] \in Locals
  BY <1>1, LocalsOf DEF InAction, Inside
<1>3. b.node = act[e].node /\ b.attempts = CompletedAttempts(act[e].node)
  BY <1>2 DEF Locals
<1>4. act'[e] = b /\ pc'[e] = "attempt"
  BY <1>1 DEF Inside, TInv, TypeOK
<1> HIDE DEF b
<1>5. ASSUME Own(act[e].node) PROVE StepOK(e)'
  <2>1. PICK n \in Nodes : n = act[e].node
    BY <1>2, LocalsOf DEF Inside
  <2>2. node[n].attempts <= Retry[n] + 1
    BY <1>5, <2>1 DEF Inside, Rows
  <2>3. /\ StepOK(e)
        /\ effects[n] \in Nat /\ wins[n] \in Nat /\ crashes \in Nat
        /\ Retry[n] \in Nat /\ node[n].attempts \in Nat /\ CompletedAttempts(n) \in Nat
    BY <1>2, <1>5, <2>1, StepFacts DEF Inside
  <2>4. CompletedAttempts(n)' = CompletedAttempts(n) /\ CompletedAttempts(n) <= node[n].attempts
    BY <1>1, <2>3 DEF CompletedAttempts
  <2> QED BY <1>1, <1>3, <1>4, <2>1, <2>2, <2>3, <2>4 DEF StepOK
<1> QED BY <1>1, <1>2, <1>3, <1>4, <1>5, LocalStep DEF Walk, InAction

LEMMA NextAttemptKeeps == ASSUME Inside, NEW e \in Exec, NextAttempt(e) PROVE Steps' /\ Rows'
<1> DEFINE b == [act[e] EXCEPT !.attempts = act[e].attempts + 1, !.seen = node[act[e].node].status]
<1>1. pc[e] = "attempt" /\ UNCHANGED <<node, effects, wins, crashes>>
  BY DEF NextAttempt, durable, counts, history
<1>2. pc[e] \in InAction /\ act[e] \in Locals
  BY <1>1, LocalsOf DEF InAction, Inside
<1>3. PICK n \in Nodes : n = act[e].node
  BY <1>2, LocalsOf DEF Inside
<1>4. CompletedAttempts(n)' = CompletedAttempts(n)
  BY <1>1 DEF CompletedAttempts
<1>5. Own(n) => /\ StepOK(e) /\ act[e].attempts \in Nat
                /\ effects[n] \in Nat /\ wins[n] \in Nat /\ crashes \in Nat
                /\ Retry[n] \in Nat /\ node[n].attempts \in Nat /\ CompletedAttempts(n) \in Nat
  BY <1>2, <1>3, StepFacts DEF Inside
<1>6. CASE act[e].attempts < Retry[n] + 1
  <2>1. act' = [act EXCEPT ![e] = b] /\ pc' = [pc EXCEPT ![e] = "start"]
    BY <1>3, <1>6 DEF NextAttempt
  <2>2. b.node = n /\ b.attempts = act[e].attempts + 1 /\ b.seen = node[n].status
    BY <1>2, <1>3 DEF Locals
  <2>3. act'[e] = b /\ pc'[e] = "start"
    BY <2>1 DEF Inside, TInv, TypeOK
  <2> HIDE DEF b
  <2>4. ASSUME Own(n) PROVE StepOK(e)'
    BY <1>1, <1>3, <1>4, <1>5, <1>6, <2>2, <2>3, <2>4 DEF StepOK
  <2> QED BY <1>1, <1>2, <1>3, <2>2, <2>3, <2>4, LocalStep DEF Walk, InAction
<1>7. CASE ~(act[e].attempts < Retry[n] + 1)
  <2>1. act' = act /\ pc'[e] = "exhausted"
    BY <1>3, <1>7 DEF NextAttempt, Inside, TInv, TypeOK
  <2>2. ASSUME Own(n) PROVE StepOK(e)'
    BY <1>1, <1>3, <1>4, <1>5, <1>7, <2>1, <2>2 DEF StepOK
  <2> QED BY <1>1, <1>2, <1>3, <2>1, <2>2, LocalStep DEF Walk, InAction
<1> QED BY <1>6, <1>7

LEMMA SaveKeeps == ASSUME Inside, NEW e \in Exec, SaveOutput(e) \/ SaveFailure(e)
                   PROVE  Steps' /\ Rows'
<1>1. UNCHANGED <<node, act, effects, wins, crashes>>
  BY DEF SaveOutput, SaveFailure, counts, history
<1>2. \/ pc[e] = "save" /\ pc'[e] = "succeed"
      \/ pc[e] = "exhausted" /\ pc'[e] = "failread"
  BY DEF SaveOutput, SaveFailure, Inside, TInv, TypeOK
<1>3. PICK n \in Nodes : n = act[e].node
  BY <1>2, LocalsOf DEF Inside, InAction
<1>4. CompletedAttempts(n)' = CompletedAttempts(n)
  BY <1>1 DEF CompletedAttempts
<1>5. ASSUME Own(n) PROVE StepOK(e)'
  <2>1. StepOK(e)
    BY <1>2, <1>3, <1>5, StepFacts DEF Inside, InAction
  <2> QED BY <1>1, <1>2, <1>3, <1>4, <2>1 DEF StepOK
<1> QED BY <1>1, <1>2, <1>3, <1>5, LocalStep DEF Walk, InAction

LEMMA FireFailReadKeeps == ASSUME Inside, NEW e \in Exec, FireFailRead(e) PROVE Steps' /\ Rows'
<1> DEFINE b == [act[e] EXCEPT !.seen = node[act[e].node].status]
<1>1. pc[e] = "failread" /\ act' = [act EXCEPT ![e] = b] /\ pc' = [pc EXCEPT ![e] = "fail"]
      /\ UNCHANGED <<node, effects, wins, crashes>>
  BY DEF FireFailRead, durable, counts, history
<1>2. pc[e] \in InAction /\ act[e] \in Locals
  BY <1>1, LocalsOf DEF InAction, Inside
<1>3. PICK n \in Nodes : n = act[e].node
  BY <1>2, LocalsOf DEF Inside
<1>4. b.node = n /\ b.attempts = act[e].attempts /\ b.seen = node[n].status
  BY <1>2, <1>3 DEF Locals
<1>5. act'[e] = b /\ pc'[e] = "fail" /\ CompletedAttempts(n)' = CompletedAttempts(n)
  BY <1>1 DEF Inside, TInv, TypeOK, CompletedAttempts
<1> HIDE DEF b
<1>6. ASSUME Own(n) PROVE StepOK(e)'
  <2>1. StepOK(e)
    BY <1>2, <1>3, <1>6, StepFacts DEF Inside
  <2> QED BY <1>1, <1>3, <1>4, <1>5, <2>1 DEF StepOK
<1> QED BY <1>1, <1>2, <1>3, <1>4, <1>5, <1>6, LocalStep DEF Walk, InAction

LEMMA InvokeKeeps == ASSUME Inside, NEW e \in Exec, Invoke(e) \/ AskPolicy(e)
                     PROVE  Steps' /\ Rows'
<1>1. pc[e] \in {"invoke", "ask"} /\ UNCHANGED <<node, act, effects, wins, crashes>>
  BY DEF Invoke, AskPolicy, counts, history
<1>2. pc'[e] \in {"attempt", "park", "ask", "act"}
  BY DEF Invoke, AskPolicy, RequestHuman, Inside, TInv, TypeOK
<1>3. PICK n \in Nodes : n = act[e].node
  BY <1>1, LocalsOf DEF Inside, InAction
<1>4. Own(n) => /\ StepOK(e) /\ act[e].attempts \in Nat
                /\ effects[n] \in Nat /\ wins[n] \in Nat /\ crashes \in Nat
                /\ Retry[n] \in Nat /\ node[n].attempts \in Nat /\ CompletedAttempts(n) \in Nat
  BY <1>1, <1>3, StepFacts DEF Inside, InAction
<1>5. Own(n) /\ pc'[e] \in InAction => StepOK(e)'
  BY <1>1, <1>2, <1>3, <1>4 DEF StepOK, CompletedAttempts, InAction
<1>6. Own(n) => RestOK(n)
  BY <1>1, <1>3, <1>4 DEF StepOK, RestOK, CompletedAttempts
<1> QED BY <1>1, <1>2, <1>3, <1>5, <1>6, LocalStep DEF Walk, InAction

LEMMA FireStartKeeps == ASSUME Inside, NEW e \in Exec, FireStart(e) PROVE Steps' /\ Rows'
<1>1. pc[e] = "start" /\ UNCHANGED <<effects, wins, crashes>>
  BY DEF FireStart, counts, history
<1>2. PICK n \in Nodes : n = act[e].node
  BY <1>1, LocalsOf DEF Inside, InAction
<1>3. \A d \in Exec : d # e => pc'[d] = pc[d]
  BY WalkFrame DEF Walk, Inside
<1>4. node[n] \in NodeRow /\ act[e].attempts \in Nat
  BY <1>1, <1>2, LocalsOf, RowOf DEF Inside, InAction
<1>5. Own(n) => /\ StepOK(e) /\ act[e].attempts \in Nat
                /\ effects[n] \in Nat /\ wins[n] \in Nat /\ crashes \in Nat
                /\ Retry[n] \in Nat /\ node[n].attempts \in Nat /\ CompletedAttempts(n) \in Nat
  BY <1>1, <1>2, StepFacts DEF Inside, InAction
<1>6. CASE act[e].seen \in {"pending", "running"}
  <2> DEFINE r == [node[n] EXCEPT !.status = "running", !.attempts = act[e].attempts]
  <2>1. node' = [node EXCEPT ![n] = r] /\ pc' = [pc EXCEPT ![e] = "invoke"] /\ act' = act
    BY <1>2, <1>6 DEF FireStart
  <2>2. r.status = "running" /\ r.attempts = act[e].attempts
    BY <1>4 DEF NodeRow
  <2>3. node'[n] = r /\ pc'[e] = "invoke" /\ \A m \in Nodes : m # n => node'[m] = node[m]
    BY <2>1 DEF Inside, TInv, TypeOK
  <2> HIDE DEF r
  <2>4. ASSUME Own(n) PROVE StepOK(e)' /\ (node[n].attempts <= Retry[n] + 1)'
    BY <1>1, <1>2, <1>5, <2>1, <2>2, <2>3, <2>4 DEF StepOK
  <2> QED BY <1>1, <1>2, <1>3, <2>1, <2>3, <2>4, ActionStep DEF Inside, Locked, ExecPCs, InAction
<1>7. CASE act[e].seen \notin {"pending", "running"}
  <2>1. ~Own(n)
    BY <1>1, <1>2, <1>5, <1>7 DEF StepOK
  <2>2. UNCHANGED node /\ pc'[e] = "transit"
    BY <1>7 DEF FireStart, EntryFailed, Inside, TInv, TypeOK
  <2> QED BY <1>1, <1>2, <1>3, <2>1, <2>2, ActionStep DEF Inside, Locked, ExecPCs, InAction
<1> QED BY <1>6, <1>7

LEMMA ExecuteKeeps == ASSUME Inside, NEW e \in Exec, Execute(e) PROVE Steps' /\ Rows'
<1>1. pc[e] = "act" /\ UNCHANGED <<node, crashes>>
  BY DEF Execute, durable, counts
<1>2. PICK n \in Nodes : n = act[e].node
  BY <1>1, LocalsOf DEF Inside, InAction
<1>3. \A d \in Exec : d # e => pc'[d] = pc[d]
  BY WalkFrame DEF Walk, Inside
<1>4. act[e] \in Locals /\ Own(n) /\ pc[e] \in InAction
  BY <1>1, <1>2, LocalsOf DEF Inside, InAction, HumanIdle
<1>5. /\ StepOK(e) /\ act[e].attempts \in Nat
      /\ effects[n] \in Nat /\ wins[n] \in Nat /\ crashes \in Nat
      /\ Retry[n] \in Nat /\ node[n].attempts \in Nat
  BY <1>2, <1>4, StepFacts DEF Inside
<1>6. /\ effects'[n] = effects[n] + 1
      /\ \A m \in Nodes : m # n => effects'[m] = effects[m] /\ wins'[m] = wins[m]
  BY <1>2 DEF Execute, Inside, TInv, TypeOK
<1>7. /\ act'[e].node = n /\ act'[e].attempts = act[e].attempts
      /\ \/ pc'[e] = "save" /\ wins'[n] = wins[n] + 1
         \/ pc'[e] = "attempt" /\ wins'[n] = wins[n]
  <2>1. CASE UNCHANGED act
    BY <1>2, <2>1 DEF Execute, Inside, TInv, TypeOK
  <2>2. ASSUME NEW t \in Suggests[n], act' = [act EXCEPT ![e].result = t],
               wins' = [wins EXCEPT ![n] = wins[n] + 1], pc' = [pc EXCEPT ![e] = "save"]
        PROVE  /\ act'[e].node = n /\ act'[e].attempts = act[e].attempts
               /\ pc'[e] = "save" /\ wins'[n] = wins[n] + 1
    <3>1. act'[e] = [act[e] EXCEPT !.result = t]
      BY <2>2 DEF Inside, TInv, TypeOK
    <3> QED BY <1>2, <1>4, <2>2, <3>1 DEF Inside, TInv, TypeOK, Locals
  <2> QED BY <1>2, <2>1, <2>2 DEF Execute, Inside, TInv, TypeOK
<1>8. StepOK(e)'
  BY <1>1, <1>2, <1>5, <1>6, <1>7 DEF StepOK
<1>9. (node[n].attempts <= Retry[n] + 1)'
  BY <1>1, <1>4 DEF Inside, Rows
<1> QED BY <1>1, <1>2, <1>3, <1>4, <1>6, <1>7, <1>8, <1>9, ActionStep
        DEF Inside, Locked, ExecPCs, InAction

LEMMA FireSucceedKeeps == ASSUME Inside, NEW e \in Exec, FireSucceed(e) PROVE Steps' /\ Rows'
<1>1. pc[e] = "succeed" /\ UNCHANGED <<effects, wins, crashes>>
  BY DEF FireSucceed, counts, history
<1>2. PICK n \in Nodes : n = act[e].node
  BY <1>1, LocalsOf DEF Inside, InAction
<1>3. \A d \in Exec : d # e => pc'[d] = pc[d]
  BY WalkFrame DEF Walk, Inside
<1>4. Own(n)
  BY <1>1, <1>2 DEF Inside, HumanIdle
<1>5. /\ StepOK(e) /\ act[e].attempts \in Nat
      /\ effects[n] \in Nat /\ wins[n] \in Nat /\ crashes \in Nat
      /\ Retry[n] \in Nat /\ node[n].attempts \in Nat
  BY <1>1, <1>2, <1>4, StepFacts DEF Inside, InAction
<1> DEFINE r == [status |-> "succeeded", trigger |-> act[e].result, attempts |-> act[e].attempts]
<1>6. node' = [node EXCEPT ![n] = r] /\ pc' = [pc EXCEPT ![e] = "entry"]
  BY <1>1, <1>2, <1>5 DEF FireSucceed, StepOK
<1>7. r.status = "succeeded" /\ r.attempts = act[e].attempts
  OBVIOUS
<1> HIDE DEF r
<1>8. node'[n] = r /\ pc'[e] = "entry" /\ \A m \in Nodes : m # n => node'[m] = node[m]
  BY <1>6 DEF Inside, TInv, TypeOK
<1>9. RestOK(n)' /\ (node[n].attempts <= Retry[n] + 1)'
  BY <1>1, <1>2, <1>5, <1>7, <1>8 DEF StepOK, RestOK, CompletedAttempts
<1> QED BY <1>1, <1>2, <1>3, <1>8, <1>9, ActionStep DEF Inside, Locked, ExecPCs, InAction

LEMMA FireFailKeeps == ASSUME Inside, NEW e \in Exec, FireFail(e) PROVE Steps' /\ Rows'
<1>1. pc[e] = "fail" /\ UNCHANGED <<effects, wins, crashes>>
  BY DEF FireFail, counts, history
<1>2. PICK n \in Nodes : n = act[e].node
  BY <1>1, LocalsOf DEF Inside, InAction
<1>3. \A d \in Exec : d # e => pc'[d] = pc[d]
  BY WalkFrame DEF Walk, Inside
<1>4. pc'[e] = "transit" /\ \A m \in Nodes : m # n => node'[m] = node[m]
  BY <1>2 DEF FireFail, EntryFailed, Inside, TInv, TypeOK
<1>5. Own(n) => /\ StepOK(e) /\ act[e].attempts \in Nat
                /\ effects[n] \in Nat /\ wins[n] \in Nat /\ crashes \in Nat
                /\ Retry[n] \in Nat /\ node[n].attempts \in Nat /\ CompletedAttempts(n) \in Nat
  BY <1>1, <1>2, StepFacts DEF Inside, InAction
<1>6. ASSUME Own(n) PROVE RestOK(n)' /\ (node[n].attempts <= Retry[n] + 1)'
  <2> DEFINE r == [node[n] EXCEPT !.status = "failed", !.attempts = act[e].attempts]
  <2>1. CASE act[e].seen = "running"
    <3>1. node' = [node EXCEPT ![n] = r]
      BY <1>2, <2>1 DEF FireFail
    <3>2. r.status = "failed" /\ r.attempts = act[e].attempts
      BY RowOf DEF NodeRow, Inside
    <3>3. node'[n] = r
      BY <3>1 DEF Inside, TInv, TypeOK
    <3> HIDE DEF r
    <3> QED BY <1>1, <1>2, <1>5, <1>6, <3>2, <3>3 DEF StepOK, RestOK, CompletedAttempts
  <2>2. CASE act[e].seen # "running"
    <3>1. node' = node
      BY <2>2 DEF FireFail
    <3>2. node[n].attempts <= Retry[n] + 1
      BY <1>6 DEF Inside, Rows
    <3> QED BY <1>1, <1>2, <1>5, <1>6, <2>2, <3>1, <3>2 DEF StepOK, RestOK, CompletedAttempts
  <2> QED BY <2>1, <2>2
<1> QED BY <1>1, <1>2, <1>3, <1>4, <1>6, ActionStep DEF Inside, Locked, ExecPCs, InAction

LEMMA WalkKeeps == ASSUME Inside, NEW e \in Exec, Walk(e) PROVE Steps' /\ Rows'
<1>1. CASE Between(e)
  BY <1>1, BetweenElsewhere, ElsewhereKeeps DEF Inside
<1> QED BY <1>1, NextEntryKeeps, CountAttemptsKeeps, NextAttemptKeeps, FireStartKeeps, InvokeKeeps,
           ExecuteKeeps, SaveKeeps, FireSucceedKeeps, FireFailReadKeeps, FireFailKeeps
        DEF Walk, Between

LEMMA WalkHumanIdle == ASSUME TInv, HumanIdle, NEW e \in Exec, Walk(e) PROVE HumanIdle'
<1> USE DEF HumanIdle, TInv, TypeOK, Own
<1>0. \A d \in Exec : d # e => pc'[d] = pc[d] /\ act'[d] = act[d]
  BY WalkFrame
<1>1. CASE Between(e)
  BY <1>1, BetweenElsewhere DEF Elsewhere, InAction
<1>2. CASE NextEntry(e) \/ CountAttempts(e) \/ NextAttempt(e) \/ FireStart(e) \/ SaveFailure(e)
           \/ FireSucceed(e) \/ FireFailRead(e) \/ FireFail(e)
  <2>1. pc'[e] \notin {"act", "save", "succeed"}
    BY <1>2, ZenonT(40) DEF NextEntry, CountAttempts, NextAttempt, FireStart, SaveFailure, FireSucceed,
                FireFailRead, FireFail, EntryFailed
  <2>2. UNCHANGED <<effects, wins>>
    BY <1>2 DEF NextEntry, CountAttempts, NextAttempt, FireStart, SaveFailure, FireSucceed,
                FireFailRead, FireFail, history
  <2> QED BY <1>0, <2>1, <2>2
<1>3. CASE Invoke(e) \/ AskPolicy(e)
  <2>1. pc'[e] \in {"act", "save", "succeed"} => Own(act[e].node)
    BY <1>3 DEF Invoke, AskPolicy, RequestHuman
  <2>2. UNCHANGED <<act, effects, wins>>
    BY <1>3 DEF Invoke, AskPolicy, history
  <2> QED BY <1>0, <2>1, <2>2
<1>4. CASE Execute(e)
  <2>1. Own(act[e].node) /\ act[e] \in Locals
    BY <1>4 DEF Execute
  <2>2. \A m \in Nodes : m # act[e].node => effects'[m] = effects[m] /\ wins'[m] = wins[m]
    BY <1>4 DEF Execute
  <2>3. act'[e].node = act[e].node
    <3>1. CASE UNCHANGED act
      BY <3>1
    <3>2. ASSUME NEW t, act' = [act EXCEPT ![e].result = t] PROVE act'[e].node = act[e].node
      <4>1. act'[e] = [act[e] EXCEPT !.result = t]
        BY <3>2
      <4> QED BY <2>1, <4>1 DEF Locals
    <3> QED BY <1>4, <3>1, <3>2 DEF Execute
  <2> QED BY <1>0, <2>1, <2>2, <2>3, ZenonT(40)
<1>5. CASE SaveOutput(e)
  BY <1>5 DEF SaveOutput, history
<1> QED BY <1>1, <1>2, <1>3, <1>4, <1>5 DEF Walk, Between

(* A crash ends every action where it stands; its attempt is the one that   *)
(* the budgets grant for the crash.                                         *)
LEMMA CrashKeeps == ASSUME TInv, Mutex, HumanIdle, Steps, Rows, Crash PROVE HumanIdle' /\ Steps' /\ Rows'
<1> USE DEF durable, history
<1>1. /\ UNCHANGED <<node, effects, wins>> /\ crashes' = crashes + 1
      /\ \A e \in Exec : pc'[e] = "idle"
  BY DEF Crash
<1>2. HumanIdle' /\ Steps'
  BY <1>1 DEF HumanIdle, Steps, InAction, Own
<1>3. ASSUME NEW n \in Nodes, Own(n) PROVE (node[n].attempts <= Retry[n] + 1)' /\ RestOK(n)'
  <2>1. node[n].attempts <= Retry[n] + 1
    BY <1>3 DEF Rows
  <2>2. CompletedAttempts(n)' = CompletedAttempts(n) /\ CompletedAttempts(n) \in Nat
    BY <1>1, RowOf DEF CompletedAttempts
  <2>3. crashes \in Nat /\ effects[n] \in Nat /\ wins[n] \in Nat /\ node[n].attempts \in Nat
    BY RowOf DEF TInv, TypeOK
  <2>4. CASE \A e \in Exec : ~At(e, n)
    <3>1. RestOK(n)
      BY <1>3, <2>4 DEF Rows
    <3> QED BY <1>1, <2>1, <2>2, <2>3, <3>1 DEF RestOK
  <2>5. ASSUME NEW e \in Exec, At(e, n) PROVE RestOK(n)'
    <3>1. StepOK(e) /\ act[e].attempts \in Nat /\ pc[e] \in InAction /\ act[e].node = n
      BY <1>3, <2>5, StepFacts DEF At
    <3>2. effects[n] <= CompletedAttempts(n) + crashes + 1
      BY <2>3, <3>1 DEF StepOK, CompletedAttempts, InAction
    <3>3. wins[n] <= crashes + 1
      BY <2>3, <3>1 DEF StepOK
    <3> QED BY <1>1, <2>2, <2>3, <3>2, <3>3, <3>1 DEF RestOK, StepOK
  <2> QED BY <1>1, <2>1, <2>4, <2>5
<1>4. Rows'
  BY <1>3 DEF Rows, Own
<1> QED BY <1>2, <1>4

-----------------------------------------------------------------------------
(* The steps outside of any goroutine.                                      *)

LEMMA CallElsewhere == ASSUME TInv, Asked, NEW g \in Sig, SignalBegin(g) \/ Signal(g) PROVE Elsewhere
<1> USE DEF TInv, TypeOK, durable, counts, history
<1>1. CASE SignalBegin(g) \/ SignalList(g) \/ SignalClose(g) \/ SignalSave(g) \/ SignalFireRead(g)
           \/ SignalRunning(g)
  BY <1>1 DEF SignalBegin, SignalList, SignalClose, SignalSave, SignalFireRead, SignalRunning, Elsewhere
<1>2. CASE SignalFire(g)
  <2>1. sig[g].items \in Seq(Item) /\ sig[g].items # <<>> /\ ~Head(sig[g].items).policy
    BY <1>2, CallOf DEF SignalFire, Asked, Placed
  <2>4. 1 \in 1..Len(sig[g].items) /\ Head(sig[g].items) = sig[g].items[1]
    BY <2>1
  <2>2. ~Own(Head(sig[g].items).node)
    BY <2>1, <2>4 DEF Asked, HumanItems, Own
  <2>3. \A n \in Nodes : Own(n) => node'[n] = node[n]
    BY <1>2, <2>2 DEF SignalFire
  <2> QED BY <1>2, <2>3 DEF SignalFire, Elsewhere
<1>3. CASE SignalSpawn(g)
  BY <1>3 DEF SignalSpawn, Spawn, Elsewhere, InAction
<1> QED BY <1>1, <1>2, <1>3 DEF Signal

LEMMA OtherElsewhere ==
  ASSUME TInv, \/ StartRunbook \/ StartSpawn \/ CancelRead \/ CancelWrite \/ Open \/ ReloadDefinitions
               \/ (\E e \in Exec : LockRun(e)) \/ UNCHANGED vars
  PROVE  Elsewhere
<1> USE DEF TInv, TypeOK, InAction, Elsewhere, durable, callers, counts, history
<1>1. CASE StartRunbook \/ StartSpawn
  BY <1>1 DEF StartRunbook, StartSpawn, Spawn
<1>2. CASE CancelRead \/ CancelWrite \/ ReloadDefinitions \/ UNCHANGED vars
  BY <1>2 DEF CancelRead, CancelWrite, ReloadDefinitions, vars
<1>3. CASE Open
  BY <1>3 DEF Open, Spawn
<1>4. ASSUME NEW e \in Exec, LockRun(e) PROVE Elsewhere
  BY <1>4 DEF LockRun
<1> QED BY <1>1, <1>2, <1>3, <1>4

LEMMA NextMutex == ASSUME TInv, Mutex, [Next]_vars PROVE Mutex'
<1> USE BoundsAssumption DEF Mutex, TInv, TypeOK, Locked, durable, callers, counts, history
<1>1. ASSUME NEW e \in Exec, LockRun(e) PROVE Mutex'
  BY <1>1 DEF LockRun
<1>2. ASSUME NEW e \in Exec, Walk(e) PROVE Mutex'
  <2>1. /\ \A d \in Exec : d # e => pc'[d] = pc[d]
        /\ pc[e] \in Locked /\ (lock' = lock \/ pc'[e] = "idle")
    BY <1>2, WalkFrame
  <2> QED BY <2>1
<1>3. ASSUME Spawn, UNCHANGED lock PROVE Mutex'
  BY <1>3 DEF Spawn
<1>4. CASE StartRunbook \/ StartSpawn \/ Open \/ CancelRead \/ CancelWrite \/ ReloadDefinitions
           \/ UNCHANGED vars
  BY <1>3, <1>4 DEF StartRunbook, StartSpawn, Open, CancelRead, CancelWrite, ReloadDefinitions, vars
<1>5. ASSUME NEW g \in Sig, SignalBegin(g) \/ Signal(g) PROVE Mutex'
  BY <1>3, <1>5 DEF SignalBegin, Signal, SignalList, SignalClose, SignalSave, SignalFireRead,
                    SignalFire, SignalRunning, SignalSpawn
<1>6. CASE Crash
  BY <1>6 DEF Crash
<1> QED BY <1>1, <1>2, <1>4, <1>5, <1>6 DEF Next

LEMMA HumanItemsKept ==
  ASSUME NEW s \in Seq(Item), HumanItems(s)
  PROVE  /\ HumanItems(<<>>)
         /\ s # <<>> => HumanItems(Tail(s))
         /\ \A i \in Item : i.policy \/ Kind[i.node] = "human" => HumanItems(Append(s, i))
<1>1. s # <<>> => \A k \in 1..Len(Tail(s)) : k + 1 \in 1..Len(s) /\ Tail(s)[k] = s[k + 1]
  OBVIOUS
<1>2. s # <<>> => HumanItems(Tail(s))
  BY <1>1 DEF HumanItems
<1>3. ASSUME NEW i \in Item, i.policy \/ Kind[i.node] = "human" PROVE HumanItems(Append(s, i))
  <2>1. \A k \in 1..Len(Append(s, i)) : Append(s, i)[k] = i \/ (k \in 1..Len(s) /\ Append(s, i)[k] = s[k])
    OBVIOUS
  <2> QED BY <1>3, <2>1 DEF HumanItems
<1>4. HumanItems(<<>>)
  BY DEF HumanItems
<1> QED BY <1>2, <1>3, <1>4

LEMMA InvokeAsked == ASSUME TInv, Asked, NEW e \in Exec, Invoke(e) \/ AskPolicy(e) PROVE Asked'
<1>1. act[e].node \in Nodes /\ open \in Seq(Item) /\ UNCHANGED sig
  BY LocalsOf DEF Invoke, AskPolicy, InAction, TInv, TypeOK, callers
<1>2. ASSUME NEW q \in BOOLEAN, RequestHuman(e, q), q \/ Kind[act[e].node] = "human"
      PROVE  HumanItems(open)'
  <2> DEFINE i == [node |-> act[e].node, policy |-> q]
  <2>1. i \in Item /\ (i.policy \/ Kind[i.node] = "human") /\ open' = Append(open, i)
    BY <1>1, <1>2 DEF RequestHuman, Item
  <2> HIDE DEF i
  <2>2. HumanItems(Append(open, i))
    BY <1>1, <2>1, HumanItemsKept DEF Asked
  <2> QED BY <2>1, <2>2 DEF HumanItems
<1>3. HumanItems(open)'
  <2>1. CASE UNCHANGED open
    BY <2>1 DEF Asked, HumanItems
  <2> QED BY <1>2, <2>1 DEF Invoke, AskPolicy
<1> QED BY <1>1, <1>3 DEF Asked, HumanItems

LEMMA CallAsked == ASSUME TInv, Asked, NEW g \in Sig, SignalBegin(g) \/ Signal(g) PROVE Asked'
<1> DEFINE s == sig[g]
<1>1. /\ s \in SignalCall /\ s.items \in Seq(Item) /\ open \in Seq(Item)
      /\ HumanItems(s.items) /\ HumanItems(open) /\ HumanItems(<<>>)
      /\ s.items # <<>> => HumanItems(Tail(s.items))
      /\ s.pc \in {"read", "fire"} => ~Head(s.items).policy
  BY CallOf, HumanItemsKept DEF Asked, TInv, TypeOK
<1>2. ASSUME NEW c, sig' = [sig EXCEPT ![g] = c], HumanItems(c.items), HumanItems(open'),
             c.pc \in {"read", "fire"} => ~Head(c.items).policy
      PROVE  Asked'
  <2>1. sig'[g] = c /\ \A h \in Sig : h # g => sig'[h] = sig[h]
    BY <1>2 DEF TInv, TypeOK
  <2> QED BY <1>2, <2>1 DEF Asked, HumanItems
<1>3. CASE SignalBegin(g)
  <2>1. PICK a \in Answers : sig' = [sig EXCEPT ![g] =
                               [NoSig EXCEPT !.pc = "list", !.state = run.state, !.answer = a]]
    BY <1>3 DEF SignalBegin
  <2> DEFINE c == [NoSig EXCEPT !.pc = "list", !.state = run.state, !.answer = a]
  <2>2. c.items = <<>> /\ c.pc = "list" /\ open' = open
    BY <1>3 DEF NoSig, SignalBegin, durable
  <2> HIDE DEF c
  <2>3. sig' = [sig EXCEPT ![g] = c]
    BY <2>1 DEF c
  <2> QED BY <1>1, <1>2, <2>2, <2>3
<1>4. CASE SignalList(g)
  <2> DEFINE c == [s EXCEPT !.pc = "close", !.items = open]
  <2>1. c.items = open /\ c.pc = "close" /\ open' = open /\ sig' = [sig EXCEPT ![g] = c]
    BY <1>1, <1>4 DEF SignalCall, SignalList, durable
  <2> HIDE DEF c
  <2> QED BY <1>1, <1>2, <2>1
<1>5. CASE SignalClose(g)
  <2> DEFINE c == [s EXCEPT !.pc = "apply"]
  <2>1. c.items = s.items /\ c.pc = "apply" /\ open' = <<>> /\ sig' = [sig EXCEPT ![g] = c]
    BY <1>1, <1>5 DEF SignalCall, SignalClose
  <2> HIDE DEF c, s
  <2> QED BY <1>1, <1>2, <2>1
<1>6. CASE SignalSave(g)
  <2> DEFINE b == [s EXCEPT !.items = Tail(s.items)]
             k == IF CompletedAttempts(Head(s.items).node) = 0 THEN 1
                  ELSE CompletedAttempts(Head(s.items).node)
             c == [s EXCEPT !.pc = "read", !.attempts = k]
  <2>1. s.items # <<>> /\ s.pc = "apply" /\ open' = open
    BY <1>6 DEF SignalSave
  <2>2. CASE Head(s.items).policy
    <3>1. b.items = Tail(s.items) /\ b.pc = "apply" /\ sig' = [sig EXCEPT ![g] = b]
      BY <1>1, <1>6, <2>1, <2>2 DEF SignalCall, SignalSave
    <3> HIDE DEF b, s
    <3> QED BY <1>1, <1>2, <2>1, <3>1
  <2>3. CASE ~Head(s.items).policy
    <3>1. c.items = s.items /\ c.pc = "read" /\ sig' = [sig EXCEPT ![g] = c]
      BY <1>1, <1>6, <2>1, <2>3 DEF SignalCall, SignalSave
    <3> HIDE DEF c, s
    <3> QED BY <1>1, <1>2, <2>1, <2>3, <3>1
  <2> QED BY <2>2, <2>3
<1>7. CASE SignalFireRead(g)
  <2> DEFINE c == [s EXCEPT !.pc = "fire", !.seen = node[Head(s.items).node].status]
  <2>1. /\ c.items = s.items /\ c.pc = "fire" /\ s.pc = "read" /\ open' = open
        /\ sig' = [sig EXCEPT ![g] = c]
    BY <1>1, <1>7 DEF SignalCall, SignalFireRead, durable
  <2> HIDE DEF c, s
  <2> QED BY <1>1, <1>2, <2>1
<1>8. CASE SignalFire(g)
  <2> DEFINE c == [s EXCEPT !.pc = "apply", !.items = Tail(s.items)]
  <2>1. open' = open /\ s.items # <<>>
    BY <1>8 DEF SignalFire, TInv, Placed
  <2>2. CASE s.seen = "running"
    <3>1. c.items = Tail(s.items) /\ c.pc = "apply" /\ sig' = [sig EXCEPT ![g] = c]
      BY <1>1, <1>8, <2>2 DEF SignalCall, SignalFire
    <3> HIDE DEF c, s
    <3> QED BY <1>1, <1>2, <2>1, <3>1
  <2>3. CASE s.seen # "running"
    <3>1. NoSig.items = <<>> /\ NoSig.pc = "idle" /\ sig' = [sig EXCEPT ![g] = NoSig]
      BY <1>8, <2>3 DEF NoSig, SignalFire
    <3> QED BY <1>1, <1>2, <2>1, <3>1
  <2> QED BY <2>2, <2>3
<1>9. CASE SignalRunning(g)
  <2> DEFINE c == [s EXCEPT !.pc = "spawn"]
  <2>1. c.items = s.items /\ c.pc = "spawn" /\ open' = open /\ sig' = [sig EXCEPT ![g] = c]
    BY <1>1, <1>9 DEF SignalCall, SignalRunning
  <2> HIDE DEF c, s
  <2> QED BY <1>1, <1>2, <2>1
<1>10. CASE SignalSpawn(g)
  <2>1. /\ NoSig.items = <<>> /\ NoSig.pc = "idle" /\ open' = open
        /\ sig' = [sig EXCEPT ![g] = NoSig]
    BY <1>10 DEF NoSig, SignalSpawn, durable
  <2> QED BY <1>1, <1>2, <2>1
<1> QED BY <1>3, <1>4, <1>5, <1>6, <1>7, <1>8, <1>9, <1>10 DEF Signal

LEMMA NextAsked == ASSUME TInv, Asked, [Next]_vars PROVE Asked'
<1> USE DEF durable, callers, counts, history
<1>1. ASSUME UNCHANGED <<open, sig>> PROVE Asked'
  BY <1>1 DEF Asked, HumanItems
<1>2. ASSUME NEW e \in Exec, Walk(e), ~Invoke(e), ~AskPolicy(e) PROVE UNCHANGED <<open, sig>>
  BY <1>2 DEF Walk, LoadRun, EnterState, NextEntry, EntryDone, Transit, CountAttempts, NextAttempt,
              FireStart, Execute, SaveOutput, FireSucceed, SaveFailure, FireFailRead, FireFail,
              ParkRun, WaitRun, MachineEnded, FinishRun, FailRun
<1>3. CASE StartRunbook \/ StartSpawn \/ Open \/ CancelRead \/ CancelWrite \/ ReloadDefinitions
           \/ UNCHANGED vars \/ (\E e \in Exec : LockRun(e))
  BY <1>1, <1>3 DEF StartRunbook, StartSpawn, Open, CancelRead, CancelWrite, ReloadDefinitions, vars,
                    LockRun
<1>4. CASE Crash
  BY <1>4 DEF Crash, Asked, HumanItems, NoSig
<1> QED BY <1>1, <1>2, <1>3, <1>4, InvokeAsked, CallAsked DEF Next

-----------------------------------------------------------------------------
(* Approvals.                                                               *)

LEMMA InvokeApprovals == ASSUME TInv, Approvals, NEW e \in Exec, Invoke(e) PROVE Approvals'
<1>1. UNCHANGED <<act, approval, effects, granted>> /\ act[e].node \in Nodes
      /\ \A d \in Exec : d # e => pc'[d] = pc[d]
  BY WalkFrame, LocalsOf DEF Invoke, Walk, InAction, history
<1>2. pc'[e] = "act" /\ Kind[act[e].node] = "gated" => act[e].node \in granted
  <2>1. pc'[e] = "act" /\ Kind[act[e].node] = "gated" => PolicyApprovalGranted(act[e].node)
    BY DEF Invoke, RequestHuman, TInv, TypeOK
  <2> QED BY <1>1, <2>1 DEF PolicyApprovalGranted, Approvals
<1> QED BY <1>1, <1>2 DEF Approvals

LEMMA ExecuteApprovals == ASSUME TInv, Approvals, NEW e \in Exec, Execute(e) PROVE Approvals'
<1>1. /\ UNCHANGED <<approval, granted>> /\ pc[e] = "act" /\ pc'[e] # "act"
      /\ \A d \in Exec : d # e => pc'[d] = pc[d] /\ act'[d] = act[d]
  BY WalkFrame DEF Execute, Walk, TInv, TypeOK, durable
<1>2. \A m \in Nodes : m # act[e].node => effects'[m] = effects[m]
  BY DEF Execute, TInv, TypeOK
<1>3. Kind[act[e].node] = "gated" => act[e].node \in granted
  BY <1>1 DEF Approvals
<1> QED BY <1>1, <1>2, <1>3 DEF Approvals

LEMMA WalkApprovals == ASSUME TInv, Approvals, NEW e \in Exec, Walk(e) PROVE Approvals'
<1>1. \A d \in Exec : d # e => pc'[d] = pc[d] /\ act'[d] = act[d]
  BY WalkFrame
<1>2. UNCHANGED <<approval, granted>>
  BY WalkFrame
<1>3. ASSUME ~Invoke(e), ~Execute(e) PROVE UNCHANGED effects /\ pc'[e] # "act"
  <2>1. UNCHANGED effects
    BY <1>3 DEF Walk, LoadRun, EnterState, NextEntry, EntryDone, Transit, CountAttempts, NextAttempt,
                FireStart, AskPolicy, SaveOutput, FireSucceed, SaveFailure, FireFailRead, FireFail,
                ParkRun, WaitRun, MachineEnded, FinishRun, FailRun, history
  <2>2. ASSUME Between(e) PROVE pc'[e] # "act"
    <3>1. pc[e] # "act"
      BY <2>2 DEF Between, LoadRun, EnterState, EntryDone, Transit, ParkRun, WaitRun, MachineEnded,
                  FinishRun, FailRun
    <3> QED BY <2>2, <3>1, BetweenElsewhere DEF Elsewhere, InAction
  <2>3. ASSUME NextEntry(e) \/ AskPolicy(e) \/ SaveOutput(e) \/ SaveFailure(e) PROVE pc'[e] # "act"
    BY <2>3 DEF NextEntry, AskPolicy, RequestHuman, SaveOutput, SaveFailure, TInv, TypeOK
  <2>4. ASSUME CountAttempts(e) \/ NextAttempt(e) \/ FireFailRead(e) PROVE pc'[e] # "act"
    BY <2>4 DEF CountAttempts, NextAttempt, FireFailRead, TInv, TypeOK
  <2>5. ASSUME FireStart(e) \/ FireSucceed(e) \/ FireFail(e) PROVE pc'[e] # "act"
    BY <2>5 DEF FireStart, FireSucceed, FireFail, EntryFailed, TInv, TypeOK
  <2> QED BY <1>3, <2>1, <2>2, <2>3, <2>4, <2>5 DEF Walk, Between
<1>4. CASE ~Invoke(e) /\ ~Execute(e)
  BY <1>1, <1>2, <1>3, <1>4 DEF Approvals
<1> QED BY <1>4, InvokeApprovals, ExecuteApprovals

LEMMA CallApprovals == ASSUME TInv, Approvals, NEW g \in Sig, SignalBegin(g) \/ Signal(g)
                       PROVE  Approvals'
<1> USE DEF TInv, TypeOK, Approvals, durable, counts, history
<1>1. CASE SignalSave(g)
  <2>1. UNCHANGED <<pc, act, effects>> /\ granted \subseteq granted'
    BY <1>1 DEF SignalSave
  <2>2. \A n \in Nodes : approval'[n] = "yes" => n \in granted'
    BY <1>1 DEF SignalSave
  <2> QED BY <2>1, <2>2
<1>2. CASE SignalSpawn(g)
  BY <1>2 DEF SignalSpawn, Spawn
<1>3. CASE SignalBegin(g) \/ SignalList(g) \/ SignalClose(g) \/ SignalFireRead(g) \/ SignalFire(g)
           \/ SignalRunning(g)
  BY <1>3 DEF SignalBegin, SignalList, SignalClose, SignalFireRead, SignalFire, SignalRunning
<1> QED BY <1>1, <1>2, <1>3 DEF Signal

LEMMA NextApprovals == ASSUME TInv, Approvals, [Next]_vars PROVE Approvals'
<1> USE DEF TInv, TypeOK, Approvals, durable, callers, counts, history
<1>1. CASE StartRunbook \/ CancelRead \/ CancelWrite \/ ReloadDefinitions \/ UNCHANGED vars
  BY <1>1 DEF StartRunbook, CancelRead, CancelWrite, ReloadDefinitions, vars
<1>2. CASE StartSpawn \/ Open \/ (\E e \in Exec : LockRun(e))
  BY <1>2 DEF StartSpawn, Open, Spawn, LockRun
<1>3. CASE Crash
  BY <1>3 DEF Crash
<1> QED BY <1>1, <1>2, <1>3, WalkApprovals, CallApprovals DEF Next

-----------------------------------------------------------------------------
(* The inductive invariant.                                                 *)

LEMMA InitIInv == Init => IInv
<1> SUFFICES ASSUME Init PROVE IInv
  OBVIOUS
<1>1. TInv
  BY InitTInv
<1>2. Mutex /\ HumanIdle /\ Steps /\ Approvals /\ Asked
  BY DEF Init, Mutex, HumanIdle, Steps, Approvals, Asked, HumanItems, Locked, InAction, NoSig
<1>3. ASSUME NEW n \in Nodes PROVE node[n].attempts <= Retry[n] + 1 /\ RestOK(n)
  BY DefinitionAssumption DEF Init, RestOK, CompletedAttempts
<1> QED BY <1>1, <1>2, <1>3 DEF IInv, Rows

LEMMA NextIInv == IInv /\ [Next]_vars => IInv'
<1> SUFFICES ASSUME IInv, [Next]_vars PROVE IInv'
  OBVIOUS
<1> USE DEF IInv
<1>1. TInv' /\ Mutex' /\ Asked' /\ Approvals'
  BY NextTInv, NextMutex, NextAsked, NextApprovals
<1>2. HumanIdle' /\ Steps' /\ Rows'
  <2>1. ASSUME NEW e \in Exec, Walk(e) PROVE HumanIdle' /\ Steps' /\ Rows'
    BY <1>1, <2>1, WalkHumanIdle, WalkKeeps DEF Inside
  <2>2. CASE Elsewhere
    BY <2>2, ElsewhereKeeps
  <2> QED BY <2>1, <2>2, CrashKeeps, CallElsewhere, OtherElsewhere DEF Next
<1> QED BY <1>1, <1>2

LEMMA Invariant == Spec => []IInv
  BY InitIInv, NextIInv, PTL DEF Spec

-----------------------------------------------------------------------------
(* What follows from it.                                                    *)

LEMMA RowsBound == ASSUME IInv, NEW n \in Nodes
                   PROVE  effects[n] <= Retry[n] + 1 + crashes /\ wins[n] <= 1 + crashes
<1>1. /\ effects[n] \in Nat /\ wins[n] \in Nat /\ crashes \in Nat /\ Retry[n] \in Nat
      /\ node[n].attempts \in Nat /\ CompletedAttempts(n) <= node[n].attempts
  BY RowOf, DefinitionAssumption DEF IInv, TInv, TypeOK, CompletedAttempts
<1>2. CASE ~Own(n)
  BY <1>1, <1>2 DEF IInv, HumanIdle
<1>3. ASSUME Own(n), NEW e \in Exec, At(e, n)
      PROVE  effects[n] <= Retry[n] + 1 + crashes /\ wins[n] <= 1 + crashes
  <2>1. StepOK(e) /\ act[e].attempts \in Nat /\ pc[e] \in InAction /\ act[e].node = n
    BY <1>3, StepFacts DEF IInv, At
  <2>2. node[n].attempts <= Retry[n] + 1 /\ CompletedAttempts(n) \in Nat
    BY <1>3, RowOf DEF IInv, Rows
  <2> QED BY <1>1, <2>1, <2>2 DEF StepOK, InAction
<1>4. CASE Own(n) /\ \A e \in Exec : ~At(e, n)
  <2>1. node[n].attempts <= Retry[n] + 1 /\ RestOK(n) /\ CompletedAttempts(n) \in Nat
    BY <1>4, RowOf DEF IInv, Rows
  <2> QED BY <1>1, <2>1 DEF RestOK
<1> QED BY <1>2, <1>3, <1>4

(* However many goroutines signals and restarts spawn for a run, an entry   *)
(* action is executed at most Retry + 1 times, plus once per crash.         *)
THEOREM EffectsWithinBudget == Spec => []EffectBudget
<1>1. IInv => EffectBudget
  BY RowsBound DEF EffectBudget
<1> QED BY <1>1, Invariant, PTL

(* An entry action that succeeded is executed again only after a crash.     *)
THEOREM NoSuccessRepeated == Spec => []NoDuplicateSuccess
<1>1. IInv => NoDuplicateSuccess
  BY RowsBound DEF NoDuplicateSuccess
<1> QED BY <1>1, Invariant, PTL

\* What executeEntryAction does to the world is bounded for every definition and any
\* number of goroutines, signals and crashes: attempts, and successes, are never spent twice.
THEOREM EffectsBounded == Spec => []EffectsAreBounded
<1> QED BY EffectsWithinBudget, NoSuccessRepeated, PTL DEF EffectsAreBounded

(* The policy gate of executeStateActionAttempt holds across resumes: an    *)
(* action that needs approval has no effect before somebody gave it.        *)
THEOREM ApprovedBeforeEffect == Spec => []ApprovalFirst
<1>1. IInv => ApprovalFirst
  BY DEF IInv, Approvals, ApprovalFirst
<1> QED BY <1>1, Invariant, PTL

-----------------------------------------------------------------------------
(* RunbookRun implements NodeLifecycle.                                     *)

LEMMA Stutter == ASSUME UNCHANGED <<effects, wins>>,
                        \A n \in Nodes : Own(n) => node'[n].status = node[n].status
                 PROVE  UNCHANGED Lifecycle!vars
  BY DEF Lifecycle!vars, OwnNodes, Own

LEMMA StartRefines == ASSUME IInv, NEW e \in Exec, FireStart(e)
                      PROVE  [Lifecycle!Next]_(Lifecycle!vars)
<1>1. pc[e] = "start" /\ UNCHANGED <<effects, wins>>
  BY DEF FireStart, history
<1>2. PICK n \in Nodes : n = act[e].node
  BY <1>1, LocalsOf DEF IInv, InAction
<1>3. CASE act[e].seen \in {"pending", "running"}
  <2> DEFINE r == [node[n] EXCEPT !.status = "running", !.attempts = act[e].attempts]
  <2>1. node' = [node EXCEPT ![n] = r]
    BY <1>2, <1>3 DEF FireStart
  <2>2. r.status = "running"
    BY RowOf DEF NodeRow, IInv
  <2> HIDE DEF r
  <2>3. node'[n].status = "running" /\ \A m \in Nodes : m # n => node'[m] = node[m]
    BY <2>1, <2>2 DEF IInv, TInv, TypeOK
  <2>4. CASE Own(n)
    <3>1. node[n].status \in {"pending", "running"}
      BY <1>1, <1>2, <2>4, StepFacts DEF IInv, InAction, StepOK
    <3>2. n \in OwnNodes /\ Lifecycle!Start(n)
      BY <1>1, <2>3, <2>4, <3>1 DEF Lifecycle!Start, OwnNodes, Own
    <3> QED BY <3>2 DEF Lifecycle!Next
  <2>5. CASE ~Own(n)
    BY <1>1, <2>3, <2>5, Stutter
  <2> QED BY <2>4, <2>5
<1>4. CASE act[e].seen \notin {"pending", "running"}
  BY <1>1, <1>4, Stutter DEF FireStart
<1> QED BY <1>3, <1>4

LEMMA ExecuteRefines == ASSUME IInv, NEW e \in Exec, Execute(e)
                        PROVE  [Lifecycle!Next]_(Lifecycle!vars)
<1>1. pc[e] = "act" /\ UNCHANGED node
  BY DEF Execute, durable
<1>2. PICK n \in Nodes : n = act[e].node
  BY <1>1, LocalsOf DEF IInv, InAction
<1>3. Own(n)
  BY <1>1, <1>2 DEF IInv, HumanIdle
<1>4. node[n].status = "running" /\ n \in OwnNodes
  BY <1>1, <1>2, <1>3, StepFacts DEF IInv, InAction, StepOK, OwnNodes, Own
<1>5. /\ effects' = [effects EXCEPT ![n] = effects[n] + 1]
      /\ wins' = wins \/ wins' = [wins EXCEPT ![n] = wins[n] + 1]
  BY <1>2 DEF Execute
<1>6. effects \in [Nodes -> Nat] /\ wins \in [Nodes -> Nat]
  BY DEF IInv, TInv, TypeOK
<1>7. Lifecycle!Execute(n)
  BY <1>1, <1>4, <1>5, <1>6 DEF Lifecycle!Execute, OwnNodes
<1> QED BY <1>4, <1>7 DEF Lifecycle!Next

LEMMA SucceedRefines == ASSUME IInv, NEW e \in Exec, FireSucceed(e)
                        PROVE  [Lifecycle!Next]_(Lifecycle!vars)
<1>1. pc[e] = "succeed" /\ UNCHANGED <<effects, wins>>
  BY DEF FireSucceed, history
<1>2. PICK n \in Nodes : n = act[e].node
  BY <1>1, LocalsOf DEF IInv, InAction
<1>3. Own(n)
  BY <1>1, <1>2 DEF IInv, HumanIdle
<1>4. node[n].status = "running" /\ wins[n] > 0 /\ n \in OwnNodes
  BY <1>1, <1>2, <1>3, StepFacts DEF IInv, InAction, StepOK, OwnNodes, Own
<1>5. node'[n].status = "succeeded" /\ \A m \in Nodes : m # n => node'[m] = node[m]
  BY <1>2, <1>4 DEF FireSucceed, IInv, TInv, TypeOK
<1>6. Lifecycle!Succeed(n)
  BY <1>1, <1>4, <1>5 DEF Lifecycle!Succeed, OwnNodes
<1> QED BY <1>4, <1>6 DEF Lifecycle!Next

LEMMA FailRefines == ASSUME IInv, NEW e \in Exec, FireFail(e)
                     PROVE  [Lifecycle!Next]_(Lifecycle!vars)
<1>1. pc[e] = "fail" /\ UNCHANGED <<effects, wins>>
  BY DEF FireFail, history
<1>2. PICK n \in Nodes : n = act[e].node
  BY <1>1, LocalsOf DEF IInv, InAction
<1>3. CASE act[e].seen = "running"
  <2> DEFINE r == [node[n] EXCEPT !.status = "failed", !.attempts = act[e].attempts]
  <2>1. node' = [node EXCEPT ![n] = r]
    BY <1>2, <1>3 DEF FireFail
  <2>2. r.status = "failed"
    BY RowOf DEF NodeRow, IInv
  <2> HIDE DEF r
  <2>3. node'[n].status = "failed" /\ \A m \in Nodes : m # n => node'[m] = node[m]
    BY <2>1, <2>2 DEF IInv, TInv, TypeOK
  <2>4. CASE Own(n)
    <3>1. node[n].status = "running"
      BY <1>1, <1>2, <1>3, <2>4, StepFacts DEF IInv, InAction, StepOK
    <3>2. n \in OwnNodes /\ Lifecycle!Fail(n)
      BY <1>1, <2>3, <2>4, <3>1 DEF Lifecycle!Fail, OwnNodes, Own
    <3> QED BY <3>2 DEF Lifecycle!Next
  <2>5. CASE ~Own(n)
    BY <1>1, <2>3, <2>5, Stutter
  <2> QED BY <2>4, <2>5
<1>4. CASE act[e].seen # "running"
  BY <1>1, <1>4, Stutter DEF FireFail
<1> QED BY <1>3, <1>4

LEMMA StepRefines == IInv /\ [Next]_vars => [Lifecycle!Next]_(Lifecycle!vars)
<1> SUFFICES ASSUME IInv, [Next]_vars PROVE [Lifecycle!Next]_(Lifecycle!vars)
  OBVIOUS
<1>1. CASE Elsewhere
  BY <1>1, Stutter DEF Elsewhere
<1>2. ASSUME NEW e \in Exec, Walk(e) PROVE [Lifecycle!Next]_(Lifecycle!vars)
  <2>1. CASE Between(e)
    BY <1>1, <2>1, BetweenElsewhere DEF IInv
  <2>2. CASE NextEntry(e) \/ CountAttempts(e) \/ NextAttempt(e) \/ Invoke(e) \/ AskPolicy(e)
             \/ SaveOutput(e) \/ SaveFailure(e) \/ FireFailRead(e)
    <3>1. UNCHANGED <<node, effects, wins>>
      BY <2>2 DEF NextEntry, CountAttempts, NextAttempt, Invoke, AskPolicy, SaveOutput, SaveFailure,
                  FireFailRead, durable, history
    <3> QED BY <3>1, Stutter
  <2> QED BY <1>2, <2>1, <2>2, StartRefines, ExecuteRefines, SucceedRefines, FailRefines
          DEF Walk, Between
<1>3. CASE Crash
  BY <1>3, Stutter DEF Crash, durable, history
<1> QED BY <1>1, <1>2, <1>3, CallElsewhere, OtherElsewhere DEF Next, IInv

(* RunbookRun implements NodeLifecycle: whatever goroutines, signals,       *)
(* cancels, crashes and reloads do, the durable rows of the nodes that the  *)
(* runtime executes follow the lifecycle of fireNodeStateTrigger, their     *)
(* actions run only while they are running, and success has been earned.    *)
THEOREM ImplementsLifecycle == Spec => NodesFollowLifecycle
<1>1. Init => Lifecycle!Init
  BY DEF Init, Lifecycle!Init, OwnNodes
<1> QED BY <1>1, StepRefines, Invariant, PTL DEF Spec, NodesFollowLifecycle, Lifecycle!Spec
=============================================================================
