------------------------- MODULE RunbookRun_proofs -------------------------
(***************************************************************************)
(* Theorems about RunbookRun, for every runbook definition, every number   *)
(* of goroutines, signals, cancels, crashes and reloads.                   *)
(***************************************************************************)
EXTENDS RunbookRun, TLAPS

(* Where goroutines and signals stand: what TypeOK needs to be inductive.   *)
Placed ==
    /\ \A e \in Exec :
          /\ pc[e] \in InAction \cup {"enter", "entry", "transit"} => frame[e].state \in States
          /\ pc[e] = "transit" => frame[e].trigger \in Triggers
          /\ pc[e] \in InAction => act[e].node \in Nodes
    /\ \A g \in Sig : sig[g].pc \in {"read", "fire"} => sig[g].items # <<>>

TInv == TypeOK /\ Placed

LEMMA Blank == NoFrame \in Frame /\ NoAct \in Locals /\ NoSig \in SignalCall
  BY DefinitionAssumption DEF NoFrame, NoAct, NoSig, Frame, Locals, SignalCall, Trigger, StateWord,
                              NodeStatuses, Answers

LEMMA InitTInv == Init => TInv
<1> SUFFICES ASSUME Init PROVE TInv
  OBVIOUS
<1> USE DefinitionAssumption, BoundsAssumption DEF Init
<1>2. run \in [status : RunStatuses, state : StateWord] /\ node \in [Nodes -> NodeRow]
  BY DEF RunStatuses, StateWord, NodeRow, NodeStatuses, Trigger
<1>3. cancel \in [pc : {"idle", "write"}, state : StateWord]
  BY DEF NoCancel, StateWord
<1>4. TypeOK
  BY Blank, <1>2, <1>3 DEF TypeOK, ExecPCs
<1>5. Placed
  BY DEF Placed, InAction, NoSig
<1> QED BY <1>4, <1>5 DEF TInv

LEMMA WalkLeave ==
  ASSUME TInv, NEW e \in Exec, Leave(e)
  PROVE  /\ frame' \in [Exec -> Frame] /\ act' \in [Exec -> Locals]
         /\ lock' \in Exec \cup {None} /\ pc' \in [Exec -> ExecPCs]
         /\ sig' = sig => Placed'
<1>1. frame' \in [Exec -> Frame] /\ act' \in [Exec -> Locals]
  BY Blank DEF Leave, TInv, TypeOK
<1>2. lock' \in Exec \cup {None} /\ pc' \in [Exec -> ExecPCs]
  BY DEF Leave, TInv, TypeOK, ExecPCs
<1>3. ASSUME sig' = sig PROVE Placed'
  BY <1>3 DEF Leave, TInv, TypeOK, Placed, InAction
<1> QED BY <1>1, <1>2, <1>3

LEMMA LoadRunTInv == ASSUME TInv, NEW e \in Exec, LoadRun(e) PROVE TInv'
<1> USE DefinitionAssumption DEF durable, callers, counts, history
<1>1. CASE run.status \in {"canceled", "succeeded"}
  <2>1. Leave(e) /\ UNCHANGED <<durable, up, loaded, callers, counts, history>>
    BY <1>1 DEF LoadRun
  <2> QED BY <2>1, WalkLeave DEF TInv, TypeOK
<1>2. CASE run.status \notin {"canceled", "succeeded"}
  <2> DEFINE f == [NoFrame EXCEPT !.state = InitialState, !.seen = run.state]
  <2>1. /\ pc' = [pc EXCEPT ![e] = IF loaded THEN "enter" ELSE "error"]
        /\ frame' = [frame EXCEPT ![e] = f]
        /\ UNCHANGED <<durable, up, loaded, callers, counts, history, lock, act>>
    BY <1>2 DEF LoadRun
  <2>2. run.state \in StateWord
    BY DEF TInv, TypeOK
  <2>5. f \in Frame /\ f.state \in States
    BY <2>2, Blank DEF Frame
  <2> HIDE DEF f
  <2>3. TypeOK'
    BY <2>1, <2>5 DEF TInv, TypeOK, ExecPCs
  <2>4. Placed'
    BY <2>1, <2>5 DEF TInv, TypeOK, Placed, InAction
  <2> QED BY <2>3, <2>4 DEF TInv
<1> QED BY <1>1, <1>2

LEMMA EnterStateTInv == ASSUME TInv, NEW e \in Exec, EnterState(e) PROVE TInv'
<1> USE DefinitionAssumption DEF durable, callers, counts, history
<1>1. CASE frame[e].depth > MaxDepth
  <2>1. TypeOK'
    BY <1>1 DEF EnterState, TInv, TypeOK, ExecPCs
  <2>2. Placed'
    BY <1>1 DEF EnterState, TInv, TypeOK, Placed, InAction
  <2> QED BY <2>1, <2>2 DEF TInv
<1>2. CASE ~(frame[e].depth > MaxDepth)
  <2> DEFINE f == [frame[e] EXCEPT !.next = 1, !.trigger = NoTrigger]
  <2>1. /\ pc' = [pc EXCEPT ![e] = "entry"]
        /\ frame' = [frame EXCEPT ![e] = f]
        /\ run' = [status |-> "running", state |-> frame[e].state]
        /\ UNCHANGED <<node, output, approval, open, up, loaded, callers, counts, history, lock, act>>
    BY <1>2, ZenonT(40) DEF EnterState
  <2>2. frame[e] \in Frame /\ frame[e].state \in States
    BY DEF EnterState, TInv, TypeOK, Placed
  <2>7. 1 \in Nat \ {0} /\ NoTrigger \in Trigger
    BY DEF Trigger
  <2>3. f \in Frame /\ f.state \in States
    BY <2>2, <2>7 DEF Frame
  <2>4. run' \in [status : RunStatuses, state : StateWord]
    BY <2>1, <2>2 DEF RunStatuses, StateWord
  <2> HIDE DEF f
  <2>5. TypeOK'
    BY <2>1, <2>3, <2>4 DEF TInv, TypeOK, ExecPCs
  <2>6. Placed'
    BY <2>1, <2>3 DEF TInv, TypeOK, Placed, InAction
  <2> QED BY <2>5, <2>6 DEF TInv
<1> QED BY <1>1, <1>2

(* A step that sets the position of one goroutine, and its next step.       *)
LEMMA MoveTInv ==
  ASSUME TInv, NEW e \in Exec, NEW f \in Frame, NEW p \in ExecPCs,
         frame' = [frame EXCEPT ![e] = f], pc' = [pc EXCEPT ![e] = p],
         p \in InAction \cup {"enter", "entry", "transit"} => f.state \in States,
         p = "transit" => f.trigger \in Triggers,
         p \in InAction => act[e].node \in Nodes,
         UNCHANGED <<act, sig>>
  PROVE  frame' \in [Exec -> Frame] /\ pc' \in [Exec -> ExecPCs] /\ Placed'
<1>1. frame' \in [Exec -> Frame] /\ pc' \in [Exec -> ExecPCs]
  BY DEF TInv, TypeOK
<1>2. Placed'
  BY DEF TInv, TypeOK, Placed
<1> QED BY <1>1, <1>2

LEMMA NextEntryTInv == ASSUME TInv, NEW e \in Exec, NextEntry(e) PROVE TInv'
<1> USE DefinitionAssumption DEF durable, callers, counts, history
<1> DEFINE f == frame[e]
           n == Entry[f.state][f.next]
           t == IF node[n].trigger = NoTrigger THEN f.trigger ELSE node[n].trigger
           g == [f EXCEPT !.next = f.next + 1, !.trigger = t]
           h == [f EXCEPT !.trigger = "failed"]
<1>1. f \in Frame /\ f.state \in States /\ pc[e] = "entry"
  BY DEF NextEntry, TInv, TypeOK, Placed
<1>2. f.next \in Nat \ {0} /\ f.next <= Len(Entry[f.state])
  BY <1>1 DEF NextEntry, Frame
<1>3. Entry[f.state] \in Seq(Nodes)
  BY <1>1
<1>4. n \in Nodes
  BY <1>2, <1>3
<1>5. node[n] \in NodeRow
  BY <1>4 DEF TInv, TypeOK
<1>6. CASE node[n].status = "succeeded"
  <2>1. frame' = [frame EXCEPT ![e] = g] /\ UNCHANGED pc
    BY <1>6 DEF NextEntry
  <2>2. t \in Trigger
    BY <1>1, <1>5 DEF Frame, NodeRow
  <2>6. f.next + 1 \in Nat \ {0}
    BY <1>2
  <2>3. g \in Frame /\ g.state = f.state
    BY <1>1, <2>6, <2>2 DEF Frame
  <2>4. pc' = [pc EXCEPT ![e] = "entry"] /\ "entry" \in ExecPCs /\ UNCHANGED <<act, sig>>
    BY <2>1, <1>1, <1>6, ZenonT(40) DEF NextEntry, TInv, TypeOK, ExecPCs
  <2> HIDE DEF g, f
  <2>5. frame' \in [Exec -> Frame] /\ pc' \in [Exec -> ExecPCs] /\ Placed'
    BY <1>1, <2>1, <2>3, <2>4, MoveTInv DEF InAction
  <2> QED BY <2>4, <2>5 DEF NextEntry, TInv, TypeOK
<1>7. CASE node[n].status = "failed"
  <2>1. frame' = [frame EXCEPT ![e] = h] /\ pc' = [pc EXCEPT ![e] = "transit"]
        /\ UNCHANGED <<act, sig>>
    BY <1>7 DEF NextEntry
  <2>2. h \in Frame /\ h.state = f.state /\ h.trigger \in Triggers
    BY <1>1 DEF Frame, Trigger
  <2> HIDE DEF h, f
  <2>3. frame' \in [Exec -> Frame] /\ pc' \in [Exec -> ExecPCs] /\ Placed'
    BY <1>1, <2>1, <2>2, MoveTInv DEF InAction, ExecPCs
  <2> QED BY <2>1, <2>3 DEF NextEntry, TInv, TypeOK
<1>8. CASE node[n].status \notin {"succeeded", "failed"}
  <2> DEFINE b == [NoAct EXCEPT !.node = n]
  <2>1. act' = [act EXCEPT ![e] = b] /\ pc' = [pc EXCEPT ![e] = "count"]
        /\ UNCHANGED <<frame, sig>>
    BY <1>8 DEF NextEntry
  <2>2. b \in Locals /\ b.node \in Nodes
    BY <1>4, Blank DEF Locals
  <2> HIDE DEF b, n
  <2>3. TypeOK'
    BY <2>1, <2>2 DEF NextEntry, TInv, TypeOK, ExecPCs
  <2>4. Placed'
    BY <1>1, <2>1, <2>2 DEF TInv, TypeOK, Placed, InAction
  <2> QED BY <2>3, <2>4 DEF TInv
<1> QED BY <1>6, <1>7, <1>8

LEMMA EntryDoneTInv == ASSUME TInv, NEW e \in Exec, EntryDone(e) PROVE TInv'
<1> USE DefinitionAssumption DEF durable, callers, counts, history
<1> DEFINE f == frame[e]
           t == IF f.trigger = NoTrigger THEN "succeeded" ELSE f.trigger
           l == [state |-> f.state, depth |-> f.depth]
           g == [f EXCEPT !.state = Child[f.state], !.depth = f.depth + 1,
                          !.stack = Append(f.stack, l)]
           h == [f EXCEPT !.trigger = t]
<1>1. f \in Frame /\ f.state \in States /\ UNCHANGED <<act, sig>>
  BY DEF EntryDone, TInv, TypeOK, Placed
<1>2. CASE Child[f.state] # NoState
  <2>1. frame' = [frame EXCEPT ![e] = g] /\ pc' = [pc EXCEPT ![e] = "enter"]
    BY <1>2 DEF EntryDone
  <2>2. Append(f.stack, l) \in Seq(Level) /\ Child[f.state] \in States
    BY <1>1, <1>2 DEF Frame, Level
  <2>7. f.depth + 1 \in Nat
    BY <1>1 DEF Frame
  <2>3. g \in Frame /\ g.state \in States
    BY <1>1, <2>2, <2>7 DEF Frame
  <2> HIDE DEF g, f
  <2>4. frame' \in [Exec -> Frame] /\ pc' \in [Exec -> ExecPCs] /\ Placed'
    BY <1>1, <2>1, <2>3, MoveTInv DEF InAction, ExecPCs
  <2> QED BY <2>4 DEF EntryDone, TInv, TypeOK
<1>3. CASE Child[f.state] = NoState
  <2>1. frame' = [frame EXCEPT ![e] = h] /\ pc' = [pc EXCEPT ![e] = "transit"]
    BY <1>3 DEF EntryDone
  <2>2. t \in Triggers
    BY <1>1 DEF Frame, Trigger
  <2>3. h \in Frame /\ h.state = f.state /\ h.trigger \in Triggers
    BY <1>1, <2>2 DEF Frame, Trigger
  <2> HIDE DEF h, f
  <2>4. frame' \in [Exec -> Frame] /\ pc' \in [Exec -> ExecPCs] /\ Placed'
    BY <1>1, <2>1, <2>3, MoveTInv DEF InAction, ExecPCs
  <2> QED BY <2>4 DEF EntryDone, TInv, TypeOK
<1> QED BY <1>2, <1>3

LEMMA TransitTInv == ASSUME TInv, NEW e \in Exec, Transit(e) PROVE TInv'
<1> USE DefinitionAssumption DEF durable, callers, counts, history
<1> DEFINE f == frame[e]
           target == Goto[f.state][f.trigger]
           top == f.stack[Len(f.stack)]
           g == [f EXCEPT !.state = target, !.depth = f.depth + 1]
           rest == SubSeq(f.stack, 1, Len(f.stack) - 1)
           h == [f EXCEPT !.state = top.state, !.depth = top.depth, !.stack = rest]
<1>1. f \in Frame /\ f.state \in States /\ f.trigger \in Triggers /\ UNCHANGED <<act, sig>>
      /\ pc[e] = "transit"
  BY DEF Transit, TInv, TypeOK, Placed
<1>2. CASE target # NoState
  <2>1. frame' = [frame EXCEPT ![e] = g] /\ pc' = [pc EXCEPT ![e] = "enter"]
    BY <1>2, ZenonT(40) DEF Transit
  <2>2. target \in States
    BY <1>1, <1>2
  <2>7. f.depth + 1 \in Nat
    BY <1>1 DEF Frame
  <2>3. g \in Frame /\ g.state \in States
    BY <1>1, <2>2, <2>7 DEF Frame
  <2> HIDE DEF g, f
  <2>4. frame' \in [Exec -> Frame] /\ pc' \in [Exec -> ExecPCs] /\ Placed'
    BY <1>1, <2>1, <2>3, MoveTInv DEF InAction, ExecPCs
  <2> QED BY <2>4 DEF Transit, TInv, TypeOK
<1>3. CASE target = NoState /\ f.stack # <<>>
  <2>1. frame' = [frame EXCEPT ![e] = h] /\ UNCHANGED pc
    BY <1>3, ZenonT(40) DEF Transit
  <2>2. f.stack \in Seq(Level)
    BY <1>1 DEF Frame
  <2>3. top \in Level /\ rest \in Seq(Level)
    BY <1>3, <2>2
  <2>4. h \in Frame /\ h.state \in States /\ h.trigger = f.trigger
    BY <1>1, <2>3 DEF Frame, Level
  <2>5. pc' = [pc EXCEPT ![e] = "transit"]
    BY <1>1, <2>1 DEF TInv, TypeOK
  <2> HIDE DEF h, f
  <2>6. frame' \in [Exec -> Frame] /\ pc' \in [Exec -> ExecPCs] /\ Placed'
    BY <1>1, <2>1, <2>4, <2>5, MoveTInv DEF InAction, ExecPCs
  <2> QED BY <2>6 DEF Transit, TInv, TypeOK
<1>4. CASE target = NoState /\ f.stack = <<>>
  <2>1. /\ pc' = [pc EXCEPT ![e] = IF f.trigger = "succeeded" THEN "ended" ELSE "error"]
        /\ UNCHANGED frame
    BY <1>4 DEF Transit
  <2>2. TypeOK'
    BY <2>1 DEF Transit, TInv, TypeOK, ExecPCs
  <2>3. Placed'
    BY <1>1, <2>1 DEF TInv, TypeOK, Placed, InAction
  <2> QED BY <2>2, <2>3 DEF TInv
<1> QED BY <1>2, <1>3, <1>4

(* An action step that only moves the locals of one goroutine.              *)
LEMMA ActTInv ==
  ASSUME TInv, NEW e \in Exec, NEW b \in Locals, NEW p \in InAction, pc[e] \in InAction,
         b.node \in Nodes, act' = [act EXCEPT ![e] = b], pc' = [pc EXCEPT ![e] = p],
         UNCHANGED <<frame, sig>>
  PROVE  act' \in [Exec -> Locals] /\ pc' \in [Exec -> ExecPCs] /\ Placed'
<1>1. act' \in [Exec -> Locals] /\ pc' \in [Exec -> ExecPCs]
  BY DEF TInv, TypeOK, InAction, ExecPCs
<1>2. Placed'
  BY DEF TInv, TypeOK, Placed, InAction
<1> QED BY <1>1, <1>2

LEMMA LocalsOf == ASSUME TInv, NEW e \in Exec, pc[e] \in InAction
                  PROVE /\ act[e] \in Locals /\ act[e].node \in Nodes
                        /\ act[e].attempts \in Nat /\ act[e].seen \in NodeStatuses
                        /\ act[e].result \in Trigger
                        /\ frame[e] \in Frame /\ frame[e].state \in States
<1>1. act[e] \in Locals /\ act[e].node \in Nodes /\ frame[e] \in Frame /\ frame[e].state \in States
  BY DEF TInv, TypeOK, Placed
<1> QED BY <1>1 DEF Locals

LEMMA RowOf == ASSUME TInv, NEW n \in Nodes
               PROVE /\ node[n] \in NodeRow /\ node[n].status \in NodeStatuses
                     /\ node[n].attempts \in Nat /\ node[n].trigger \in Trigger
                     /\ CompletedAttempts(n) \in Nat
<1>1. node[n] \in NodeRow
  BY DEF TInv, TypeOK
<1>2. node[n].status \in NodeStatuses /\ node[n].attempts \in Nat /\ node[n].trigger \in Trigger
  BY <1>1 DEF NodeRow
<1>3. CompletedAttempts(n) \in Nat
  BY <1>2 DEF CompletedAttempts
<1> QED BY <1>1, <1>2, <1>3

LEMMA CountAttemptsTInv == ASSUME TInv, NEW e \in Exec, CountAttempts(e) PROVE TInv'
<1> DEFINE b == [act[e] EXCEPT !.attempts = CompletedAttempts(act[e].node)]
<1>1. pc[e] \in InAction
  BY DEF CountAttempts, InAction
<1>2. b \in Locals /\ b.node \in Nodes
  BY <1>1, LocalsOf, RowOf DEF Locals
<1>3. act' = [act EXCEPT ![e] = b] /\ pc' = [pc EXCEPT ![e] = "attempt"] /\ UNCHANGED <<frame, sig>>
  BY DEF CountAttempts, callers
<1> HIDE DEF b
<1>4. act' \in [Exec -> Locals] /\ pc' \in [Exec -> ExecPCs] /\ Placed'
  BY <1>1, <1>2, <1>3, ActTInv DEF InAction
<1> QED BY <1>4 DEF CountAttempts, TInv, TypeOK, durable, callers, counts, history

LEMMA NextAttemptTInv == ASSUME TInv, NEW e \in Exec, NextAttempt(e) PROVE TInv'
<1> USE DefinitionAssumption
<1> DEFINE a == act[e]
           b == [a EXCEPT !.attempts = a.attempts + 1, !.seen = node[a.node].status]
<1>1. pc[e] \in InAction /\ UNCHANGED <<frame, sig>>
  BY DEF NextAttempt, InAction, callers
<1>2. CASE a.attempts < Retry[a.node] + 1
  <2>1. a \in Locals /\ a.node \in Nodes /\ a.attempts + 1 \in Nat
        /\ node[a.node].status \in NodeStatuses
    BY <1>1, LocalsOf, RowOf
  <2>2. b \in Locals /\ b.node \in Nodes
    BY <2>1 DEF Locals
  <2>3. act' = [act EXCEPT ![e] = b] /\ pc' = [pc EXCEPT ![e] = "start"]
    BY <1>2 DEF NextAttempt
  <2> HIDE DEF b, a
  <2>4. act' \in [Exec -> Locals] /\ pc' \in [Exec -> ExecPCs] /\ Placed'
    BY <1>1, <2>2, <2>3, ActTInv DEF InAction
  <2> QED BY <2>4 DEF NextAttempt, TInv, TypeOK, durable, callers, counts, history
<1>3. CASE ~(a.attempts < Retry[a.node] + 1)
  <2>1. act' = [act EXCEPT ![e] = a] /\ pc' = [pc EXCEPT ![e] = "exhausted"]
    BY <1>3 DEF NextAttempt, TInv, TypeOK
  <2>2. a \in Locals /\ a.node \in Nodes
    BY <1>1, LocalsOf
  <2> HIDE DEF a
  <2>4. act' \in [Exec -> Locals] /\ pc' \in [Exec -> ExecPCs] /\ Placed'
    BY <1>1, <2>1, <2>2, ActTInv DEF InAction
  <2> QED BY <2>4 DEF NextAttempt, TInv, TypeOK, durable, callers, counts, history
<1> QED BY <1>2, <1>3

LEMMA EntryFailedTInv ==
  ASSUME TInv, NEW e \in Exec, pc[e] \in InAction, EntryFailed(e), UNCHANGED sig
  PROVE  frame' \in [Exec -> Frame] /\ pc' \in [Exec -> ExecPCs] /\ act' \in [Exec -> Locals]
         /\ Placed'
<1> DEFINE f == [frame[e] EXCEPT !.trigger = "failed"]
<1>1. frame' = [frame EXCEPT ![e] = f] /\ pc' = [pc EXCEPT ![e] = "transit"]
      /\ act' = [act EXCEPT ![e] = NoAct]
  BY DEF EntryFailed
<1>2. f \in Frame /\ f.state \in States /\ f.trigger \in Triggers
  BY LocalsOf, DefinitionAssumption DEF Frame, Trigger
<1> HIDE DEF f
<1>3. frame' \in [Exec -> Frame] /\ pc' \in [Exec -> ExecPCs] /\ act' \in [Exec -> Locals]
  BY <1>1, <1>2, Blank DEF TInv, TypeOK, ExecPCs
<1>4. Placed'
  BY <1>1, <1>2 DEF TInv, TypeOK, Placed, InAction
<1> QED BY <1>3, <1>4

LEMMA FireStartTInv == ASSUME TInv, NEW e \in Exec, FireStart(e) PROVE TInv'
<1> DEFINE n == act[e].node
           r == [node[n] EXCEPT !.status = "running", !.attempts = act[e].attempts]
<1>1. pc[e] \in InAction /\ UNCHANGED sig
  BY DEF FireStart, InAction, callers
<1>2. CASE act[e].seen \in {"pending", "running"}
  <2>1. n \in Nodes /\ act[e].attempts \in Nat /\ act[e] \in Locals
    BY <1>1, LocalsOf
  <2>2. r \in NodeRow
    BY <2>1, RowOf DEF NodeRow, NodeStatuses
  <2>3. node' = [node EXCEPT ![n] = r] /\ pc' = [pc EXCEPT ![e] = "invoke"]
        /\ UNCHANGED <<frame, act>>
    BY <1>2 DEF FireStart
  <2>4. act' = [act EXCEPT ![e] = act[e]]
    BY <2>3 DEF TInv, TypeOK
  <2>5. act' \in [Exec -> Locals] /\ pc' \in [Exec -> ExecPCs] /\ Placed'
    BY <1>1, <2>1, <2>3, <2>4, ActTInv DEF InAction
  <2> HIDE DEF r, n
  <2>6. node' \in [Nodes -> NodeRow]
    BY <2>1, <2>2, <2>3 DEF TInv, TypeOK
  <2> QED BY <2>3, <2>5, <2>6 DEF FireStart, TInv, TypeOK, durable, callers, counts, history
<1>3. CASE act[e].seen \notin {"pending", "running"}
  <2>1. EntryFailed(e) /\ UNCHANGED node
    BY <1>3 DEF FireStart
  <2> QED BY <1>1, <2>1, EntryFailedTInv DEF FireStart, TInv, TypeOK, callers, counts, history
<1> QED BY <1>2, <1>3

LEMMA RequestHumanOpen == ASSUME TInv, NEW e \in Exec, pc[e] \in InAction,
                                 NEW policy \in BOOLEAN, RequestHuman(e, policy)
                          PROVE  open' \in Seq(Item)
<1>1. open \in Seq(Item) /\ [node |-> act[e].node, policy |-> policy] \in Item
  BY LocalsOf DEF TInv, TypeOK, Item
<1> QED BY <1>1 DEF RequestHuman

LEMMA InvokeTInv == ASSUME TInv, NEW e \in Exec, Invoke(e) \/ AskPolicy(e) PROVE TInv'
<1>1. pc[e] \in InAction /\ UNCHANGED <<act, frame, sig>>
  BY DEF Invoke, AskPolicy, InAction, callers
<1>2. open' \in Seq(Item)
  <2>1. CASE UNCHANGED open
    BY <2>1 DEF TInv, TypeOK
  <2>2. CASE RequestHuman(e, FALSE) \/ RequestHuman(e, TRUE)
    BY <1>1, <2>2, RequestHumanOpen
  <2> QED BY <2>1, <2>2 DEF Invoke, AskPolicy
<1>3. PICK p \in {"attempt", "park", "ask", "act"} : pc' = [pc EXCEPT ![e] = p]
  BY DEF Invoke, AskPolicy, RequestHuman
<1>4. TypeOK'
  BY <1>1, <1>2, <1>3 DEF Invoke, AskPolicy, TInv, TypeOK, ExecPCs, callers, counts, history
<1>5. Placed'
  BY <1>1, <1>3 DEF TInv, TypeOK, Placed, InAction
<1> QED BY <1>4, <1>5 DEF TInv

LEMMA ExecuteTInv == ASSUME TInv, NEW e \in Exec, Execute(e) PROVE TInv'
<1> DEFINE n == act[e].node
<1>1. pc[e] \in InAction /\ UNCHANGED <<frame, sig>> /\ n \in Nodes /\ act[e] \in Locals
  <2>1. pc[e] \in InAction /\ UNCHANGED <<frame, sig>>
    BY DEF Execute, InAction, callers
  <2> QED BY <2>1, LocalsOf
<1>2. effects' \in [Nodes -> Nat] /\ wins' \in [Nodes -> Nat]
  <2>1. effects[n] + 1 \in Nat /\ wins[n] + 1 \in Nat
    BY <1>1 DEF TInv, TypeOK
  <2>2. effects \in [Nodes -> Nat] /\ wins \in [Nodes -> Nat]
    BY DEF TInv, TypeOK
  <2>3. /\ effects' = [effects EXCEPT ![n] = effects[n] + 1]
        /\ wins' = [wins EXCEPT ![n] = wins[n] + 1] \/ wins' = wins
    BY DEF Execute
  <2> QED BY <1>1, <2>1, <2>2, <2>3
<1>3. CASE \E t \in Suggests[n] : act' = [act EXCEPT ![e].result = t] /\ pc' = [pc EXCEPT ![e] = "save"]
  <2>1. PICK t \in Suggests[n] : act' = [act EXCEPT ![e].result = t]
                                 /\ pc' = [pc EXCEPT ![e] = "save"]
    BY <1>3
  <2> DEFINE b == [act[e] EXCEPT !.result = t]
  <2>2. t \in Trigger
    BY <1>1, DefinitionAssumption DEF Trigger
  <2>3. b \in Locals /\ b.node \in Nodes /\ act' = [act EXCEPT ![e] = b]
    BY <1>1, <2>1, <2>2 DEF Locals
  <2> HIDE DEF b, n
  <2>4. act' \in [Exec -> Locals] /\ pc' \in [Exec -> ExecPCs] /\ Placed'
    BY <1>1, <2>1, <2>3, ActTInv DEF InAction
  <2> QED BY <1>2, <2>4 DEF Execute, TInv, TypeOK, durable, callers, counts
<1>4. CASE UNCHANGED act /\ pc' = [pc EXCEPT ![e] = "attempt"]
  <2>1. act' = [act EXCEPT ![e] = act[e]]
    BY <1>4 DEF TInv, TypeOK
  <2>2. act' \in [Exec -> Locals] /\ pc' \in [Exec -> ExecPCs] /\ Placed'
    BY <1>1, <1>4, <2>1, ActTInv DEF InAction
  <2> QED BY <1>2, <2>2 DEF Execute, TInv, TypeOK, durable, callers, counts
<1> QED BY <1>3, <1>4 DEF Execute

LEMMA SaveOutputTInv == ASSUME TInv, NEW e \in Exec, SaveOutput(e) PROVE TInv'
<1>1. pc[e] \in InAction
  BY DEF SaveOutput, InAction
<1>2. act[e].node \in Nodes
  BY <1>1, LocalsOf
<1>3. TypeOK'
  BY <1>2 DEF SaveOutput, TInv, TypeOK, ExecPCs, callers, counts, history
<1>4. Placed'
  BY <1>1 DEF SaveOutput, TInv, TypeOK, Placed, InAction, callers
<1> QED BY <1>3, <1>4 DEF TInv

LEMMA FireSucceedTInv == ASSUME TInv, NEW e \in Exec, FireSucceed(e) PROVE TInv'
<1> DEFINE n == act[e].node
           t == act[e].result
           r == [status |-> "succeeded", trigger |-> t, attempts |-> act[e].attempts]
           u == IF t = NoTrigger THEN frame[e].trigger ELSE t
           f == [frame[e] EXCEPT !.next = frame[e].next + 1, !.trigger = u]
<1>1. pc[e] \in InAction /\ UNCHANGED sig
  BY DEF FireSucceed, InAction, callers
<1>2. CASE node[n].status = "running"
  <2>1. /\ node' = [node EXCEPT ![n] = r] /\ frame' = [frame EXCEPT ![e] = f]
        /\ pc' = [pc EXCEPT ![e] = "entry"] /\ act' = [act EXCEPT ![e] = NoAct]
    BY <1>2 DEF FireSucceed
  <2>2. /\ n \in Nodes /\ t \in Trigger /\ act[e].attempts \in Nat
        /\ frame[e] \in Frame /\ frame[e].state \in States
    BY <1>1, LocalsOf
  <2>3. r \in NodeRow
    BY <2>2 DEF NodeRow, NodeStatuses
  <2>4. frame[e].next + 1 \in Nat \ {0} /\ u \in Trigger
    BY <2>2 DEF Frame
  <2>5. f \in Frame /\ f.state \in States
    BY <2>2, <2>4 DEF Frame
  <2> HIDE DEF r, f, n
  <2>6. TypeOK'
    BY <2>1, <2>2, <2>3, <2>5, Blank DEF FireSucceed, TInv, TypeOK, ExecPCs, callers, counts, history
  <2>7. Placed'
    BY <1>1, <2>1, <2>5 DEF TInv, TypeOK, Placed, InAction
  <2> QED BY <2>6, <2>7 DEF TInv
<1>3. CASE node[n].status # "running"
  <2>1. EntryFailed(e) /\ UNCHANGED node
    BY <1>3 DEF FireSucceed
  <2> QED BY <1>1, <2>1, EntryFailedTInv DEF FireSucceed, TInv, TypeOK, callers, counts, history
<1> QED BY <1>2, <1>3

LEMMA SaveFailureTInv == ASSUME TInv, NEW e \in Exec, SaveFailure(e) PROVE TInv'
<1>1. pc[e] \in InAction
  BY DEF SaveFailure, InAction
<1>2. act[e].node \in Nodes
  BY <1>1, LocalsOf
<1>3. TypeOK'
  BY <1>2 DEF SaveFailure, TInv, TypeOK, ExecPCs, callers, counts, history
<1>4. Placed'
  BY <1>1 DEF SaveFailure, TInv, TypeOK, Placed, InAction, callers
<1> QED BY <1>3, <1>4 DEF TInv

LEMMA FireFailReadTInv == ASSUME TInv, NEW e \in Exec, FireFailRead(e) PROVE TInv'
<1> DEFINE b == [act[e] EXCEPT !.seen = node[act[e].node].status]
<1>1. pc[e] \in InAction
  BY DEF FireFailRead, InAction
<1>2. b \in Locals /\ b.node \in Nodes
  BY <1>1, LocalsOf, RowOf DEF Locals
<1>3. act' = [act EXCEPT ![e] = b] /\ pc' = [pc EXCEPT ![e] = "fail"] /\ UNCHANGED <<frame, sig>>
  BY DEF FireFailRead, callers
<1> HIDE DEF b
<1>4. act' \in [Exec -> Locals] /\ pc' \in [Exec -> ExecPCs] /\ Placed'
  BY <1>1, <1>2, <1>3, ActTInv DEF InAction
<1> QED BY <1>4 DEF FireFailRead, TInv, TypeOK, durable, callers, counts, history

LEMMA FireFailTInv == ASSUME TInv, NEW e \in Exec, FireFail(e) PROVE TInv'
<1> DEFINE n == act[e].node
           r == [node[n] EXCEPT !.status = "failed", !.attempts = act[e].attempts]
<1>1. pc[e] \in InAction /\ UNCHANGED sig /\ EntryFailed(e)
  BY DEF FireFail, InAction, callers
<1>2. n \in Nodes /\ act[e].attempts \in Nat
  BY <1>1, LocalsOf
<1>3. r \in NodeRow
  BY <1>2, RowOf DEF NodeRow, NodeStatuses
<1>4. node' = node \/ node' = [node EXCEPT ![n] = r]
  BY DEF FireFail
<1> HIDE DEF r, n
<1>5. node' \in [Nodes -> NodeRow]
  BY <1>2, <1>3, <1>4 DEF TInv, TypeOK
<1> QED BY <1>1, <1>5, EntryFailedTInv DEF FireFail, TInv, TypeOK, callers, counts, history

(* ParkRun and MachineEnded remember the state of the run.                  *)
LEMMA RereadTInv == ASSUME TInv, NEW e \in Exec, ParkRun(e) \/ MachineEnded(e) PROVE TInv'
<1> DEFINE f == [frame[e] EXCEPT !.seen = run.state]
<1>1. f \in Frame /\ UNCHANGED <<act, sig>> /\ frame' = [frame EXCEPT ![e] = f]
  <2>1. frame[e] \in Frame /\ run.state \in StateWord
    BY DEF TInv, TypeOK
  <2> QED BY <2>1 DEF Frame, ParkRun, MachineEnded, callers
<1>2. PICK p \in {"wait", "finish"} : pc' = [pc EXCEPT ![e] = p]
  BY DEF ParkRun, MachineEnded
<1> HIDE DEF f
<1>3. frame' \in [Exec -> Frame] /\ pc' \in [Exec -> ExecPCs] /\ Placed'
  BY <1>1, <1>2, MoveTInv DEF InAction, ExecPCs
<1> QED BY <1>3 DEF ParkRun, MachineEnded, TInv, TypeOK, durable, callers, counts, history

(* The three ends of executeRun write the run row and return.               *)
LEMMA EndTInv == ASSUME TInv, NEW e \in Exec, WaitRun(e) \/ FinishRun(e) \/ FailRun(e) PROVE TInv'
<1>1. run' \in [status : RunStatuses, state : StateWord]
  <2>1. frame[e].seen \in StateWord
    BY DEF TInv, TypeOK, Frame
  <2> QED BY <2>1 DEF WaitRun, FinishRun, FailRun, RunStatuses
<1>2. Leave(e) /\ UNCHANGED <<node, output, approval, open, up, loaded, callers, counts, history>>
  BY DEF WaitRun, FinishRun, FailRun
<1> QED BY <1>1, <1>2, WalkLeave DEF TInv, TypeOK, callers, counts, history

LEMMA WalkTInv == ASSUME TInv, NEW e \in Exec, Walk(e) PROVE TInv'
  BY LoadRunTInv, EnterStateTInv, NextEntryTInv, EntryDoneTInv, TransitTInv, CountAttemptsTInv,
     NextAttemptTInv, FireStartTInv, InvokeTInv, ExecuteTInv, SaveOutputTInv, FireSucceedTInv,
     SaveFailureTInv, FireFailReadTInv, FireFailTInv, RereadTInv, EndTInv DEF Walk

LEMMA LockRunTInv == ASSUME TInv, NEW e \in Exec, LockRun(e) PROVE TInv'
  BY DEF LockRun, TInv, TypeOK, Placed, InAction, ExecPCs, durable, callers, counts, history

(* A step that replaces one Signal call.                                    *)
LEMMA CallTInv ==
  ASSUME TInv, NEW g \in Sig, NEW c \in SignalCall, sig' = [sig EXCEPT ![g] = c],
         c.pc \in {"read", "fire"} => c.items # <<>>, UNCHANGED <<pc, frame, act>>
  PROVE  sig' \in [Sig -> SignalCall] /\ Placed'
<1>1. sig' \in [Sig -> SignalCall]
  BY DEF TInv, TypeOK
<1>2. Placed'
  BY DEF TInv, TypeOK, Placed
<1> QED BY <1>1, <1>2

LEMMA CallOf == ASSUME TInv, NEW g \in Sig
                PROVE /\ sig[g] \in SignalCall /\ sig[g].items \in Seq(Item)
                      /\ sig[g].attempts \in Nat /\ sig[g].state \in StateWord
                      /\ sig[g].answer \in Answers
                      /\ sig[g].items # <<>> => /\ Head(sig[g].items) \in Item
                                                /\ Head(sig[g].items).node \in Nodes
                                                /\ Tail(sig[g].items) \in Seq(Item)
<1>1. sig[g] \in SignalCall
  BY DEF TInv, TypeOK
<1>2. /\ sig[g].items \in Seq(Item) /\ sig[g].attempts \in Nat /\ sig[g].state \in StateWord
      /\ sig[g].answer \in Answers
  BY <1>1 DEF SignalCall
<1>3. ASSUME sig[g].items # <<>>
      PROVE  /\ Head(sig[g].items) \in Item /\ Head(sig[g].items).node \in Nodes
             /\ Tail(sig[g].items) \in Seq(Item)
  <2>1. Head(sig[g].items) \in Item /\ Tail(sig[g].items) \in Seq(Item)
    BY <1>2, <1>3
  <2> QED BY <2>1 DEF Item
<1> QED BY <1>1, <1>2, <1>3

LEMMA SignalBeginTInv == ASSUME TInv, NEW g \in Sig, SignalBegin(g) PROVE TInv'
<1>1. PICK a \in Answers : sig' = [sig EXCEPT ![g] = [NoSig EXCEPT !.pc = "list",
                                       !.state = run.state, !.answer = a]]
  BY DEF SignalBegin
<1> DEFINE c == [NoSig EXCEPT !.pc = "list", !.state = run.state, !.answer = a]
<1>2. c \in SignalCall /\ c.pc = "list"
  <2>1. run.state \in StateWord
    BY DEF TInv, TypeOK
  <2> QED BY <2>1, Blank DEF SignalCall, NoSig
<1> HIDE DEF c
<1>3. sig' \in [Sig -> SignalCall] /\ Placed'
  BY <1>1, <1>2, CallTInv DEF SignalBegin, c
<1>4. signals' \in Nat
  BY DEF SignalBegin, TInv, TypeOK
<1> QED BY <1>3, <1>4 DEF SignalBegin, TInv, TypeOK, durable, history

LEMMA SignalListTInv == ASSUME TInv, NEW g \in Sig, SignalList(g) PROVE TInv'
<1> DEFINE c == [sig[g] EXCEPT !.pc = "close", !.items = open]
<1>1. sig' = [sig EXCEPT ![g] = c] /\ c \in SignalCall /\ c.pc = "close"
  <2>1. open \in Seq(Item)
    BY DEF TInv, TypeOK
  <2> QED BY <2>1, CallOf DEF SignalList, SignalCall
<1> HIDE DEF c
<1>2. sig' \in [Sig -> SignalCall] /\ Placed'
  BY <1>1, CallTInv DEF SignalList
<1> QED BY <1>2 DEF SignalList, TInv, TypeOK, durable, counts, history

LEMMA SignalCloseTInv == ASSUME TInv, NEW g \in Sig, SignalClose(g) PROVE TInv'
<1> DEFINE c == [sig[g] EXCEPT !.pc = "apply"]
<1>1. sig' = [sig EXCEPT ![g] = c] /\ c \in SignalCall /\ c.pc = "apply"
  BY CallOf DEF SignalClose, SignalCall
<1> HIDE DEF c
<1>2. sig' \in [Sig -> SignalCall] /\ Placed'
  BY <1>1, CallTInv DEF SignalClose
<1>3. open' \in Seq(Item)
  BY DEF SignalClose
<1> QED BY <1>2, <1>3 DEF SignalClose, TInv, TypeOK, counts, history

LEMMA SignalSaveTInv == ASSUME TInv, NEW g \in Sig, SignalSave(g) PROVE TInv'
<1> DEFINE s == sig[g]
           n == Head(s.items).node
           k == IF CompletedAttempts(n) = 0 THEN 1 ELSE CompletedAttempts(n)
           c == [s EXCEPT !.items = Tail(s.items)]
           d == [s EXCEPT !.pc = "read", !.attempts = k]
<1>1. s \in SignalCall /\ s.items # <<>> /\ s.pc = "apply" /\ n \in Nodes
      /\ Tail(s.items) \in Seq(Item) /\ s.answer \in Answers
  BY CallOf DEF SignalSave
<1>2. k \in Nat
  BY <1>1, RowOf
<1>3. c \in SignalCall /\ c.pc = "apply"
  BY <1>1 DEF SignalCall
<1>4. d \in SignalCall /\ d.items # <<>>
  BY <1>1, <1>2 DEF SignalCall
<1>5. UNCHANGED <<pc, frame, act>>
  BY DEF SignalSave
<1>6. CASE Head(s.items).policy
  <2>1. /\ sig' = [sig EXCEPT ![g] = c] /\ UNCHANGED output
        /\ approval' = [approval EXCEPT ![n] = s.answer]
        /\ granted' = IF s.answer = "yes" THEN granted \cup {n} ELSE granted
    BY <1>6 DEF SignalSave
  <2> HIDE DEF c, n, s
  <2>2. sig' \in [Sig -> SignalCall] /\ Placed'
    BY <1>3, <1>5, <2>1, CallTInv
  <2>3. approval' \in [Nodes -> Answers \cup {"none"}] /\ granted' \subseteq Nodes
    BY <1>1, <2>1 DEF TInv, TypeOK
  <2> QED BY <2>1, <2>2, <2>3 DEF SignalSave, TInv, TypeOK, counts
<1>7. CASE ~Head(s.items).policy
  <2>1. /\ sig' = [sig EXCEPT ![g] = d] /\ UNCHANGED <<approval, granted>>
        /\ output' = [output EXCEPT ![n] = "succeeded"]
    BY <1>7 DEF SignalSave
  <2> HIDE DEF d, n, s
  <2>2. sig' \in [Sig -> SignalCall] /\ Placed'
    BY <1>4, <1>5, <2>1, CallTInv
  <2>3. output' \in [Nodes -> {"none", "succeeded", "failed"}]
    BY <1>1, <2>1 DEF TInv, TypeOK
  <2> QED BY <2>1, <2>2, <2>3 DEF SignalSave, TInv, TypeOK, counts
<1> QED BY <1>6, <1>7

LEMMA SignalFireReadTInv == ASSUME TInv, NEW g \in Sig, SignalFireRead(g) PROVE TInv'
<1> DEFINE c == [sig[g] EXCEPT !.pc = "fire", !.seen = node[Head(sig[g].items).node].status]
<1>1. sig[g].items # <<>>
  BY DEF SignalFireRead, TInv, Placed
<1>2. node[Head(sig[g].items).node].status \in NodeStatuses
  BY <1>1, CallOf, RowOf
<1>3. sig' = [sig EXCEPT ![g] = c] /\ c \in SignalCall /\ c.items # <<>>
  BY <1>1, <1>2, CallOf DEF SignalFireRead, SignalCall
<1> HIDE DEF c
<1>4. sig' \in [Sig -> SignalCall] /\ Placed'
  BY <1>3, CallTInv DEF SignalFireRead
<1> QED BY <1>4 DEF SignalFireRead, TInv, TypeOK, durable, counts, history

LEMMA SignalFireTInv == ASSUME TInv, NEW g \in Sig, SignalFire(g) PROVE TInv'
<1> DEFINE s == sig[g]
           n == Head(s.items).node
           r == [status |-> "succeeded", attempts |-> s.attempts, trigger |-> NoTrigger]
           c == [s EXCEPT !.pc = "apply", !.items = Tail(s.items)]
<1>1. s.items # <<>> /\ UNCHANGED <<pc, frame, act>>
  BY DEF SignalFire, TInv, Placed
<1>2. s \in SignalCall /\ n \in Nodes /\ Tail(s.items) \in Seq(Item) /\ s.attempts \in Nat
  BY <1>1, CallOf
<1>3. CASE s.seen = "running"
  <2>1. node' = [node EXCEPT ![n] = r] /\ sig' = [sig EXCEPT ![g] = c]
    BY <1>3 DEF SignalFire
  <2>2. r \in NodeRow
    BY <1>2 DEF NodeRow, NodeStatuses, Trigger
  <2>3. c \in SignalCall /\ c.pc = "apply"
    BY <1>2 DEF SignalCall
  <2> HIDE DEF r, c, n
  <2>4. sig' \in [Sig -> SignalCall] /\ Placed'
    BY <1>1, <2>1, <2>3, CallTInv
  <2>5. node' \in [Nodes -> NodeRow]
    BY <1>2, <2>1, <2>2 DEF TInv, TypeOK
  <2> QED BY <2>4, <2>5 DEF SignalFire, TInv, TypeOK, counts, history
<1>4. CASE s.seen # "running"
  <2>1. sig' = [sig EXCEPT ![g] = NoSig] /\ UNCHANGED node
    BY <1>4 DEF SignalFire
  <2>2. sig' \in [Sig -> SignalCall] /\ Placed'
    BY <1>1, <2>1, Blank, CallTInv DEF NoSig
  <2> QED BY <2>1, <2>2 DEF SignalFire, TInv, TypeOK, counts, history
<1> QED BY <1>3, <1>4

LEMMA SignalRunningTInv == ASSUME TInv, NEW g \in Sig, SignalRunning(g) PROVE TInv'
<1> DEFINE c == [sig[g] EXCEPT !.pc = "spawn"]
<1>1. sig' = [sig EXCEPT ![g] = c] /\ c \in SignalCall /\ c.pc = "spawn"
  BY CallOf DEF SignalRunning, SignalCall
<1> HIDE DEF c
<1>2. sig' \in [Sig -> SignalCall] /\ Placed'
  BY <1>1, CallTInv DEF SignalRunning
<1>3. run' \in [status : RunStatuses, state : StateWord]
  BY CallOf DEF SignalRunning, RunStatuses
<1> QED BY <1>2, <1>3 DEF SignalRunning, TInv, TypeOK, counts, history

(* A fresh goroutine waits for the mutex: it is nowhere yet.                *)
LEMMA SpawnTInv == ASSUME TInv, Spawn, UNCHANGED <<frame, act>>
                   PROVE  /\ pc' \in [Exec -> ExecPCs]
                          /\ UNCHANGED sig => Placed'
<1>1. PICK e \in Exec : pc' = [pc EXCEPT ![e] = "lock"]
  BY DEF Spawn
<1> QED BY <1>1 DEF TInv, TypeOK, ExecPCs, Placed, InAction

LEMMA SignalSpawnTInv == ASSUME TInv, NEW g \in Sig, SignalSpawn(g) PROVE TInv'
<1>1. PICK e \in Exec : pc' = [pc EXCEPT ![e] = "lock"]
  BY DEF SignalSpawn, Spawn
<1>2. sig' = [sig EXCEPT ![g] = NoSig] /\ UNCHANGED <<frame, act>>
  BY DEF SignalSpawn
<1>3. sig' \in [Sig -> SignalCall] /\ pc' \in [Exec -> ExecPCs]
  BY <1>1, <1>2, Blank DEF TInv, TypeOK, ExecPCs
<1>4. NoSig.pc = "idle"
  BY DEF NoSig
<1>5. Placed'
  BY <1>1, <1>2, <1>4 DEF TInv, TypeOK, Placed, InAction
<1> QED BY <1>3, <1>5 DEF SignalSpawn, TInv, TypeOK, durable, counts, history

LEMMA SignalTInv == ASSUME TInv, NEW g \in Sig, Signal(g) PROVE TInv'
  BY SignalListTInv, SignalCloseTInv, SignalSaveTInv, SignalFireReadTInv, SignalFireTInv,
     SignalRunningTInv, SignalSpawnTInv DEF Signal

LEMMA StartTInv == ASSUME TInv, StartRunbook \/ StartSpawn PROVE TInv'
<1> USE DEF durable, callers, counts, history
<1>1. CASE StartRunbook
  <2>1. run' \in [status : RunStatuses, state : StateWord]
    BY <1>1 DEF StartRunbook, RunStatuses, StateWord
  <2> QED BY <1>1, <2>1 DEF StartRunbook, TInv, TypeOK, Placed
<1>2. CASE StartSpawn
  BY <1>2, SpawnTInv DEF StartSpawn, TInv, TypeOK
<1> QED BY <1>1, <1>2

LEMMA CancelTInv == ASSUME TInv, CancelRead \/ CancelWrite PROVE TInv'
<1> USE DEF durable, callers, counts, history
<1>1. run.state \in StateWord /\ cancel.state \in StateWord
  BY DEF TInv, TypeOK
<1>2. cancel' \in [pc : {"idle", "write"}, state : StateWord]
  BY <1>1 DEF CancelRead, CancelWrite, NoCancel, StateWord
<1>3. run' \in [status : RunStatuses, state : StateWord]
  BY <1>1 DEF CancelRead, CancelWrite, RunStatuses, TInv, TypeOK
<1>4. cancels' \in Nat
  BY DEF CancelRead, CancelWrite, TInv, TypeOK
<1> QED BY <1>2, <1>3, <1>4 DEF CancelRead, CancelWrite, TInv, TypeOK, Placed

LEMMA ProcessTInv == ASSUME TInv, Crash \/ Open \/ ReloadDefinitions PROVE TInv'
<1> USE DEF durable, callers, counts, history
<1>1. CASE Crash
  <2>1. NoCancel \in [pc : {"idle", "write"}, state : StateWord]
    BY DEF NoCancel, StateWord
  <2>4. /\ frame' \in [Exec -> Frame] /\ act' \in [Exec -> Locals]
        /\ sig' \in [Sig -> SignalCall] /\ pc' \in [Exec -> ExecPCs]
    BY <1>1, Blank DEF Crash, ExecPCs
  <2>5. crashes' \in Nat /\ starter' \in {"no", "created", "done"}
    BY <1>1 DEF Crash, TInv, TypeOK
  <2>2. TypeOK'
    BY <1>1, <2>1, <2>4, <2>5 DEF Crash, TInv, TypeOK
  <2>3. Placed'
    BY <1>1 DEF Crash, Placed, InAction, NoSig
  <2> QED BY <2>2, <2>3 DEF TInv
<1>2. CASE Open
  <2>1. CASE Spawn
    BY <1>2, <2>1, SpawnTInv DEF Open, TInv, TypeOK
  <2>2. CASE UNCHANGED pc
    BY <1>2, <2>2 DEF Open, TInv, TypeOK, Placed
  <2> QED BY <1>2, <2>1, <2>2 DEF Open
<1>3. CASE ReloadDefinitions
  BY <1>3 DEF ReloadDefinitions, TInv, TypeOK, Placed
<1> QED BY <1>1, <1>2, <1>3

LEMMA NextTInv == TInv /\ [Next]_vars => TInv'
<1>1. ASSUME TInv, UNCHANGED vars PROVE TInv'
  BY <1>1 DEF TInv, TypeOK, Placed, vars, durable, callers, counts, history
<1> QED BY <1>1, StartTInv, LockRunTInv, WalkTInv, SignalBeginTInv, SignalTInv, CancelTInv,
           ProcessTInv DEF Next

(* Every state has the types that TypeOK declares: no interleaving of       *)
(* goroutines, signals, cancels, crashes and reloads leaves the state       *)
(* machine between its states, or an entry action without its node.         *)
THEOREM TypeCorrect == Spec => []TypeOK
<1>1. TInv => TypeOK
  BY DEF TInv
<1> QED BY InitTInv, NextTInv, <1>1, PTL DEF Spec
=============================================================================
