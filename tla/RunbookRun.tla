----------------------------- MODULE RunbookRun -----------------------------
(***************************************************************************)
(* One run of a runbook in harness/internal/services/runbook/runtime: the  *)
(* durable records the store keeps for it (run row, node states, step      *)
(* outputs, pending items), the executeRun goroutines that walk its        *)
(* hierarchical state machine under the per-run mutex, and the Signal,     *)
(* Cancel and restart operations that touch the same rows WITHOUT that     *)
(* mutex.  Every store call is one SQL statement, so every action below    *)
(* performs at most one store call, and everything between two calls of    *)
(* one goroutine is local to it.  Two actions join a read to the write     *)
(* that follows it (FireSucceed, SignalSave) and say why that is sound.    *)
(***************************************************************************)
EXTENDS Naturals, Sequences

CONSTANTS
    Nodes,        \* ids of the entry actions of all states
    States,       \* ids of the states, at every level of the hierarchy
    InitialState, \* def.Initial
    NoState,      \* the empty state id, ""
    Entry,        \* state |-> its OnEntry actions, in order
    Child,        \* state |-> its initial child state, or NoState
    Triggers,     \* trigger names; "succeeded" and "failed" among them
    Goto,         \* state |-> trigger |-> target of the first match, or NoState
    Kind,         \* node |-> "effect", "gated" (needs approval), "human"
    Retry,        \* node |-> declared retries
    Suggests,     \* node |-> triggers its result may suggest; NoTrigger is none
    Rejectable,   \* nodes whose attempt may be refused before it has an effect
    MaxDepth,     \* maxStateMachineDepth
    Exec,         \* executeRun goroutines
    Sig,          \* Signal calls that may be in progress at the same time
    None,         \* no goroutine holds the run mutex
    MaxSignals, MaxCancels, MaxCrashes, MaxReloads  \* bounds on the environment

NoTrigger == ""
NoNode == "none"
Kinds == {"effect", "gated", "human"}

ASSUME DefinitionAssumption ==
    /\ InitialState \in States /\ NoState \notin States /\ NoNode \notin Nodes
    /\ Entry \in [States -> Seq(Nodes)]
    /\ Child \in [States -> States \cup {NoState}]
    /\ {"succeeded", "failed"} \subseteq Triggers /\ NoTrigger \notin Triggers
    /\ Goto \in [States -> [Triggers -> States \cup {NoState}]]
    /\ Kind \in [Nodes -> Kinds]
    /\ Retry \in [Nodes -> Nat]
    /\ Suggests \in [Nodes -> SUBSET (Triggers \cup {NoTrigger})]
    /\ Rejectable \subseteq Nodes
    /\ MaxDepth \in Nat

ASSUME BoundsAssumption ==
    /\ None \notin Exec
    /\ MaxSignals \in Nat /\ MaxCancels \in Nat
    /\ MaxCrashes \in Nat /\ MaxReloads \in Nat

VARIABLES
    \* durable, in the runbook database
    run,       \* [status, state] of the run row
    node,      \* node |-> [status, attempts, trigger] of its node-state row
    output,    \* node |-> the verdict in its saved step output
    approval,  \* node |-> the answer saved under "<node>.policy"
    open,      \* open pending items of the run, oldest first
    \* in memory, lost when the process dies
    up,        \* the service is open
    loaded,    \* the run's definition is in s.defs
    lock,      \* holder of the run mutex
    pc,        \* goroutine |-> its next step
    frame,     \* goroutine |-> its position in the state machine
    act,       \* goroutine |-> locals of executeStateAction
    starter,   \* StartRunbook: "no", "created" (row stored), "done"
    sig,       \* Signal calls in progress
    cancel,    \* the Cancel call in progress
    \* counters of the environment and history
    signals, cancels, crashes, reloads,
    effects,   \* node |-> how often its action was executed
    wins,      \* node |-> how often its action was executed successfully
    granted    \* nodes whose policy question was answered with an approval

durable == <<run, node, output, approval, open>>
callers == <<starter, sig, cancel>>
counts  == <<signals, cancels, crashes, reloads>>
history == <<effects, wins, granted>>
vars == <<durable, up, loaded, lock, pc, frame, act, callers, counts, history>>

RunStatuses == {"none", "running", "waiting", "succeeded", "failed", "canceled"}
Finished == {"succeeded", "failed", "canceled"}
NodeStatuses == {"pending", "running", "succeeded", "failed"}
Answers == {"yes", "no"}
Item == [node : Nodes, policy : BOOLEAN]

ExecPCs == {"idle", "lock", "load", "enter", "entry", "count", "attempt", "start",
            "invoke", "ask", "act", "save", "succeed", "exhausted", "failread", "fail",
            "transit", "park", "wait", "ended", "finish", "error"}
\* The steps a goroutine takes while it holds the run mutex.
Locked == ExecPCs \ {"idle", "lock"}
\* The steps inside executeStateAction, for the node act[e].node.
InAction == {"count", "attempt", "start", "invoke", "ask", "act", "save", "succeed",
             "exhausted", "failread", "fail"}

NoFrame == [state |-> NoState, depth |-> 0, stack |-> <<>>, next |-> 1,
            trigger |-> NoTrigger, seen |-> NoState]
NoAct == [node |-> NoNode, attempts |-> 0, seen |-> "pending", result |-> NoTrigger]
NoSig == [pc |-> "idle", state |-> NoState, answer |-> "yes", items |-> <<>>,
          attempts |-> 0, seen |-> "pending"]
NoCancel == [pc |-> "idle", state |-> NoState]

Init ==
    /\ run = [status |-> "none", state |-> NoState]
    /\ node = [n \in Nodes |-> [status |-> "pending", attempts |-> 0, trigger |-> NoTrigger]]
    /\ output = [n \in Nodes |-> "none"]
    /\ approval = [n \in Nodes |-> "none"]
    /\ open = <<>>
    /\ up = TRUE /\ loaded = TRUE
    /\ lock = None
    /\ pc = [e \in Exec |-> "idle"]
    /\ frame = [e \in Exec |-> NoFrame]
    /\ act = [e \in Exec |-> NoAct]
    /\ starter = "no"
    /\ sig = [g \in Sig |-> NoSig]
    /\ cancel = NoCancel
    /\ signals = 0 /\ cancels = 0 /\ crashes = 0 /\ reloads = 0
    /\ effects = [n \in Nodes |-> 0]
    /\ wins = [n \in Nodes |-> 0]
    /\ granted = {}

-----------------------------------------------------------------------------
(* Starting, spawning and loading.                                          *)

\* go s.executeRun(...): a fresh goroutine that first asks for the run mutex.
Spawn == \E e \in Exec : /\ pc[e] = "idle"
                         /\ pc' = [pc EXCEPT ![e] = "lock"]

\* StartRunbook up to CreateRun; the row is stored before any goroutine runs.
StartRunbook ==
    /\ up /\ loaded /\ starter = "no"
    /\ run' = [status |-> "running", state |-> "running"]
    /\ starter' = "created"
    /\ UNCHANGED <<node, output, approval, open, up, loaded, lock, pc, frame, act,
                   sig, cancel, counts, history>>

\* StartRunbook's last step, go s.executeRun.
StartSpawn ==
    /\ starter = "created"
    /\ Spawn
    /\ starter' = "done"
    /\ UNCHANGED <<durable, up, loaded, lock, frame, act, sig, cancel, counts, history>>

\* The goroutine returns from executeRun; the deferred unlock frees the mutex.
Leave(e) ==
    /\ lock' = None
    /\ pc' = [pc EXCEPT ![e] = "idle"]
    /\ frame' = [frame EXCEPT ![e] = NoFrame]
    /\ act' = [act EXCEPT ![e] = NoAct]

\* lockRun.
LockRun(e) ==
    /\ pc[e] = "lock" /\ lock = None
    /\ lock' = e
    /\ pc' = [pc EXCEPT ![e] = "load"]
    /\ UNCHANGED <<durable, up, loaded, frame, act, callers, counts, history>>

\* executeRun reads the run: finished runs are left alone (a failed one is
\* not), a missing definition fails the run, otherwise the walk starts over
\* from the initial state.
LoadRun(e) ==
    /\ pc[e] = "load"
    /\ \/ /\ run.status \in {"canceled", "succeeded"}
          /\ Leave(e)
       \/ /\ run.status \notin {"canceled", "succeeded"}
          /\ pc' = [pc EXCEPT ![e] = IF loaded THEN "enter" ELSE "error"]
          /\ frame' = [frame EXCEPT ![e] = [NoFrame EXCEPT !.state = InitialState,
                                                           !.seen = run.state]]
          /\ UNCHANGED <<lock, act>>
    /\ UNCHANGED <<durable, up, loaded, callers, counts, history>>

-----------------------------------------------------------------------------
(* Walking the state machine: executeState, executeStateEntry,              *)
(* executeStateTransition.                                                  *)

\* executeState: the depth check, then the unconditional write of status
\* "running" and of the state being entered.
EnterState(e) ==
    /\ pc[e] = "enter"
    /\ IF frame[e].depth > MaxDepth
       THEN /\ pc' = [pc EXCEPT ![e] = "error"]
            /\ UNCHANGED <<run, frame>>
       ELSE /\ run' = [status |-> "running", state |-> frame[e].state]
            /\ pc' = [pc EXCEPT ![e] = "entry"]
            /\ frame' = [frame EXCEPT ![e].next = 1, ![e].trigger = NoTrigger]
    /\ UNCHANGED <<node, output, approval, open, up, loaded, lock, act, callers,
                   counts, history>>

\* executeStateEntry's loop head for the next entry action: a succeeded node
\* is skipped and contributes its saved trigger, a failed one fails the
\* entry, any other is handed to executeStateAction.
NextEntry(e) ==
    LET f == frame[e] IN
    /\ pc[e] = "entry" /\ f.next <= Len(Entry[f.state])
    /\ LET n == Entry[f.state][f.next] IN
       CASE node[n].status = "succeeded" ->
              /\ frame' = [frame EXCEPT ![e].next = f.next + 1,
                     ![e].trigger = IF node[n].trigger = NoTrigger THEN f.trigger
                                                                   ELSE node[n].trigger]
              /\ UNCHANGED <<pc, act>>
         [] node[n].status = "failed" ->
              /\ frame' = [frame EXCEPT ![e].trigger = "failed"]
              /\ pc' = [pc EXCEPT ![e] = "transit"]
              /\ UNCHANGED act
         [] OTHER ->
              /\ act' = [act EXCEPT ![e] = [NoAct EXCEPT !.node = n]]
              /\ pc' = [pc EXCEPT ![e] = "count"]
              /\ UNCHANGED frame
    /\ UNCHANGED <<durable, up, loaded, lock, callers, counts, history>>

\* All entry actions are done: descend into the initial child state, or
\* look for a transition on the entry's trigger.
EntryDone(e) ==
    LET f == frame[e] IN
    /\ pc[e] = "entry" /\ f.next > Len(Entry[f.state])
    /\ IF Child[f.state] # NoState
       THEN /\ frame' = [frame EXCEPT ![e].state = Child[f.state], ![e].depth = f.depth + 1,
                     ![e].stack = Append(f.stack, [state |-> f.state, depth |-> f.depth])]
            /\ pc' = [pc EXCEPT ![e] = "enter"]
       ELSE /\ frame' = [frame EXCEPT ![e].trigger =
                     IF f.trigger = NoTrigger THEN "succeeded" ELSE f.trigger]
            /\ pc' = [pc EXCEPT ![e] = "transit"]
    /\ UNCHANGED <<durable, up, loaded, lock, act, callers, counts, history>>

\* executeStateTransition: follow the first matching transition one level
\* deeper, or hand the trigger to the parent's transitions; the trigger that
\* leaves the outermost state ends the machine.
Transit(e) ==
    LET f == frame[e]
        target == Goto[f.state][f.trigger]
        top == f.stack[Len(f.stack)]
    IN
    /\ pc[e] = "transit"
    /\ \/ /\ target # NoState
          /\ frame' = [frame EXCEPT ![e].state = target, ![e].depth = f.depth + 1]
          /\ pc' = [pc EXCEPT ![e] = "enter"]
       \/ /\ target = NoState /\ f.stack # <<>>
          /\ frame' = [frame EXCEPT ![e].state = top.state, ![e].depth = top.depth,
                                    ![e].stack = SubSeq(f.stack, 1, Len(f.stack) - 1)]
          /\ UNCHANGED pc
       \/ /\ target = NoState /\ f.stack = <<>>
          /\ pc' = [pc EXCEPT ![e] = IF f.trigger = "succeeded" THEN "ended" ELSE "error"]
          /\ UNCHANGED frame
    /\ UNCHANGED <<durable, up, loaded, lock, act, callers, counts, history>>

-----------------------------------------------------------------------------
(* executeStateAction and executeStateActionAttempt.                        *)

\* Fault: every session counts its attempts from zero.
CompletedAttempts_Forgotten(n) == 0

\* nodeStateAttempts: an attempt still marked running never finished.
CompletedAttempts(n) ==
    IF node[n].status = "running" /\ node[n].attempts > 0
    THEN node[n].attempts - 1 ELSE node[n].attempts

CountAttempts(e) ==
    /\ pc[e] = "count"
    /\ act' = [act EXCEPT ![e].attempts = CompletedAttempts(act[e].node)]
    /\ pc' = [pc EXCEPT ![e] = "attempt"]
    /\ UNCHANGED <<durable, up, loaded, lock, frame, callers, counts, history>>

\* The loop head.  With attempts left, fireNodeStateTrigger(start) reads the
\* node's status; otherwise the failure is final.
NextAttempt(e) ==
    LET a == act[e] IN
    /\ pc[e] = "attempt"
    /\ IF a.attempts < Retry[a.node] + 1
       THEN /\ act' = [act EXCEPT ![e].attempts = a.attempts + 1,
                                  ![e].seen = node[a.node].status]
            /\ pc' = [pc EXCEPT ![e] = "start"]
       ELSE /\ pc' = [pc EXCEPT ![e] = "exhausted"]
            /\ UNCHANGED act
    /\ UNCHANGED <<durable, up, loaded, lock, frame, callers, counts, history>>

\* An error of the entry action takes the state's "failed" transition.
EntryFailed(e) ==
    /\ frame' = [frame EXCEPT ![e].trigger = "failed"]
    /\ pc' = [pc EXCEPT ![e] = "transit"]
    /\ act' = [act EXCEPT ![e] = NoAct]

\* Fault: the action starts before its node is marked running.
FireStart_Unmarked(e) ==
    /\ pc[e] = "start"
    /\ IF act[e].seen \in {"pending", "running"}
       THEN pc' = [pc EXCEPT ![e] = "invoke"] /\ UNCHANGED <<frame, act>>
       ELSE EntryFailed(e)
    /\ UNCHANGED <<durable, up, loaded, lock, callers, counts, history>>

\* fireNodeStateTrigger(start): the write is decided by the status read in
\* the step before; "succeeded" and "failed" permit no start.
FireStart(e) ==
    LET n == act[e].node IN
    /\ pc[e] = "start"
    /\ IF act[e].seen \in {"pending", "running"}
       THEN /\ node' = [node EXCEPT ![n].status = "running", ![n].attempts = act[e].attempts]
            /\ pc' = [pc EXCEPT ![e] = "invoke"]
            /\ UNCHANGED <<frame, act>>
       ELSE EntryFailed(e) /\ UNCHANGED node
    /\ UNCHANGED <<run, output, approval, open, up, loaded, lock, callers, counts, history>>

\* Fault: a policy question that was answered once is not asked again.
RequestHuman_OnlyOnce(e, policy) ==
    /\ open' = IF policy /\ approval[act[e].node] # "none" THEN open
               ELSE Append(open, [node |-> act[e].node, policy |-> policy])
    /\ pc' = [pc EXCEPT ![e] = "park"]

\* RequestHuman: a new open pending item, whatever items are open already;
\* the action reports ErrPending.
RequestHuman(e, policy) ==
    /\ open' = Append(open, [node |-> act[e].node, policy |-> policy])
    /\ pc' = [pc EXCEPT ![e] = "park"]

\* Fault: any answer to the policy question counts as an approval.
PolicyApprovalGranted_Any(n) == approval[n] # "none"

\* policyApprovalGranted.
PolicyApprovalGranted(n) == approval[n] = "yes"

\* executeStateActionAttempt before the action itself: input validation, the
\* policy decision and the rate limit may refuse the attempt; a gated node
\* without an approval will ask for one; human.request asks its question.
Invoke(e) ==
    LET n == act[e].node IN
    /\ pc[e] = "invoke"
    /\ \/ /\ n \in Rejectable
          /\ pc' = [pc EXCEPT ![e] = "attempt"]
          /\ UNCHANGED open
       \/ Kind[n] = "human" /\ RequestHuman(e, FALSE)
       \/ /\ Kind[n] = "gated" /\ ~PolicyApprovalGranted(n)
          /\ pc' = [pc EXCEPT ![e] = "ask"]
          /\ UNCHANGED open
       \/ /\ Kind[n] = "effect" \/ (Kind[n] = "gated" /\ PolicyApprovalGranted(n))
          /\ pc' = [pc EXCEPT ![e] = "act"]
          /\ UNCHANGED open
    /\ UNCHANGED <<run, node, output, approval, up, loaded, lock, frame, act, callers,
                   counts, history>>

\* The policy question, on the strength of the approval that was missing one
\* step ago.
AskPolicy(e) ==
    /\ pc[e] = "ask"
    /\ RequestHuman(e, TRUE)
    /\ UNCHANGED <<run, node, output, approval, up, loaded, lock, frame, act, callers,
                   counts, history>>

\* The registered action runs (tool, MCP, command, model, nested runbook...):
\* it succeeds with one of its triggers, or fails and the loop goes on.
Execute(e) ==
    LET n == act[e].node IN
    /\ pc[e] = "act"
    /\ effects' = [effects EXCEPT ![n] = effects[n] + 1]
    /\ \/ /\ \E t \in Suggests[n] : act' = [act EXCEPT ![e].result = t]
          /\ wins' = [wins EXCEPT ![n] = wins[n] + 1]
          /\ pc' = [pc EXCEPT ![e] = "save"]
       \/ /\ pc' = [pc EXCEPT ![e] = "attempt"]
          /\ UNCHANGED <<act, wins>>
    /\ UNCHANGED <<durable, up, loaded, lock, frame, callers, counts, granted>>

\* SaveStepOutput of a successful attempt.
SaveOutput(e) ==
    /\ pc[e] = "save"
    /\ output' = [output EXCEPT ![act[e].node] = "succeeded"]
    /\ pc' = [pc EXCEPT ![e] = "succeed"]
    /\ UNCHANGED <<run, node, approval, open, up, loaded, lock, frame, act, callers,
                   counts, history>>

\* fireNodeStateTrigger(succeed), then the loop of executeStateEntry goes on.
\* Only this goroutine writes the row of a node that is not human.request,
\* so its read and its write are one step here.
FireSucceed(e) ==
    LET n == act[e].node
        t == act[e].result
    IN
    /\ pc[e] = "succeed"
    /\ IF node[n].status = "running"
       THEN /\ node' = [node EXCEPT ![n] = [status |-> "succeeded", trigger |-> t,
                                            attempts |-> act[e].attempts]]
            /\ frame' = [frame EXCEPT ![e].next = frame[e].next + 1,
                   ![e].trigger = IF t = NoTrigger THEN frame[e].trigger ELSE t]
            /\ pc' = [pc EXCEPT ![e] = "entry"]
            /\ act' = [act EXCEPT ![e] = NoAct]
       ELSE EntryFailed(e) /\ UNCHANGED node
    /\ UNCHANGED <<run, output, approval, open, up, loaded, lock, callers, counts, history>>

\* Fault: the failed node gets no output of its own.
SaveFailure_Silent(e) ==
    /\ pc[e] = "exhausted"
    /\ pc' = [pc EXCEPT ![e] = "failread"]
    /\ UNCHANGED <<durable, up, loaded, lock, frame, act, callers, counts, history>>

\* The attempts are used up: SaveStepOutput of the failure...
SaveFailure(e) ==
    /\ pc[e] = "exhausted"
    /\ output' = [output EXCEPT ![act[e].node] = "failed"]
    /\ pc' = [pc EXCEPT ![e] = "failread"]
    /\ UNCHANGED <<run, node, approval, open, up, loaded, lock, frame, act, callers,
                   counts, history>>

\* ... then fireNodeStateTrigger(fail) reads the row...
FireFailRead(e) ==
    /\ pc[e] = "failread"
    /\ act' = [act EXCEPT ![e].seen = node[act[e].node].status]
    /\ pc' = [pc EXCEPT ![e] = "fail"]
    /\ UNCHANGED <<durable, up, loaded, lock, frame, callers, counts, history>>

\* ... and writes it when a running node was read; the entry fails either way.
FireFail(e) ==
    LET n == act[e].node IN
    /\ pc[e] = "fail"
    /\ node' = IF act[e].seen = "running"
               THEN [node EXCEPT ![n].status = "failed", ![n].attempts = act[e].attempts]
               ELSE node
    /\ EntryFailed(e)
    /\ UNCHANGED <<run, output, approval, open, up, loaded, lock, callers, counts, history>>

-----------------------------------------------------------------------------
(* The ends of executeRun.  Each rereads or remembers run.State before it   *)
(* writes the row, and none of them looks at the status it overwrites.      *)

\* ErrPending reached executeRun: it rereads the run...
ParkRun(e) ==
    /\ pc[e] = "park"
    /\ frame' = [frame EXCEPT ![e].seen = run.state]
    /\ pc' = [pc EXCEPT ![e] = "wait"]
    /\ UNCHANGED <<durable, up, loaded, lock, act, callers, counts, history>>

\* ... and marks it waiting.
WaitRun(e) ==
    /\ pc[e] = "wait"
    /\ run' = [status |-> "waiting", state |-> frame[e].seen]
    /\ Leave(e)
    /\ UNCHANGED <<node, output, approval, open, up, loaded, callers, counts, history>>

\* The machine ended with "succeeded": executeStateMachine rereads the run...
MachineEnded(e) ==
    /\ pc[e] = "ended"
    /\ frame' = [frame EXCEPT ![e].seen = run.state]
    /\ pc' = [pc EXCEPT ![e] = "finish"]
    /\ UNCHANGED <<durable, up, loaded, lock, act, callers, counts, history>>

\* ... and marks it succeeded.
FinishRun(e) ==
    /\ pc[e] = "finish"
    /\ run' = [status |-> "succeeded", state |-> frame[e].seen]
    /\ Leave(e)
    /\ UNCHANGED <<node, output, approval, open, up, loaded, callers, counts, history>>

\* failRun, with the run.State that executeRun loaded at its start.
FailRun(e) ==
    /\ pc[e] = "error"
    /\ run' = [status |-> "failed", state |-> frame[e].seen]
    /\ Leave(e)
    /\ UNCHANGED <<node, output, approval, open, up, loaded, callers, counts, history>>

-----------------------------------------------------------------------------
(* Signal and completePendingSignals, without the run mutex.                *)

\* GetRun and DescribeDefinition; any status is accepted.  The payload's
\* "approved" is the answer, and counts as "yes" when it is absent.
SignalBegin(g) ==
    /\ up /\ loaded /\ run.status # "none"
    /\ sig[g].pc = "idle" /\ signals < MaxSignals
    /\ \E a \in Answers :
          sig' = [sig EXCEPT ![g] = [NoSig EXCEPT !.pc = "list", !.state = run.state,
                                                  !.answer = a]]
    /\ signals' = signals + 1
    /\ UNCHANGED <<durable, up, loaded, lock, pc, frame, act, starter, cancel,
                   cancels, crashes, reloads, history>>

\* ListOpenPendingItems.
SignalList(g) ==
    /\ sig[g].pc = "list"
    /\ sig' = [sig EXCEPT ![g].pc = "close", ![g].items = open]
    /\ UNCHANGED <<durable, up, loaded, lock, pc, frame, act, starter, cancel, counts, history>>

\* Fault: a refusal leaves its items open.
SignalClose_KeepRefused(g) ==
    /\ sig[g].pc = "close"
    /\ open' = IF sig[g].answer = "yes" THEN <<>> ELSE open
    /\ sig' = [sig EXCEPT ![g].pc = "apply"]
    /\ UNCHANGED <<run, node, output, approval, up, loaded, lock, pc, frame, act, starter,
                   cancel, counts, history>>

\* CompletePendingItems: every item that is open NOW is answered.
SignalClose(g) ==
    /\ sig[g].pc = "close"
    /\ open' = <<>>
    /\ sig' = [sig EXCEPT ![g].pc = "apply"]
    /\ UNCHANGED <<run, node, output, approval, up, loaded, lock, pc, frame, act, starter,
                   cancel, counts, history>>

\* completePendingSignals, one listed item: SaveStepOutput under the item's
\* step.  A ".policy" item needs no more; the node of a human.request is
\* then fired.  The attempts are read just before that save, which commutes
\* with every write of the node's row.
SignalSave(g) ==
    LET s == sig[g]
        item == Head(s.items)
        n == item.node
    IN
    /\ s.pc = "apply" /\ s.items # <<>>
    /\ IF item.policy
       THEN /\ approval' = [approval EXCEPT ![n] = s.answer]
            /\ granted' = IF s.answer = "yes" THEN granted \cup {n} ELSE granted
            /\ sig' = [sig EXCEPT ![g].items = Tail(s.items)]
            /\ UNCHANGED output
       ELSE /\ output' = [output EXCEPT ![n] = "succeeded"]
            /\ sig' = [sig EXCEPT ![g].pc = "read", ![g].attempts =
                         IF CompletedAttempts(n) = 0 THEN 1 ELSE CompletedAttempts(n)]
            /\ UNCHANGED <<approval, granted>>
    /\ UNCHANGED <<run, node, open, up, loaded, lock, pc, frame, act, starter, cancel,
                   counts, effects, wins>>

\* fireNodeStateTrigger(succeed) reads the node's status...
SignalFireRead(g) ==
    /\ sig[g].pc = "read"
    /\ sig' = [sig EXCEPT ![g].pc = "fire", ![g].seen = node[Head(sig[g].items).node].status]
    /\ UNCHANGED <<durable, up, loaded, lock, pc, frame, act, starter, cancel, counts, history>>

\* Fault: the node row takes the pending item's status word.
SignalFire_ItemStatus(g) ==
    LET s == sig[g] IN
    /\ s.pc = "fire"
    /\ node' = [node EXCEPT ![Head(s.items).node].status = "completed"]
    /\ sig' = [sig EXCEPT ![g].pc = "apply", ![g].items = Tail(s.items)]
    /\ UNCHANGED <<run, output, approval, open, up, loaded, lock, pc, frame, act, starter,
                   cancel, counts, history>>

\* ... and writes it if it was running; otherwise Signal returns the error,
\* with its items completed and the run not resumed.
SignalFire(g) ==
    LET s == sig[g]
        n == Head(s.items).node
    IN
    /\ s.pc = "fire"
    /\ IF s.seen = "running"
       THEN /\ node' = [node EXCEPT ![n] = [status |-> "succeeded", attempts |-> s.attempts,
                                            trigger |-> NoTrigger]]
            /\ sig' = [sig EXCEPT ![g].pc = "apply", ![g].items = Tail(s.items)]
       ELSE /\ sig' = [sig EXCEPT ![g] = NoSig]
            /\ UNCHANGED node
    /\ UNCHANGED <<run, output, approval, open, up, loaded, lock, pc, frame, act, starter,
                   cancel, counts, history>>

\* All listed items are applied: the run row becomes running, with the state
\* read when Signal began.
SignalRunning(g) ==
    /\ sig[g].pc = "apply" /\ sig[g].items = <<>>
    /\ run' = [status |-> "running", state |-> sig[g].state]
    /\ sig' = [sig EXCEPT ![g].pc = "spawn"]
    /\ UNCHANGED <<node, output, approval, open, up, loaded, lock, pc, frame, act, starter,
                   cancel, counts, history>>

\* Fault: Signal returns without resuming the run.
SignalSpawn_Forgotten(g) ==
    /\ sig[g].pc = "spawn"
    /\ sig' = [sig EXCEPT ![g] = NoSig]
    /\ UNCHANGED <<durable, up, loaded, lock, pc, frame, act, starter, cancel, counts, history>>

\* go s.executeRun.
SignalSpawn(g) ==
    /\ sig[g].pc = "spawn"
    /\ Spawn
    /\ sig' = [sig EXCEPT ![g] = NoSig]
    /\ UNCHANGED <<durable, up, loaded, lock, frame, act, starter, cancel, counts, history>>

-----------------------------------------------------------------------------
(* Cancel, restarts, reloads.                                               *)

\* Cancel reads the run, whatever its status...
CancelRead ==
    /\ up /\ run.status # "none"
    /\ cancel.pc = "idle" /\ cancels < MaxCancels
    /\ cancel' = [pc |-> "write", state |-> run.state]
    /\ cancels' = cancels + 1
    /\ UNCHANGED <<durable, up, loaded, lock, pc, frame, act, starter, sig,
                   signals, crashes, reloads, history>>

\* ... and writes status canceled without the run mutex.
CancelWrite ==
    /\ cancel.pc = "write"
    /\ run' = [status |-> "canceled", state |-> cancel.state]
    /\ cancel' = NoCancel
    /\ UNCHANGED <<node, output, approval, open, up, loaded, lock, pc, frame, act, starter,
                   sig, counts, history>>

\* The process dies: every goroutine, call and mutex is gone, the database stays.
Crash ==
    /\ up /\ crashes < MaxCrashes
    /\ up' = FALSE
    /\ crashes' = crashes + 1
    /\ lock' = None
    /\ pc' = [e \in Exec |-> "idle"]
    /\ frame' = [e \in Exec |-> NoFrame]
    /\ act' = [e \in Exec |-> NoAct]
    /\ sig' = [g \in Sig |-> NoSig]
    /\ cancel' = NoCancel
    /\ starter' = IF starter = "created" THEN "done" ELSE starter
    /\ UNCHANGED <<durable, loaded, signals, cancels, reloads, history>>

\* Fault: a failed run is resumed as well.
Open_FailedToo ==
    /\ ~up
    /\ up' = TRUE
    /\ IF run.status \in {"running", "failed"} THEN Spawn ELSE UNCHANGED pc
    /\ UNCHANGED <<durable, loaded, lock, frame, act, callers, counts, history>>

\* Fault: no run is resumed after a restart.
Open_NoResume ==
    /\ ~up
    /\ up' = TRUE
    /\ UNCHANGED <<durable, loaded, lock, pc, frame, act, callers, counts, history>>

\* Open: definitions are reloaded and ResumeActiveRuns spawns one goroutine
\* for a run whose status is running; a waiting run is left to its signal.
Open ==
    /\ ~up
    /\ up' = TRUE
    /\ IF run.status = "running" THEN Spawn ELSE UNCHANGED pc
    /\ UNCHANGED <<durable, loaded, lock, frame, act, callers, counts, history>>

\* ReloadDefinitions after the definition file was removed or restored.
ReloadDefinitions ==
    /\ up /\ reloads < MaxReloads
    /\ loaded' = ~loaded
    /\ reloads' = reloads + 1
    /\ UNCHANGED <<durable, up, lock, pc, frame, act, callers, signals, cancels, crashes,
                   history>>

-----------------------------------------------------------------------------
\* One step of one executeRun goroutine, once it has the mutex.
Walk(e) ==
    \/ LoadRun(e) \/ EnterState(e) \/ NextEntry(e) \/ EntryDone(e) \/ Transit(e)
    \/ CountAttempts(e) \/ NextAttempt(e) \/ FireStart(e) \/ Invoke(e) \/ AskPolicy(e) \/ Execute(e)
    \/ SaveOutput(e) \/ FireSucceed(e) \/ SaveFailure(e) \/ FireFailRead(e) \/ FireFail(e)
    \/ ParkRun(e) \/ WaitRun(e) \/ MachineEnded(e) \/ FinishRun(e) \/ FailRun(e)

\* One step of a Signal call that has begun.
Signal(g) ==
    \/ SignalList(g) \/ SignalClose(g) \/ SignalSave(g) \/ SignalFireRead(g)
    \/ SignalFire(g) \/ SignalRunning(g) \/ SignalSpawn(g)

Next ==
    \/ StartRunbook \/ StartSpawn
    \/ \E e \in Exec : LockRun(e) \/ Walk(e)
    \/ \E g \in Sig : SignalBegin(g) \/ Signal(g)
    \/ CancelRead \/ CancelWrite
    \/ Crash \/ Open \/ ReloadDefinitions

Spec == Init /\ [][Next]_vars

\* Goroutines and calls in progress keep running, the mutex is granted
\* (Go's sync.Mutex starves nobody), the service is started again; nobody
\* has to start a run, send a signal, cancel, crash or reload.
Fairness ==
    /\ WF_vars(StartSpawn) /\ WF_vars(CancelWrite) /\ WF_vars(Open)
    /\ \A e \in Exec : WF_vars(Walk(e)) /\ SF_vars(LockRun(e))
    /\ \A g \in Sig : WF_vars(Signal(g))

-----------------------------------------------------------------------------
(* Properties.                                                              *)

StateWord == States \cup {NoState, "running"}
Trigger == Triggers \cup {NoTrigger}
NodeRow == [status : NodeStatuses, attempts : Nat, trigger : Trigger]
Level == [state : States, depth : Nat]
Frame == [state : States \cup {NoState}, depth : Nat, stack : Seq(Level), next : Nat \ {0},
          trigger : Trigger, seen : StateWord]
Locals == [node : Nodes \cup {NoNode}, attempts : Nat, seen : NodeStatuses, result : Trigger]
SignalCall == [pc : {"idle", "list", "close", "apply", "read", "fire", "spawn"},
               state : StateWord, answer : Answers, items : Seq(Item),
               attempts : Nat, seen : NodeStatuses]

TypeOK ==
    /\ run \in [status : RunStatuses, state : StateWord]
    /\ node \in [Nodes -> NodeRow]
    /\ output \in [Nodes -> {"none", "succeeded", "failed"}]
    /\ approval \in [Nodes -> Answers \cup {"none"}]
    /\ open \in Seq(Item)
    /\ up \in BOOLEAN /\ loaded \in BOOLEAN
    /\ lock \in Exec \cup {None}
    /\ pc \in [Exec -> ExecPCs]
    /\ frame \in [Exec -> Frame]
    /\ act \in [Exec -> Locals]
    /\ starter \in {"no", "created", "done"}
    /\ sig \in [Sig -> SignalCall]
    /\ cancel \in [pc : {"idle", "write"}, state : StateWord]
    /\ signals \in Nat /\ cancels \in Nat /\ crashes \in Nat /\ reloads \in Nat
    /\ effects \in [Nodes -> Nat] /\ wins \in [Nodes -> Nat]
    /\ granted \subseteq Nodes

\* No goroutine and no call is under way.
Quiet ==
    /\ up /\ starter # "created" /\ cancel.pc = "idle"
    /\ \A e \in Exec : pc[e] = "idle"
    /\ \A g \in Sig : sig[g].pc = "idle"

\* An entry action is executed at most once per attempt it is entitled to,
\* retries included, plus once per crash: the durable attempt count, which
\* nodeStateAttempts corrects for an unfinished attempt, carries the budget
\* across pauses, signals and restarts.
EffectBudget == \A n \in Nodes : effects[n] <= Retry[n] + 1 + crashes

\* An action that succeeded is not executed again, however many goroutines
\* signals and restarts spawn; only a crash between its effect and the write
\* of "succeeded" can repeat it.
NoDuplicateSuccess == \A n \in Nodes : wins[n] <= 1 + crashes

\* What an entry action does to the world is bounded, both ways: executeEntryAction
\* never starts it oftener than its attempts allow, nor again once it succeeded.
EffectsAreBounded == EffectBudget /\ NoDuplicateSuccess

\* An action that needs approval has no effect before somebody approved it:
\* the policy gate of executeStateActionAttempt, across resumes.
ApprovalFirst == \A n \in Nodes : Kind[n] = "gated" /\ effects[n] > 0 => n \in granted

OwnNodes == {n \in Nodes : Kind[n] # "human"}

Lifecycle == INSTANCE NodeLifecycle WITH
    Node <- OwnNodes,
    status <- [n \in OwnNodes |-> node[n].status],
    effects <- [n \in OwnNodes |-> effects[n]],
    wins <- [n \in OwnNodes |-> wins[n]]

\* The nodes the runtime executes itself follow the node lifecycle that
\* fireNodeStateTrigger configures, whatever signals, cancels, crashes and
\* reloads do: the detailed specification implements NodeLifecycle.
NodesFollowLifecycle == Lifecycle!Spec

\* A run left waiting has a question somebody can answer: "waiting" with an
\* empty inbox is a run that nothing resumes (ResumeActiveRuns does not).  A
\* crash inside Signal can leave such a run, which is why none is allowed here.
WaitingHasQuestion == crashes = 0 /\ Quiet /\ run.status = "waiting" => open # <<>>

\* Node state and step output, two rows written one after the other by two
\* kinds of callers, end up with the same verdict, restarts included.
VerdictsAgree == Quiet => \A n \in Nodes :
    node[n].status \in {"succeeded", "failed"} => output[n] = node[n].status

\* The inbox never shows the same question twice: RequestHuman itself does not look for an
\* open item of the step (a run that crashes while it asks asks again when it is resumed);
\* and a run that succeeded leaves no question behind in it.
InboxIsClean ==
    /\ crashes = 0 => \A i, j \in DOMAIN open : open[i] = open[j] => i = j
    /\ Quiet /\ run.status = "succeeded" => open = <<>>

\* A node's verdict is never overwritten, human.request nodes included:
\* fireNodeStateTrigger permits nothing from "succeeded" and "failed".
VerdictsAreFinal == [][\A n \in Nodes :
    node[n].status \in {"succeeded", "failed"} => node'[n] = node[n]]_vars

\* A finished run stays finished: the queue worker and the clients stop
\* looking at a run that is succeeded, failed or canceled.
FinishedIsFinal == [][run.status \in Finished => run'.status \in Finished]_vars

\* A running run eventually pauses or ends: no wakeup is lost between the
\* signal, the mutex and a restart, and no state machine runs forever.
RunSettles == run.status = "running" ~> run.status # "running"

\* A signal that was accepted leads to the end of the run or to the next
\* question: no answer is swallowed, unless the process dies over it.
AnswerIsFollowedUp == \A g \in Sig :
    sig[g].pc # "idle" ~> (run.status \in Finished \/ open # <<>> \/ crashes > 0)

-----------------------------------------------------------------------------
\* Next with callers that answer the inbox of a waiting run only.  Nothing in
\* Signal enforces it; the runs that assume it say so.
PatientNext ==
    \/ StartRunbook \/ StartSpawn
    \/ \E e \in Exec : LockRun(e) \/ Walk(e)
    \/ \E g \in Sig : (run.status = "waiting" /\ SignalBegin(g)) \/ Signal(g)
    \/ CancelRead \/ CancelWrite
    \/ Crash \/ Open \/ ReloadDefinitions

PatientSpec == Init /\ [][PatientNext]_vars /\ Fairness
=============================================================================
