------------------------- MODULE RunbookRun_patient -------------------------
(***************************************************************************)
(* What holds of a run when nobody cancels it and one caller at a time     *)
(* answers its questions, only while it waits: PatientSpec, for every      *)
(* runbook definition and any number of goroutines, crashes and reloads.   *)
(* Nothing in Signal and Cancel enforces that discipline, and without it   *)
(* the properties below are false.                                         *)
(***************************************************************************)
EXTENDS RunbookRun_safety

\* One caller, and nobody who cancels.
OneAtATime == MaxCancels = 0 /\ \A g, h \in Sig : g = h

WalksIdle == \A e \in Exec : pc[e] = "idle"
CallsIdle == \A g \in Sig : sig[g].pc = "idle"

\* The run is in one hand at a time: StartRunbook's, a goroutine's or a signal's.
One ==
    /\ cancel.pc = "idle" /\ cancels = 0
    /\ starter = "no" <=> run.status = "none"
    /\ starter # "done" \/ ~up => WalksIdle /\ CallsIdle
    /\ starter = "created" => up /\ run.status = "running"
    /\ \A e \in Exec : pc[e] # "idle" =>
          /\ run.status = "running" /\ CallsIdle
          /\ \A d \in Exec : d # e => pc[d] = "idle"
    /\ \A g \in Sig : sig[g].pc # "idle" =>
          run.status = IF sig[g].pc = "spawn" THEN "running" ELSE "waiting"

LEMMA PatientStep == [PatientNext]_vars => [Next]_vars
  BY DEF PatientNext, Next

LEMMA PatientInvariant == PatientSpec => []IInv
  BY InitIInv, NextIInv, PatientStep, PTL DEF PatientSpec

-----------------------------------------------------------------------------
(* The steps of signals and goroutines, read off field by field.            *)

\* One step of a Signal call that has begun.
CallStep(g) ==
    LET s == sig[g]
        t == sig'[g]
        n == Head(s.items).node
    IN
    \/ /\ s.pc = "list" /\ t.pc = "close" /\ t.items = open /\ UNCHANGED <<durable, pc>>
    \/ /\ s.pc = "close" /\ t.pc = "apply" /\ t.items = s.items
       /\ open' = <<>> /\ UNCHANGED <<run, node, output, approval, pc>>
    \/ /\ s.pc = "apply" /\ t.pc = "apply" /\ s.items # <<>> /\ t.items = Tail(s.items)
       /\ Head(s.items).policy /\ approval' = [approval EXCEPT ![n] = s.answer]
       /\ UNCHANGED <<run, node, output, open, pc>>
    \/ /\ s.pc = "apply" /\ t.pc = "read" /\ s.items # <<>> /\ t.items = s.items
       /\ ~Head(s.items).policy /\ output' = [output EXCEPT ![n] = "succeeded"]
       /\ t.attempts = IF CompletedAttempts(n) = 0 THEN 1 ELSE CompletedAttempts(n)
       /\ UNCHANGED <<run, node, approval, open, pc>>
    \/ /\ s.pc = "read" /\ t.pc = "fire" /\ t.items = s.items /\ t.attempts = s.attempts
       /\ t.seen = node[n].status /\ UNCHANGED <<durable, pc>>
    \/ /\ s.pc = "fire" /\ t.pc = "apply" /\ s.seen = "running" /\ t.items = Tail(s.items)
       /\ node' = [node EXCEPT ![n] = [status |-> "succeeded", attempts |-> s.attempts,
                                       trigger |-> NoTrigger]]
       /\ UNCHANGED <<run, output, approval, open, pc>>
    \/ /\ s.pc = "fire" /\ t.pc = "idle" /\ t.items = <<>> /\ s.seen # "running"
       /\ UNCHANGED <<durable, pc>>
    \/ /\ s.pc = "apply" /\ t.pc = "spawn" /\ s.items = <<>> /\ t.items = <<>>
       /\ run' = [status |-> "running", state |-> s.state]
       /\ UNCHANGED <<node, output, approval, open, pc>>
    \/ /\ s.pc = "spawn" /\ t.pc = "idle" /\ t.items = <<>> /\ Spawn /\ UNCHANGED durable

LEMMA CallSteps ==
  ASSUME TInv, NEW g \in Sig, Signal(g)
  PROVE  /\ CallStep(g) /\ sig[g].pc # "idle" /\ (sig'[g].pc # "idle" => sig'[g].answer = sig[g].answer)
         /\ UNCHANGED <<up, starter, cancel, counts, frame, act>>
<1> DEFINE s == sig[g]
           n == Head(s.items).node
<1>1. s \in SignalCall
  BY CallOf
<1>2. ASSUME NEW c, sig' = [sig EXCEPT ![g] = c] PROVE sig'[g] = c
  BY <1>2 DEF TInv, TypeOK
<1> USE DEF durable
<1>3. CASE SignalList(g)
  <2> DEFINE c == [s EXCEPT !.pc = "close", !.items = open]
  <2>1. c.pc = "close" /\ c.items = open /\ c.answer = s.answer
    BY <1>1 DEF SignalCall
  <2>3. sig' = [sig EXCEPT ![g] = c]
    BY <1>3 DEF SignalList
  <2> HIDE DEF c
  <2>2. sig'[g] = c
    BY <1>2, <2>3
  <2> QED BY <1>3, <2>1, <2>2 DEF SignalList, CallStep
<1>4. CASE SignalClose(g)
  <2> DEFINE c == [s EXCEPT !.pc = "apply"]
  <2>1. c.pc = "apply" /\ c.items = s.items /\ c.answer = s.answer
    BY <1>1 DEF SignalCall
  <2>3. sig' = [sig EXCEPT ![g] = c]
    BY <1>4 DEF SignalClose
  <2> HIDE DEF c
  <2>2. sig'[g] = c
    BY <1>2, <2>3
  <2> QED BY <1>4, <2>1, <2>2 DEF SignalClose, CallStep
<1>5. CASE SignalSave(g)
  <2> DEFINE k == IF CompletedAttempts(n) = 0 THEN 1 ELSE CompletedAttempts(n)
             c == [s EXCEPT !.items = Tail(s.items)]
             d == [s EXCEPT !.pc = "read", !.attempts = k]
  <2>1. CASE Head(s.items).policy
    <3>1. c.pc = s.pc /\ c.items = Tail(s.items) /\ c.answer = s.answer
      BY <1>1 DEF SignalCall
    <3>3. sig' = [sig EXCEPT ![g] = c]
      BY <1>5, <2>1 DEF SignalSave
    <3> HIDE DEF c
    <3>2. sig'[g] = c
      BY <1>2, <3>3
    <3> QED BY <1>5, <2>1, <3>1, <3>2 DEF SignalSave, CallStep
  <2>2. CASE ~Head(s.items).policy
    <3>1. d.pc = "read" /\ d.items = s.items /\ d.answer = s.answer /\ d.attempts = k
      BY <1>1 DEF SignalCall
    <3>3. sig' = [sig EXCEPT ![g] = d]
      BY <1>5, <2>2 DEF SignalSave
    <3> HIDE DEF d
    <3>2. sig'[g] = d
      BY <1>2, <3>3
    <3> QED BY <1>5, <2>2, <3>1, <3>2 DEF SignalSave, CallStep
  <2> QED BY <2>1, <2>2
<1>6. CASE SignalFireRead(g)
  <2> DEFINE c == [s EXCEPT !.pc = "fire", !.seen = node[n].status]
  <2>1. c.pc = "fire" /\ c.items = s.items /\ c.answer = s.answer /\ c.attempts = s.attempts
        /\ c.seen = node[n].status
    BY <1>1 DEF SignalCall
  <2>3. sig' = [sig EXCEPT ![g] = c]
    BY <1>6 DEF SignalFireRead
  <2> HIDE DEF c
  <2>2. sig'[g] = c
    BY <1>2, <2>3
  <2> QED BY <1>6, <2>1, <2>2 DEF SignalFireRead, CallStep
<1>7. CASE SignalFire(g)
  <2> DEFINE c == [s EXCEPT !.pc = "apply", !.items = Tail(s.items)]
  <2>1. c.pc = "apply" /\ c.items = Tail(s.items) /\ c.answer = s.answer
    BY <1>1 DEF SignalCall
  <2>4. s.seen = "running" => sig' = [sig EXCEPT ![g] = c]
    BY <1>7 DEF SignalFire
  <2> HIDE DEF c
  <2>2. CASE s.seen = "running"
    <3>1. sig'[g] = c
      BY <1>2, <2>4, <2>2
    <3> QED BY <1>7, <2>1, <2>2, <3>1 DEF SignalFire, CallStep
  <2>3. CASE s.seen # "running"
    <3>1. sig'[g] = NoSig /\ NoSig.pc = "idle" /\ NoSig.items = <<>>
      BY <1>2, <1>7, <2>3 DEF SignalFire, NoSig
    <3> QED BY <1>7, <2>3, <3>1 DEF SignalFire, CallStep
  <2> QED BY <2>2, <2>3
<1>8. CASE SignalRunning(g)
  <2> DEFINE c == [s EXCEPT !.pc = "spawn"]
  <2>1. c.pc = "spawn" /\ c.items = s.items /\ c.answer = s.answer
    BY <1>1 DEF SignalCall
  <2>3. sig' = [sig EXCEPT ![g] = c]
    BY <1>8 DEF SignalRunning
  <2> HIDE DEF c
  <2>2. sig'[g] = c
    BY <1>2, <2>3
  <2> QED BY <1>8, <2>1, <2>2 DEF SignalRunning, CallStep
<1>9. CASE SignalSpawn(g)
  <2>1. sig'[g] = NoSig /\ NoSig.pc = "idle" /\ NoSig.items = <<>>
    BY <1>2, <1>9 DEF SignalSpawn, NoSig
  <2> QED BY <1>9, <2>1 DEF SignalSpawn, CallStep
<1> QED BY <1>3, <1>4, <1>5, <1>6, <1>7, <1>8, <1>9 DEF Signal

\* A signal begins.
LEMMA CallBegins ==
  ASSUME TInv, NEW g \in Sig, SignalBegin(g)
  PROVE  /\ sig[g].pc = "idle" /\ sig'[g].pc = "list" /\ sig'[g].items = <<>> /\ up /\ run.status # "none"
         /\ UNCHANGED <<durable, pc, up, starter, cancel, cancels, crashes, frame, act>>
<1>1. PICK a \in Answers : sig' = [sig EXCEPT ![g] =
                             [NoSig EXCEPT !.pc = "list", !.state = run.state, !.answer = a]]
  BY DEF SignalBegin
<1> DEFINE c == [NoSig EXCEPT !.pc = "list", !.state = run.state, !.answer = a]
<1>2. c.pc = "list" /\ c.items = <<>>
  BY DEF NoSig
<1>3. sig' = [sig EXCEPT ![g] = c]
  BY <1>1
<1> HIDE DEF c
<1>4. sig'[g] = c
  BY <1>3 DEF TInv, TypeOK
<1> QED BY <1>2, <1>4 DEF SignalBegin

\* Goroutine e goes from step p to step q.
Goes(e, p, q) == pc[e] = p /\ pc'[e] = q

\* The place of goroutine e in the state machine: everything but frame[e].seen.
Lands(e, s, d, k, n, t) ==
    /\ frame'[e].state = s /\ frame'[e].depth = d /\ frame'[e].stack = k
    /\ frame'[e].next = n /\ frame'[e].trigger = t

Stays(e) == LET f == frame[e] IN Lands(e, f.state, f.depth, f.stack, f.next, f.trigger)

\* The row of node n, and no other, is written.
Writes(n, s, a) ==
    /\ node'[n].status = s /\ node'[n].attempts = a
    /\ \A m \in Nodes : m # n => node'[m] = node[m]

\* A step between the actions: only the place and the run row change.
PlaceStep(e) ==
    LET f == frame[e]
        n == Entry[f.state][f.next]
        target == Goto[f.state][f.trigger]
        top == f.stack[Len(f.stack)]
    IN
    \/ Goes(e, "load", "idle") /\ run.status \in {"canceled", "succeeded"} /\ UNCHANGED run
    \/ Goes(e, "load", "error") /\ UNCHANGED run
    \/ Goes(e, "load", "enter") /\ Lands(e, InitialState, 0, <<>>, 1, NoTrigger) /\ UNCHANGED run
    \/ Goes(e, "enter", "error") /\ f.depth > MaxDepth /\ UNCHANGED run
    \/ /\ Goes(e, "enter", "entry") /\ ~(f.depth > MaxDepth)
       /\ Lands(e, f.state, f.depth, f.stack, 1, NoTrigger) /\ run'.status = "running"
    \/ /\ Goes(e, "entry", "entry") /\ f.next <= Len(Entry[f.state]) /\ node[n].status = "succeeded"
       /\ Lands(e, f.state, f.depth, f.stack, f.next + 1,
                IF node[n].trigger = NoTrigger THEN f.trigger ELSE node[n].trigger)
       /\ UNCHANGED run
    \/ /\ Goes(e, "entry", "transit") /\ f.next <= Len(Entry[f.state]) /\ node[n].status = "failed"
       /\ Lands(e, f.state, f.depth, f.stack, f.next, "failed") /\ UNCHANGED run
    \/ /\ Goes(e, "entry", "count") /\ f.next <= Len(Entry[f.state])
       /\ node[n].status \notin {"succeeded", "failed"} /\ act'[e].node = n
       /\ Stays(e) /\ UNCHANGED run
    \/ /\ Goes(e, "entry", "enter") /\ f.next > Len(Entry[f.state]) /\ Child[f.state] # NoState
       /\ Lands(e, Child[f.state], f.depth + 1,
                Append(f.stack, [state |-> f.state, depth |-> f.depth]), f.next, f.trigger)
       /\ UNCHANGED run
    \/ /\ Goes(e, "entry", "transit") /\ f.next > Len(Entry[f.state]) /\ Child[f.state] = NoState
       /\ Lands(e, f.state, f.depth, f.stack, f.next,
                IF f.trigger = NoTrigger THEN "succeeded" ELSE f.trigger)
       /\ UNCHANGED run
    \/ /\ Goes(e, "transit", "enter") /\ target # NoState
       /\ Lands(e, target, f.depth + 1, f.stack, f.next, f.trigger) /\ UNCHANGED run
    \/ /\ Goes(e, "transit", "transit") /\ target = NoState /\ f.stack # <<>>
       /\ Lands(e, top.state, top.depth, SubSeq(f.stack, 1, Len(f.stack) - 1), f.next, f.trigger)
       /\ UNCHANGED run
    \/ /\ Goes(e, "transit", "ended") /\ target = NoState /\ f.stack = <<>> /\ f.trigger = "succeeded"
       /\ Stays(e) /\ UNCHANGED run
    \/ /\ Goes(e, "transit", "error") /\ target = NoState /\ f.stack = <<>>
       /\ f.trigger # "succeeded" /\ Stays(e) /\ UNCHANGED run
    \/ Goes(e, "park", "wait") /\ Stays(e) /\ UNCHANGED <<run, act>>
    \/ Goes(e, "ended", "finish") /\ Stays(e) /\ UNCHANGED run
    \/ Goes(e, "wait", "idle") /\ run'.status = "waiting"
    \/ Goes(e, "finish", "idle") /\ run'.status = "succeeded"
    \/ Goes(e, "error", "idle") /\ run'.status = "failed"

\* A step of executeStateAction for node act[e].node.
NodeStep(e) ==
    LET n == act[e].node
        a == act[e].attempts
        f == frame[e]
        Failing == pc'[e] = "transit" /\ Lands(e, f.state, f.depth, f.stack, f.next, "failed")
        Going(p, q) == Goes(e, p, q) /\ UNCHANGED frame /\ act'[e].node = n
        Same == UNCHANGED <<node, output, open>>
        Locally == act'[e].attempts = a /\ act'[e].seen = act[e].seen
    IN
    \/ Going("count", "attempt") /\ act'[e].attempts = CompletedAttempts(n) /\ Same
    \/ /\ Going("attempt", "start") /\ a < Retry[n] + 1 /\ Same
       /\ act'[e].attempts = a + 1 /\ act'[e].seen = node[n].status
    \/ Going("attempt", "exhausted") /\ ~(a < Retry[n] + 1) /\ Locally /\ Same
    \/ /\ Going("start", "invoke") /\ act[e].seen \in {"pending", "running"} /\ Locally
       /\ Writes(n, "running", a)
       /\ UNCHANGED <<output, open>>
    \/ pc[e] = "start" /\ act[e].seen \notin {"pending", "running"} /\ Failing /\ Same
    \/ Going("invoke", "attempt") /\ n \in Rejectable /\ Locally /\ Same
    \/ /\ Going("invoke", "park") /\ Kind[n] = "human" /\ Locally
       /\ open' = Append(open, [node |-> n, policy |-> FALSE]) /\ UNCHANGED <<node, output>>
    \/ Going("invoke", "ask") /\ Kind[n] = "gated" /\ approval[n] # "yes" /\ Locally /\ Same
    \/ /\ Going("invoke", "act") /\ Locally /\ Same
       /\ Kind[n] = "effect" \/ (Kind[n] = "gated" /\ approval[n] = "yes")
    \/ /\ Going("ask", "park") /\ Locally
       /\ open' = Append(open, [node |-> n, policy |-> TRUE]) /\ UNCHANGED <<node, output>>
    \/ Going("act", "save") /\ Locally /\ Same
    \/ Going("act", "attempt") /\ Locally /\ Same
    \/ /\ Going("save", "succeed") /\ output' = [output EXCEPT ![n] = "succeeded"] /\ Locally
       /\ UNCHANGED <<node, open>>
    \/ /\ Goes(e, "succeed", "entry") /\ node[n].status = "running"
       /\ Writes(n, "succeeded", a) /\ node'[n].trigger = act[e].result
       /\ Lands(e, f.state, f.depth, f.stack, f.next + 1,
                IF act[e].result = NoTrigger THEN f.trigger ELSE act[e].result)
       /\ UNCHANGED <<output, open>>
    \/ pc[e] = "succeed" /\ node[n].status # "running" /\ Failing /\ Same
    \/ /\ Going("exhausted", "failread") /\ output' = [output EXCEPT ![n] = "failed"] /\ Locally
       /\ UNCHANGED <<node, open>>
    \/ /\ Going("failread", "fail") /\ act'[e].attempts = a /\ act'[e].seen = node[n].status /\ Same
    \/ /\ pc[e] = "fail" /\ act[e].seen = "running" /\ Failing
       /\ Writes(n, "failed", a)
       /\ UNCHANGED <<output, open>>
    \/ pc[e] = "fail" /\ act[e].seen # "running" /\ Failing /\ Same

LEMMA PlaceSteps ==
  ASSUME TInv, NEW e \in Exec, Between(e) \/ NextEntry(e)
  PROVE  PlaceStep(e) /\ UNCHANGED <<node, output, approval, open>>
<1> DEFINE f == frame[e]
<1>1. f \in Frame
  BY DEF TInv, TypeOK
<1>2. ASSUME NEW g, frame' = [frame EXCEPT ![e] = g] PROVE frame'[e] = g
  BY <1>2 DEF TInv, TypeOK
<1>3. ASSUME NEW p, pc' = [pc EXCEPT ![e] = p] PROVE pc'[e] = p
  BY <1>3 DEF TInv, TypeOK
<1> USE DEF durable
<1>4. CASE LoadRun(e)
  <2> DEFINE g == [NoFrame EXCEPT !.state = InitialState, !.seen = run.state]
  <2>1. /\ g.state = InitialState /\ g.depth = 0 /\ g.stack = <<>> /\ g.next = 1
        /\ g.trigger = NoTrigger
    BY DEF NoFrame
  <2>2. CASE run.status \in {"canceled", "succeeded"}
    <3>1. pc'[e] = "idle" /\ pc[e] = "load" /\ UNCHANGED durable
      BY <1>3, <1>4, <2>2 DEF LoadRun, Leave
    <3> QED BY <2>2, <3>1 DEF PlaceStep, Goes
  <2>3. CASE run.status \notin {"canceled", "succeeded"}
    <3>1. frame' = [frame EXCEPT ![e] = g] /\ pc[e] = "load" /\ UNCHANGED durable
          /\ pc' = [pc EXCEPT ![e] = IF loaded THEN "enter" ELSE "error"]
      BY <1>4, <2>3 DEF LoadRun
    <3> HIDE DEF g
    <3>2. frame'[e] = g /\ pc'[e] \in {"enter", "error"}
      BY <1>2, <1>3, <3>1
    <3> QED BY <2>1, <3>1, <3>2 DEF PlaceStep, Goes, Lands
  <2> QED BY <2>2, <2>3
<1>5. CASE EnterState(e)
  <2>1. CASE f.depth > MaxDepth
    <3>1. pc[e] = "enter" /\ pc'[e] = "error" /\ UNCHANGED durable
      BY <1>3, <1>5, <2>1 DEF EnterState
    <3> QED BY <2>1, <3>1 DEF PlaceStep, Goes
  <2>2. CASE ~(f.depth > MaxDepth)
    <3> DEFINE g == [f EXCEPT !.next = 1, !.trigger = NoTrigger]
    <3>1. /\ g.state = f.state /\ g.depth = f.depth /\ g.stack = f.stack /\ g.next = 1
          /\ g.trigger = NoTrigger
      BY <1>1 DEF Frame
    <3>2. /\ frame' = [frame EXCEPT ![e] = g] /\ pc[e] = "enter" /\ pc' = [pc EXCEPT ![e] = "entry"]
          /\ run' = [status |-> "running", state |-> f.state]
          /\ UNCHANGED <<node, output, approval, open>>
      BY <1>5, <2>2, ZenonT(40) DEF EnterState
    <3> HIDE DEF g
    <3>3. frame'[e] = g /\ pc'[e] = "entry"
      BY <1>2, <1>3, <3>2
    <3> QED BY <2>2, <3>1, <3>2, <3>3 DEF PlaceStep, Goes, Lands
  <2> QED BY <2>1, <2>2
<1>6. CASE NextEntry(e)
  <2> DEFINE n == Entry[f.state][f.next]
             t == IF node[n].trigger = NoTrigger THEN f.trigger ELSE node[n].trigger
             g == [f EXCEPT !.next = f.next + 1, !.trigger = t]
             h == [f EXCEPT !.trigger = "failed"]
             b == [NoAct EXCEPT !.node = n]
  <2>1. pc[e] = "entry" /\ f.next <= Len(Entry[f.state]) /\ UNCHANGED durable
    BY <1>6 DEF NextEntry
  <2>2. CASE node[n].status = "succeeded"
    <3>1. /\ g.state = f.state /\ g.depth = f.depth /\ g.stack = f.stack /\ g.next = f.next + 1
          /\ g.trigger = t
      BY <1>1 DEF Frame
    <3>2. frame' = [frame EXCEPT ![e] = g] /\ pc' = pc
      BY <1>6, <2>2 DEF NextEntry
    <3> HIDE DEF g
    <3>3. frame'[e] = g
      BY <1>2, <3>2
    <3> QED BY <2>1, <2>2, <3>1, <3>2, <3>3 DEF PlaceStep, Goes, Lands
  <2>3. CASE node[n].status = "failed"
    <3>1. /\ h.state = f.state /\ h.depth = f.depth /\ h.stack = f.stack /\ h.next = f.next
          /\ h.trigger = "failed"
      BY <1>1 DEF Frame
    <3>2. frame' = [frame EXCEPT ![e] = h] /\ pc' = [pc EXCEPT ![e] = "transit"]
      BY <1>6, <2>3 DEF NextEntry
    <3> HIDE DEF h
    <3>3. frame'[e] = h /\ pc'[e] = "transit"
      BY <1>2, <1>3, <3>2
    <3> QED BY <2>1, <2>3, <3>1, <3>2, <3>3 DEF PlaceStep, Goes, Lands
  <2>4. CASE node[n].status \notin {"succeeded", "failed"}
    <3>1. b.node = n
      BY DEF NoAct
    <3>2. act' = [act EXCEPT ![e] = b] /\ pc' = [pc EXCEPT ![e] = "count"] /\ frame' = frame
      BY <1>6, <2>4 DEF NextEntry
    <3> HIDE DEF b
    <3>3. act'[e] = b /\ pc'[e] = "count"
      BY <1>3, <3>2 DEF TInv, TypeOK
    <3> QED BY <2>1, <2>4, <3>1, <3>2, <3>3 DEF PlaceStep, Goes, Lands, Stays
  <2> QED BY <2>2, <2>3, <2>4
<1>7. CASE EntryDone(e)
  <2> DEFINE t == IF f.trigger = NoTrigger THEN "succeeded" ELSE f.trigger
             l == [state |-> f.state, depth |-> f.depth]
             g == [f EXCEPT !.state = Child[f.state], !.depth = f.depth + 1,
                            !.stack = Append(f.stack, l)]
             h == [f EXCEPT !.trigger = t]
  <2>1. pc[e] = "entry" /\ f.next > Len(Entry[f.state]) /\ UNCHANGED durable
    BY <1>7 DEF EntryDone
  <2>2. CASE Child[f.state] # NoState
    <3>1. /\ g.state = Child[f.state] /\ g.depth = f.depth + 1 /\ g.stack = Append(f.stack, l)
          /\ g.next = f.next /\ g.trigger = f.trigger
      BY <1>1 DEF Frame
    <3>2. frame' = [frame EXCEPT ![e] = g] /\ pc' = [pc EXCEPT ![e] = "enter"]
      BY <1>7, <2>2 DEF EntryDone
    <3> HIDE DEF g
    <3>3. frame'[e] = g /\ pc'[e] = "enter"
      BY <1>2, <1>3, <3>2
    <3> QED BY <2>1, <2>2, <3>1, <3>3 DEF PlaceStep, Goes, Lands
  <2>3. CASE Child[f.state] = NoState
    <3>1. /\ h.state = f.state /\ h.depth = f.depth /\ h.stack = f.stack /\ h.next = f.next
          /\ h.trigger = t
      BY <1>1 DEF Frame
    <3>2. frame' = [frame EXCEPT ![e] = h] /\ pc' = [pc EXCEPT ![e] = "transit"]
      BY <1>7, <2>3 DEF EntryDone
    <3> HIDE DEF h
    <3>3. frame'[e] = h /\ pc'[e] = "transit"
      BY <1>2, <1>3, <3>2
    <3> QED BY <2>1, <2>3, <3>1, <3>3 DEF PlaceStep, Goes, Lands
  <2> QED BY <2>2, <2>3
<1>8. CASE Transit(e)
  <2> DEFINE target == Goto[f.state][f.trigger]
             top == f.stack[Len(f.stack)]
             g == [f EXCEPT !.state = target, !.depth = f.depth + 1]
             h == [f EXCEPT !.state = top.state, !.depth = top.depth,
                            !.stack = SubSeq(f.stack, 1, Len(f.stack) - 1)]
  <2>1. pc[e] = "transit" /\ UNCHANGED durable
    BY <1>8 DEF Transit
  <2>2. CASE target # NoState
    <3>1. /\ g.state = target /\ g.depth = f.depth + 1 /\ g.stack = f.stack
          /\ g.next = f.next /\ g.trigger = f.trigger
      BY <1>1 DEF Frame
    <3>2. frame' = [frame EXCEPT ![e] = g] /\ pc' = [pc EXCEPT ![e] = "enter"]
      BY <1>8, <2>2, ZenonT(40) DEF Transit
    <3> HIDE DEF g
    <3>3. frame'[e] = g /\ pc'[e] = "enter"
      BY <1>2, <1>3, <3>2
    <3> QED BY <2>1, <2>2, <3>1, <3>3 DEF PlaceStep, Goes, Lands
  <2>3. CASE target = NoState /\ f.stack # <<>>
    <3>1. /\ h.state = top.state /\ h.depth = top.depth /\ h.next = f.next /\ h.trigger = f.trigger
          /\ h.stack = SubSeq(f.stack, 1, Len(f.stack) - 1)
      BY <1>1 DEF Frame
    <3>2. frame' = [frame EXCEPT ![e] = h] /\ pc' = pc
      BY <1>8, <2>3, ZenonT(40) DEF Transit
    <3> HIDE DEF h
    <3>3. frame'[e] = h
      BY <1>2, <3>2
    <3> QED BY <2>1, <2>3, <3>1, <3>2, <3>3 DEF PlaceStep, Goes, Lands
  <2>4. CASE target = NoState /\ f.stack = <<>>
    <3>1. frame' = frame /\ pc'[e] = IF f.trigger = "succeeded" THEN "ended" ELSE "error"
      BY <1>3, <1>8, <2>4 DEF Transit
    <3> QED BY <2>1, <2>4, <3>1 DEF PlaceStep, Goes, Lands, Stays
  <2> QED BY <2>2, <2>3, <2>4
<1>9. CASE ParkRun(e) \/ MachineEnded(e)
  <2> DEFINE g == [f EXCEPT !.seen = run.state]
  <2>1. /\ g.state = f.state /\ g.depth = f.depth /\ g.stack = f.stack /\ g.next = f.next
        /\ g.trigger = f.trigger
    BY <1>1 DEF Frame
  <2>2. frame' = [frame EXCEPT ![e] = g] /\ UNCHANGED <<durable, act>>
    BY <1>9 DEF ParkRun, MachineEnded
  <2>3. \/ pc[e] = "park" /\ pc'[e] = "wait"
        \/ pc[e] = "ended" /\ pc'[e] = "finish"
    BY <1>3, <1>9 DEF ParkRun, MachineEnded
  <2> HIDE DEF g
  <2>4. frame'[e] = g
    BY <1>2, <2>2
  <2> QED BY <2>1, <2>2, <2>3, <2>4 DEF PlaceStep, Goes, Lands, Stays
<1>10. CASE WaitRun(e) \/ FinishRun(e) \/ FailRun(e)
  <2>1. pc'[e] = "idle" /\ UNCHANGED <<node, output, approval, open>>
    BY <1>3, <1>10 DEF WaitRun, FinishRun, FailRun, Leave
  <2>2. \/ pc[e] = "wait" /\ run'.status = "waiting"
        \/ pc[e] = "finish" /\ run'.status = "succeeded"
        \/ pc[e] = "error" /\ run'.status = "failed"
    BY <1>10 DEF WaitRun, FinishRun, FailRun
  <2> QED BY <2>1, <2>2 DEF PlaceStep, Goes
<1> QED BY <1>4, <1>5, <1>6, <1>7, <1>8, <1>9, <1>10 DEF Between

LEMMA NodeSteps ==
  ASSUME TInv, NEW e \in Exec, Walk(e), ~Between(e), ~NextEntry(e)
  PROVE  NodeStep(e) /\ pc[e] \in InAction /\ UNCHANGED <<run, approval>>
<1> DEFINE f == frame[e]
           n == act[e].node
           a == act[e].attempts
           x == [f EXCEPT !.trigger = "failed"]
<1>1. /\ f \in Frame /\ act[e] \in Locals
      /\ x.state = f.state /\ x.depth = f.depth /\ x.stack = f.stack /\ x.next = f.next
      /\ x.trigger = "failed"
  BY DEF TInv, TypeOK, Frame
<1>2. ASSUME NEW g, frame' = [frame EXCEPT ![e] = g] PROVE frame'[e] = g
  BY <1>2 DEF TInv, TypeOK
<1>3. ASSUME NEW p, pc' = [pc EXCEPT ![e] = p] PROVE pc'[e] = p
  BY <1>3 DEF TInv, TypeOK
<1>4. ASSUME NEW b, act' = [act EXCEPT ![e] = b] PROVE act'[e] = b
  BY <1>4 DEF TInv, TypeOK
<1>5. ASSUME EntryFailed(e)
      PROVE  pc'[e] = "transit" /\ Lands(e, f.state, f.depth, f.stack, f.next, "failed")
  <2>1. frame' = [frame EXCEPT ![e] = x] /\ pc' = [pc EXCEPT ![e] = "transit"]
    BY <1>5 DEF EntryFailed
  <2> HIDE DEF x
  <2> QED BY <1>1, <1>2, <1>3, <2>1 DEF Lands
<1>6. pc[e] \in InAction => node[n] \in NodeRow
  BY LocalsOf DEF TInv, TypeOK
<1> HIDE DEF x
<1> USE DEF durable, Goes
<1>7. CASE CountAttempts(e)
  <2> DEFINE b == [act[e] EXCEPT !.attempts = CompletedAttempts(n)]
  <2>1. b.node = n /\ b.attempts = CompletedAttempts(n)
    BY <1>1 DEF Locals
  <2>2. act' = [act EXCEPT ![e] = b] /\ pc[e] = "count" /\ pc' = [pc EXCEPT ![e] = "attempt"]
        /\ UNCHANGED <<durable, frame>>
    BY <1>7 DEF CountAttempts
  <2> HIDE DEF b
  <2>3. act'[e] = b /\ pc'[e] = "attempt"
    BY <1>3, <1>4, <2>2
  <2> QED BY <2>1, <2>2, <2>3 DEF NodeStep, InAction
<1>8. CASE NextAttempt(e)
  <2> DEFINE b == [act[e] EXCEPT !.attempts = a + 1, !.seen = node[n].status]
  <2>1. b.node = n /\ b.attempts = a + 1 /\ b.seen = node[n].status
    BY <1>1 DEF Locals
  <2>2. pc[e] = "attempt" /\ UNCHANGED <<durable, frame>>
    BY <1>8 DEF NextAttempt
  <2>3. CASE a < Retry[n] + 1
    <3>1. act' = [act EXCEPT ![e] = b] /\ pc' = [pc EXCEPT ![e] = "start"]
      BY <1>8, <2>3 DEF NextAttempt
    <3> HIDE DEF b
    <3>2. act'[e] = b /\ pc'[e] = "start"
      BY <1>3, <1>4, <3>1
    <3> QED BY <2>1, <2>2, <2>3, <3>2 DEF NodeStep, InAction
  <2>4. CASE ~(a < Retry[n] + 1)
    <3>1. act' = act /\ pc'[e] = "exhausted"
      BY <1>3, <1>8, <2>4 DEF NextAttempt
    <3> QED BY <2>2, <2>4, <3>1 DEF NodeStep, InAction
  <2> QED BY <2>3, <2>4
<1>9. CASE FireStart(e)
  <2>1. pc[e] = "start" /\ UNCHANGED <<run, output, approval, open>>
    BY <1>9 DEF FireStart
  <2>2. CASE act[e].seen \in {"pending", "running"}
    <3> DEFINE r == [node[n] EXCEPT !.status = "running", !.attempts = a]
    <3>1. node' = [node EXCEPT ![n] = r] /\ pc'[e] = "invoke" /\ UNCHANGED <<frame, act>>
      BY <1>3, <1>9, <2>2 DEF FireStart
    <3>2. r.status = "running" /\ r.attempts = a /\ n \in Nodes
      BY <1>6, <2>1, LocalsOf DEF NodeRow, InAction
    <3> HIDE DEF r
    <3>3. Writes(n, "running", a)
      BY <3>1, <3>2 DEF Writes, TInv, TypeOK
    <3> QED BY <2>1, <2>2, <3>1, <3>3 DEF NodeStep, InAction
  <2>3. CASE act[e].seen \notin {"pending", "running"}
    <3>1. EntryFailed(e) /\ UNCHANGED node
      BY <1>9, <2>3 DEF FireStart
    <3> QED BY <1>5, <2>1, <2>3, <3>1 DEF NodeStep, InAction
  <2> QED BY <2>2, <2>3
<1>10. CASE Invoke(e)
  <2>1. pc[e] = "invoke" /\ UNCHANGED <<run, node, output, approval, frame, act>>
    BY <1>10 DEF Invoke
  <2>2. CASE n \in Rejectable /\ pc' = [pc EXCEPT ![e] = "attempt"] /\ UNCHANGED open
    <3>1. pc'[e] = "attempt"
      BY <1>3, <2>2
    <3> QED BY <2>1, <2>2, <3>1 DEF NodeStep, InAction
  <2>3. CASE Kind[n] = "human" /\ RequestHuman(e, FALSE)
    <3>1. pc'[e] = "park" /\ open' = Append(open, [node |-> n, policy |-> FALSE])
      BY <1>3, <2>3 DEF RequestHuman
    <3> QED BY <2>1, <2>3, <3>1 DEF NodeStep, InAction
  <2>4. CASE Kind[n] = "gated" /\ ~PolicyApprovalGranted(n) /\ pc' = [pc EXCEPT ![e] = "ask"]
             /\ UNCHANGED open
    <3>1. pc'[e] = "ask"
      BY <1>3, <2>4
    <3> QED BY <2>1, <2>4, <3>1 DEF NodeStep, InAction, PolicyApprovalGranted
  <2>5. CASE /\ Kind[n] = "effect" \/ (Kind[n] = "gated" /\ PolicyApprovalGranted(n))
             /\ pc' = [pc EXCEPT ![e] = "act"] /\ UNCHANGED open
    <3>1. pc'[e] = "act"
      BY <1>3, <2>5
    <3> QED BY <2>1, <2>5, <3>1 DEF NodeStep, InAction, PolicyApprovalGranted
  <2> QED BY <1>10, <2>2, <2>3, <2>4, <2>5 DEF Invoke
<1>11. CASE AskPolicy(e)
  <2>1. /\ pc[e] = "ask" /\ UNCHANGED <<run, node, output, approval, frame, act>>
        /\ pc'[e] = "park" /\ open' = Append(open, [node |-> n, policy |-> TRUE])
    BY <1>3, <1>11 DEF AskPolicy, RequestHuman
  <2> QED BY <2>1 DEF NodeStep, InAction
<1>12. CASE Execute(e)
  <2>1. pc[e] = "act" /\ UNCHANGED <<durable, frame>>
    BY <1>12 DEF Execute
  <2>2. ASSUME NEW t \in Suggests[n], act' = [act EXCEPT ![e].result = t],
               pc' = [pc EXCEPT ![e] = "save"]
        PROVE  /\ pc'[e] = "save" /\ act'[e].node = n /\ act'[e].attempts = a
               /\ act'[e].seen = act[e].seen
    <3> DEFINE b == [act[e] EXCEPT !.result = t]
    <3>1. b.node = n /\ b.attempts = a /\ b.seen = act[e].seen
      BY <1>1 DEF Locals
    <3>2. act' = [act EXCEPT ![e] = b]
      BY <2>2
    <3> HIDE DEF b
    <3> QED BY <1>3, <1>4, <2>2, <3>1, <3>2
  <2>3. CASE pc' = [pc EXCEPT ![e] = "attempt"] /\ UNCHANGED act
    <3>1. pc'[e] = "attempt"
      BY <1>3, <2>3
    <3> QED BY <2>1, <2>3, <3>1 DEF NodeStep, InAction
  <2>4. CASE \E t \in Suggests[n] : act' = [act EXCEPT ![e].result = t] /\ pc' = [pc EXCEPT ![e] = "save"]
    BY <2>1, <2>2, <2>4 DEF NodeStep, InAction
  <2> QED BY <1>12, <2>3, <2>4 DEF Execute
<1>13. CASE SaveOutput(e)
  <2>1. /\ pc[e] = "save" /\ UNCHANGED <<run, node, approval, open, frame, act>>
        /\ pc'[e] = "succeed" /\ output' = [output EXCEPT ![n] = "succeeded"]
    BY <1>3, <1>13 DEF SaveOutput
  <2> QED BY <2>1 DEF NodeStep, InAction
<1>14. CASE FireSucceed(e)
  <2> DEFINE t == act[e].result
             u == IF t = NoTrigger THEN f.trigger ELSE t
             g == [f EXCEPT !.next = f.next + 1, !.trigger = u]
  <2>1. pc[e] = "succeed" /\ UNCHANGED <<run, output, approval, open>>
    BY <1>14 DEF FireSucceed
  <2>2. CASE node[n].status = "running"
    <3>1. /\ g.state = f.state /\ g.depth = f.depth /\ g.stack = f.stack /\ g.next = f.next + 1
          /\ g.trigger = u
      BY <1>1 DEF Frame
    <3> DEFINE r == [status |-> "succeeded", trigger |-> t, attempts |-> a]
    <3>2. /\ node' = [node EXCEPT ![n] = r] /\ frame' = [frame EXCEPT ![e] = g]
          /\ pc' = [pc EXCEPT ![e] = "entry"]
      BY <1>14, <2>2 DEF FireSucceed
    <3>4. n \in Nodes /\ r.status = "succeeded" /\ r.attempts = a /\ r.trigger = t
      BY <2>1, LocalsOf DEF InAction
    <3> HIDE DEF g, r
    <3>3. frame'[e] = g /\ pc'[e] = "entry"
      BY <1>2, <1>3, <3>2
    <3>5. Writes(n, "succeeded", a) /\ node'[n].trigger = t
      BY <3>2, <3>4 DEF Writes, TInv, TypeOK
    <3> QED BY <2>1, <2>2, <3>1, <3>3, <3>5 DEF NodeStep, InAction, Lands
  <2>3. CASE node[n].status # "running"
    <3>1. EntryFailed(e) /\ UNCHANGED node
      BY <1>14, <2>3 DEF FireSucceed
    <3> QED BY <1>5, <2>1, <2>3, <3>1 DEF NodeStep, InAction
  <2> QED BY <2>2, <2>3
<1>15. CASE SaveFailure(e)
  <2>1. /\ pc[e] = "exhausted" /\ UNCHANGED <<run, node, approval, open, frame, act>>
        /\ pc'[e] = "failread" /\ output' = [output EXCEPT ![n] = "failed"]
    BY <1>3, <1>15 DEF SaveFailure
  <2> QED BY <2>1 DEF NodeStep, InAction
<1>16. CASE FireFailRead(e)
  <2> DEFINE b == [act[e] EXCEPT !.seen = node[n].status]
  <2>1. b.node = n /\ b.attempts = a /\ b.seen = node[n].status
    BY <1>1 DEF Locals
  <2>2. act' = [act EXCEPT ![e] = b] /\ pc[e] = "failread" /\ pc' = [pc EXCEPT ![e] = "fail"]
        /\ UNCHANGED <<durable, frame>>
    BY <1>16 DEF FireFailRead
  <2> HIDE DEF b
  <2>3. act'[e] = b /\ pc'[e] = "fail"
    BY <1>3, <1>4, <2>2
  <2> QED BY <2>1, <2>2, <2>3 DEF NodeStep, InAction
<1>17. CASE FireFail(e)
  <2>1. pc[e] = "fail" /\ EntryFailed(e) /\ UNCHANGED <<run, output, approval, open>>
    BY <1>17 DEF FireFail
  <2>2. CASE act[e].seen = "running"
    <3> DEFINE r == [node[n] EXCEPT !.status = "failed", !.attempts = a]
    <3>1. node' = [node EXCEPT ![n] = r]
      BY <1>17, <2>2 DEF FireFail
    <3>2. r.status = "failed" /\ r.attempts = a /\ n \in Nodes
      BY <1>6, <2>1, LocalsOf DEF NodeRow, InAction
    <3> HIDE DEF r
    <3>3. Writes(n, "failed", a)
      BY <3>1, <3>2 DEF Writes, TInv, TypeOK
    <3> QED BY <1>5, <2>1, <2>2, <3>3 DEF NodeStep, InAction
  <2>3. CASE act[e].seen # "running"
    <3>1. UNCHANGED node
      BY <1>17, <2>3 DEF FireFail
    <3> QED BY <1>5, <2>1, <2>3, <3>1 DEF NodeStep, InAction
  <2> QED BY <2>2, <2>3
<1> QED BY <1>7, <1>8, <1>9, <1>10, <1>11, <1>12, <1>13, <1>14, <1>15, <1>16, <1>17 DEF Walk, Between

-----------------------------------------------------------------------------
(* One hand at a time.                                                      *)

(* What a step of a goroutine past lockRun does to the run row, and what it *)
(* leaves to the other actors.                                              *)
LEMMA WalkRun ==
  ASSUME TInv, NEW e \in Exec, Walk(e)
  PROVE  /\ UNCHANGED <<up, loaded, starter, sig, cancel, cancels>>
         /\ pc[e] # "idle" /\ run.status # "none" => run'.status # "none"
         /\ pc'[e] # "idle" => run'.status = "running" \/ run' = run
<1> USE DEF TInv, TypeOK, durable, callers, counts
<1>1. CASE LoadRun(e)
  BY <1>1 DEF LoadRun, Leave
<1>2. CASE EnterState(e)
  <2>1. run' = run \/ run'.status = "running"
    BY <1>2 DEF EnterState
  <2> QED BY <1>2, <2>1 DEF EnterState
<1>3. CASE WaitRun(e) \/ FinishRun(e) \/ FailRun(e)
  <2>1. run'.status # "none" /\ pc'[e] = "idle"
    BY <1>3 DEF WaitRun, FinishRun, FailRun, Leave
  <2> QED BY <1>3, <2>1 DEF WaitRun, FinishRun, FailRun
<1>4. CASE NextEntry(e) \/ EntryDone(e) \/ Transit(e) \/ ParkRun(e) \/ MachineEnded(e)
           \/ CountAttempts(e) \/ NextAttempt(e) \/ FireFailRead(e)
  BY <1>4 DEF NextEntry, EntryDone, Transit, ParkRun, MachineEnded, CountAttempts, NextAttempt,
              FireFailRead
<1>5. CASE FireStart(e) \/ FireSucceed(e) \/ FireFail(e) \/ Invoke(e) \/ AskPolicy(e) \/ Execute(e)
           \/ SaveOutput(e) \/ SaveFailure(e)
  BY <1>5 DEF FireStart, FireSucceed, FireFail, Invoke, AskPolicy, Execute, SaveOutput, SaveFailure
<1> QED BY <1>1, <1>2, <1>3, <1>4, <1>5 DEF Walk

LEMMA InitOne == Init => One
  BY DEF Init, One, NoCancel, NoSig, WalksIdle, CallsIdle

LEMMA WalkOne == ASSUME TInv, One, NEW e \in Exec, Walk(e) PROVE One'
<1>1. \A d \in Exec : d # e => pc'[d] = pc[d]
  BY WalkFrame
<1>2. pc[e] # "idle"
  BY WalkFrame DEF Locked
<1>3. UNCHANGED <<up, loaded, starter, sig, cancel, cancels>>
  BY WalkRun
<1>4. run.status = "running" /\ CallsIdle /\ up /\ starter = "done"
      /\ \A d \in Exec : d # e => pc'[d] = "idle"
  BY <1>1, <1>2 DEF One, WalksIdle, TInv, TypeOK
<1>5. run'.status # "none" /\ (pc'[e] # "idle" => run'.status = "running")
  BY <1>2, <1>4, WalkRun
<1> QED BY <1>3, <1>4, <1>5 DEF One, CallsIdle, WalksIdle

\* A goroutine is spawned by whoever holds the run, and nobody else is under way.
LEMMA SpawnOne ==
  ASSUME TInv, Spawn, WalksIdle, run.status = "running", CallsIdle', UNCHANGED <<run, cancel, cancels>>,
         cancel.pc = "idle", cancels = 0, up', starter' = "done"
  PROVE  One'
<1>1. PICK e \in Exec : pc[e] = "idle" /\ pc' = [pc EXCEPT ![e] = "lock"]
  BY DEF Spawn
<1>2. \A d \in Exec : d # e => pc'[d] = "idle"
  BY <1>1 DEF WalksIdle, TInv, TypeOK
<1> QED BY <1>2 DEF One, CallsIdle, WalksIdle

LEMMA OthersOne ==
  ASSUME TInv, One, OneAtATime,
         \/ StartRunbook \/ StartSpawn \/ CancelRead \/ CancelWrite \/ Crash \/ Open
         \/ ReloadDefinitions \/ (\E e \in Exec : LockRun(e)) \/ UNCHANGED vars
  PROVE  One'
<1> USE DEF durable, callers, counts
<1>1. CASE StartRunbook
  BY <1>1 DEF StartRunbook, One, WalksIdle, CallsIdle
<1>2. CASE StartSpawn
  BY <1>2, SpawnOne DEF StartSpawn, One, CallsIdle
<1>3. CASE CancelRead \/ CancelWrite
  <2>1. MaxCancels = 0 /\ cancels = 0 /\ cancel.pc = "idle"
    BY DEF OneAtATime, One
  <2> QED BY <1>3, <2>1 DEF CancelRead, CancelWrite
<1>4. CASE Crash
  <2>1. /\ \A e \in Exec : pc'[e] = "idle"
        /\ \A g \in Sig : sig'[g].pc = "idle"
    BY <1>4 DEF Crash, NoSig
  <2>2. starter' # "created" /\ (starter' = "no" <=> starter = "no") /\ cancel'.pc = "idle"
        /\ UNCHANGED <<run, cancels>>
    BY <1>4 DEF Crash, NoCancel
  <2> QED BY <2>1, <2>2 DEF One, WalksIdle, CallsIdle
<1>5. CASE Open
  <2>1. ~up /\ WalksIdle /\ CallsIdle /\ starter # "created" /\ up' /\ UNCHANGED <<run, callers, cancels>>
    BY <1>5 DEF Open, One
  <2>2. CASE run.status = "running"
    <3>1. starter = "done" /\ Spawn
      BY <1>5, <2>1, <2>2 DEF Open, One, TInv, TypeOK
    <3> QED BY <2>1, <2>2, <3>1, SpawnOne DEF One, CallsIdle
  <2>3. CASE run.status # "running"
    <3>1. pc' = pc
      BY <1>5, <2>3 DEF Open
    <3> QED BY <2>1, <3>1 DEF One, CallsIdle, WalksIdle
  <2> QED BY <2>2, <2>3
<1>6. CASE ReloadDefinitions \/ UNCHANGED vars
  BY <1>6 DEF ReloadDefinitions, vars, One, WalksIdle, CallsIdle
<1>7. ASSUME NEW e \in Exec, LockRun(e) PROVE One'
  <2>1. pc[e] = "lock" /\ pc' = [pc EXCEPT ![e] = "load"] /\ UNCHANGED <<durable, up, callers, cancels>>
    BY <1>7 DEF LockRun
  <2>2. \A d \in Exec : pc'[d] = "idle" <=> pc[d] = "idle"
    BY <2>1 DEF TInv, TypeOK
  <2> QED BY <2>1, <2>2 DEF One, CallsIdle, WalksIdle
<1> QED BY <1>1, <1>2, <1>3, <1>4, <1>5, <1>6, <1>7

LEMMA CallOne ==
  ASSUME TInv, One, OneAtATime, NEW g \in Sig,
         (run.status = "waiting" /\ SignalBegin(g)) \/ Signal(g)
  PROVE  One'
<1> USE DEF durable, counts
<1>0. (run.status = "waiting" /\ SignalBegin(g)) \/ (Signal(g) /\ sig[g].pc # "idle")
  BY CallSteps
<1>1. run.status # "none" /\ WalksIdle /\ up /\ starter = "done"
      /\ \A h \in Sig : h = g
  BY <1>0, CallBegins DEF One, OneAtATime, WalksIdle, CallsIdle, TInv, TypeOK
<1>2. ASSUME UNCHANGED <<up, starter, cancel, cancels, pc>>,
             run'.status = IF sig'[g].pc = "spawn" THEN "running" ELSE "waiting"
      PROVE  One'
  BY <1>1, <1>2 DEF One, WalksIdle, CallsIdle
<1>3. CASE run.status = "waiting" /\ SignalBegin(g)
  BY <1>2, <1>3, CallBegins
<1>4. CASE Signal(g)
  <2>1. /\ CallStep(g) /\ UNCHANGED <<up, starter, cancel, cancels>>
        /\ run.status = IF sig[g].pc = "spawn" THEN "running" ELSE "waiting"
    BY <1>4, CallSteps DEF One
  <2>2. CASE sig[g].pc = "spawn"
    <3>1. Spawn /\ UNCHANGED run /\ sig'[g].pc = "idle"
      BY <2>1, <2>2 DEF CallStep
    <3> QED BY <1>1, <2>1, <2>2, <3>1, SpawnOne DEF CallsIdle, One
  <2>3. CASE sig[g].pc # "spawn"
    <3>1. pc' = pc /\ run'.status = IF sig'[g].pc = "spawn" THEN "running" ELSE "waiting"
      BY <2>1, <2>3 DEF CallStep
    <3> QED BY <1>2, <2>1, <3>1
  <2> QED BY <2>2, <2>3
<1> QED BY <1>3, <1>4

LEMMA NextOne == ASSUME TInv, One, OneAtATime, [PatientNext]_vars PROVE One'
  BY WalkOne, CallOne, OthersOne DEF PatientNext

LEMMA OneHolds == ASSUME OneAtATime PROVE PatientSpec => []One
<1>1. Init => One
  BY InitOne
<1>2. IInv /\ One /\ [PatientNext]_vars => One'
  BY NextOne DEF IInv
<1> QED BY <1>1, <1>2, PatientInvariant, PTL DEF PatientSpec

-----------------------------------------------------------------------------
(* A finished run stays finished.                                           *)

LEMMA FinishedStays == ASSUME TInv, One, OneAtATime, [PatientNext]_vars, run.status \in Finished
                       PROVE  run'.status \in Finished
<1> USE DEF One, Finished, durable
<1>1. ASSUME NEW e \in Exec, Walk(e) PROVE FALSE
  BY <1>1, WalkFrame DEF Locked
<1>2. ASSUME NEW g \in Sig, (run.status = "waiting" /\ SignalBegin(g)) \/ Signal(g) PROVE run' = run
  BY <1>2, CallSteps
<1>3. ASSUME CancelRead \/ CancelWrite PROVE run' = run
  BY <1>3 DEF CancelRead, CancelWrite
<1>4. ASSUME StartRunbook \/ StartSpawn \/ (\E e \in Exec : LockRun(e)) \/ Crash \/ Open
             \/ ReloadDefinitions \/ UNCHANGED vars
      PROVE  run' = run
  BY <1>4 DEF StartRunbook, StartSpawn, LockRun, Crash, Open, ReloadDefinitions, vars
<1> QED BY <1>1, <1>2, <1>3, <1>4 DEF PatientNext

(* A run that succeeded, failed or was canceled is never revived, as long   *)
(* as callers answer waiting runs only, one at a time, and nobody cancels:  *)
(* executeRun, Signal and restarts together, for every definition.          *)
THEOREM FinishedStaysFinished == ASSUME OneAtATime PROVE PatientSpec => FinishedIsFinal
<1>1. TInv /\ One /\ [PatientNext]_vars => (run.status \in Finished => run'.status \in Finished)
  BY FinishedStays
<1>2. IInv => TInv
  BY DEF IInv
<1>3. TInv /\ One /\ [PatientNext]_vars => [run.status \in Finished => run'.status \in Finished]_vars
  BY <1>1
<1> QED BY <1>2, <1>3, PatientInvariant, OneHolds, PTL DEF PatientSpec, FinishedIsFinal

-----------------------------------------------------------------------------
(* Where a goroutine is tells what its node's row says, and when the inbox  *)
(* is empty.                                                                *)

\* What a goroutine inside executeStateAction knows of the row it works on.
Held(e) ==
    LET n == act[e].node
        f == frame[e]
    IN
    /\ f.next <= Len(Entry[f.state]) /\ n = Entry[f.state][f.next]
    /\ node[n].status \in {"pending", "running"}
    /\ pc[e] \in {"start", "fail"} => act[e].seen = node[n].status
    /\ pc[e] \in {"count", "attempt", "start"} \/ node[n].status = "running"
    /\ pc[e] = "attempt" /\ act[e].attempts > 0 => node[n].status = "running"

Started ==
    /\ \A n \in Nodes : node[n].status = "pending" => node[n].attempts = 0
    /\ \A e \in Exec : pc[e] \in InAction => Held(e)

\* A signal closes the inbox before it applies what it listed.
Closed ==
    /\ MaxCrashes = 0 => crashes = 0
    /\ starter # "done" => open = <<>>
    /\ \A g \in Sig : /\ sig[g].pc \in {"apply", "read", "fire", "spawn"} => open = <<>>
                      /\ sig[g].pc \in {"idle", "list"} => sig[g].items = <<>>
                      /\ sig[g].pc \in {"read", "fire"} => sig[g].items # <<>>

\* What the steps outside of goroutines and signals leave alone.
Aside ==
    /\ UNCHANGED <<node, output, approval, open>>
    /\ \A e \in Exec : \/ pc'[e] = pc[e] /\ act'[e] = act[e] /\ frame'[e] = frame[e]
                       \/ pc'[e] = "idle"
                       \/ pc'[e] \in {"lock", "load"} /\ (pc[e] = "lock" \/ starter = "created" \/ ~up)
    /\ \A g \in Sig : sig'[g] = sig[g] \/ (sig'[g].pc = "idle" /\ sig'[g].items = <<>>)
    /\ starter' # "done" => starter # "done"
    /\ run' = run \/ (starter = "no" /\ run'.status = "running")
    /\ \/ crashes' = crashes /\ UNCHANGED sig /\ (up => up')
       \/ crashes' = crashes + 1 /\ MaxCrashes # 0

Others == \/ StartRunbook \/ StartSpawn \/ CancelRead \/ CancelWrite \/ Crash \/ Open
          \/ ReloadDefinitions \/ (\E e \in Exec : LockRun(e)) \/ UNCHANGED vars

LEMMA OtherSteps == ASSUME TInv, One, OneAtATime, Others PROVE Aside
<1> USE DEF durable, callers, counts
<1>1. CASE StartRunbook
  BY <1>1 DEF StartRunbook, Aside
<1>2. CASE StartSpawn
  BY <1>2 DEF StartSpawn, Spawn, Aside, TInv, TypeOK
<1>3. CASE CancelRead \/ CancelWrite
  <2>1. MaxCancels = 0 /\ cancels = 0 /\ cancel.pc = "idle"
    BY DEF OneAtATime, One
  <2> QED BY <1>3, <2>1 DEF CancelRead, CancelWrite
<1>4. CASE Crash
  <2>1. MaxCrashes # 0 /\ crashes' = crashes + 1
    BY <1>4, BoundsAssumption DEF Crash, TInv, TypeOK
  <2>2. /\ \A e \in Exec : pc'[e] = "idle"
        /\ \A g \in Sig : sig'[g].pc = "idle" /\ sig'[g].items = <<>>
    BY <1>4 DEF Crash, NoSig
  <2>3. UNCHANGED durable /\ (starter' # "done" => starter # "done")
    BY <1>4 DEF Crash
  <2> QED BY <2>1, <2>2, <2>3 DEF Aside
<1>5. CASE Open
  <2>1. ~up /\ up' /\ UNCHANGED <<durable, act, frame, callers, crashes>>
    BY <1>5 DEF Open
  <2>2. \A e \in Exec : pc'[e] = pc[e] \/ pc'[e] = "lock"
    BY <1>5 DEF Open, Spawn, TInv, TypeOK
  <2> QED BY <2>1, <2>2 DEF Aside
<1>6. CASE ReloadDefinitions \/ UNCHANGED vars
  BY <1>6 DEF ReloadDefinitions, vars, Aside
<1>7. ASSUME NEW e \in Exec, LockRun(e) PROVE Aside
  <2>1. pc[e] = "lock" /\ UNCHANGED <<durable, up, act, frame, callers, crashes>>
    BY <1>7 DEF LockRun
  <2>2. \A d \in Exec : pc'[d] = pc[d] \/ (d = e /\ pc'[d] = "load")
    BY <1>7 DEF LockRun, TInv, TypeOK
  <2> QED BY <2>1, <2>2 DEF Aside
<1> QED BY <1>1, <1>2, <1>3, <1>4, <1>5, <1>6, <1>7 DEF Others

\* The one caller, before and after one of its steps: no goroutine is under way.
LEMMA CallAlone ==
  ASSUME TInv, One, OneAtATime, NEW g \in Sig, (run.status = "waiting" /\ SignalBegin(g)) \/ Signal(g)
  PROVE  /\ WalksIdle /\ up /\ starter = "done" /\ \A h \in Sig : h = g
         /\ UNCHANGED <<up, starter, crashes, frame, act>>
         /\ \A e \in Exec : pc'[e] \in {"idle", "lock"}
<1>1. (run.status = "waiting" /\ SignalBegin(g)) \/ (Signal(g) /\ sig[g].pc # "idle")
  BY CallSteps
<1>2. /\ run.status # "none" /\ WalksIdle /\ up /\ starter = "done"
      /\ \A h \in Sig : h = g
  BY <1>1, CallBegins DEF One, OneAtATime, WalksIdle, CallsIdle, TInv, TypeOK
<1>3. UNCHANGED <<up, starter, crashes, frame, act>>
  BY CallBegins, CallSteps DEF counts
<1>4. Spawn => \A e \in Exec : pc'[e] \in {"idle", "lock"}
  BY <1>2 DEF Spawn, WalksIdle, TInv, TypeOK
<1>5. \A e \in Exec : pc'[e] \in {"idle", "lock"}
  <2>1. CASE SignalBegin(g)
    BY <1>2, <2>1, CallBegins DEF WalksIdle
  <2>2. CASE Signal(g)
    BY <1>2, <1>4, <2>2, CallSteps DEF WalksIdle, CallStep
  <2> QED BY <2>1, <2>2
<1> QED BY <1>2, <1>3, <1>5

\* The one goroutine, before and after one of its steps: everybody else is idle.
LEMMA WalkAlone ==
  ASSUME TInv, One, NEW e \in Exec, Walk(e)
  PROVE  /\ CallsIdle /\ CallsIdle' /\ run.status = "running" /\ up /\ starter = "done"
         /\ pc[e] \notin {"idle", "lock"} /\ pc'[e] # "lock"
         /\ \A d \in Exec : d # e => pc[d] = "idle" /\ pc'[d] = "idle"
         /\ UNCHANGED <<up, starter, sig, crashes, approval>>
<1>1. \A d \in Exec : d # e => pc'[d] = pc[d]
  BY WalkFrame
<1>2. pc[e] \notin {"idle", "lock"} /\ pc'[e] # "lock" /\ UNCHANGED <<approval, crashes>>
  BY WalkFrame DEF Locked
<1>3. UNCHANGED <<up, starter, sig>>
  BY WalkRun
<1> QED BY <1>1, <1>2, <1>3 DEF One, CallsIdle, WalksIdle, TInv, TypeOK

LEMMA WalkIsStep == ASSUME TInv, NEW e \in Exec, Walk(e)
                    PROVE  \/ PlaceStep(e) /\ UNCHANGED <<node, output, open>>
                           \/ NodeStep(e) /\ pc[e] \in InAction /\ UNCHANGED run
  BY PlaceSteps, NodeSteps

LEMMA PlaceStarted == ASSUME TInv, TInv', One, Started, NEW e \in Exec, Walk(e), PlaceStep(e),
                             UNCHANGED node
                      PROVE  Started'
<1>1. \A d \in Exec : d # e => pc'[d] = "idle"
  BY WalkAlone
<1>2. ASSUME pc'[e] \in InAction PROVE Held(e)'
  <2>1. /\ pc'[e] = "count" /\ frame[e].next <= Len(Entry[frame[e].state])
        /\ act'[e].node = Entry[frame[e].state][frame[e].next]
        /\ node[act'[e].node].status \notin {"succeeded", "failed"} /\ Stays(e)
    BY <1>2 DEF PlaceStep, Goes, InAction
  <2>2. node[act'[e].node].status \in NodeStatuses
    BY <1>2, LocalsOf, RowOf DEF TInv, TypeOK, Placed
  <2> QED BY <2>1, <2>2 DEF Held, Stays, Lands, NodeStatuses
<1> QED BY <1>1, <1>2 DEF Started, InAction

LEMMA NodeStarted == ASSUME TInv, TInv', One, Started, NEW e \in Exec, Walk(e), NodeStep(e),
                            pc[e] \in InAction
                     PROVE  Started'
<1>1. \A d \in Exec : d # e => pc'[d] = "idle"
  BY WalkAlone
<1> DEFINE n == act[e].node
           a == act[e].attempts
<1>2. n \in Nodes /\ a \in Nat /\ Retry[n] \in Nat /\ node[n].attempts \in Nat
  BY LocalsOf, RowOf, DefinitionAssumption
<1>3. Held(e)
  BY DEF Started
<1>4. \A m \in Nodes : node'[m] = node[m] \/ (m = n /\ node'[m].status # "pending")
  BY <1>2 DEF NodeStep, Writes
<1>5. ASSUME pc'[e] \in InAction PROVE Held(e)'
  <2>1. frame' = frame /\ act'[e].node = n
    BY <1>5 DEF NodeStep, Goes, InAction
  <2>2. node'[n] = node[n] \/ (node'[n].status = "running" /\ pc'[e] = "invoke")
    BY <1>2, <1>5 DEF NodeStep, Goes, Writes, InAction
  <2>3. node[n].status = "pending" => CompletedAttempts(n) = 0
    BY <1>2 DEF CompletedAttempts, Started
  <2>4. ASSUME pc'[e] = "exhausted" PROVE node[n].status = "running"
    <3>1. ~(a < Retry[n] + 1) /\ pc[e] = "attempt"
      BY <1>2, <2>4 DEF NodeStep, Goes
    <3> QED BY <1>2, <1>3, <3>1 DEF Held
  <2>5. pc'[e] \in {"count", "attempt", "start"} \/ node'[n].status = "running"
    <3>1. node'[n] = node[n] \/ node'[n].status = "running"
      BY <2>2
    <3>2. pc[e] \in {"count", "attempt", "start"} \/ node[n].status = "running"
      BY <1>3 DEF Held
    <3>3. CASE pc[e] = "attempt"
      <4>1. pc'[e] \in {"start", "exhausted"}
        BY <1>5, <3>3 DEF NodeStep, Goes, InAction
      <4> QED BY <2>4, <3>1, <4>1
    <3>4. CASE pc[e] = "start"
      <4>1. pc'[e] = "invoke" /\ Writes(n, "running", a)
        BY <1>5, <3>4 DEF NodeStep, Goes, InAction
      <4> QED BY <4>1 DEF Writes
    <3>5. CASE pc[e] = "count"
      BY <1>5, <3>5 DEF NodeStep, Goes, InAction
    <3> QED BY <3>1, <3>2, <3>3, <3>4, <3>5
  <2>6. pc'[e] \in {"start", "fail"} => act'[e].seen = node'[n].status
    BY <1>3, <1>5, <2>2 DEF NodeStep, Goes, InAction
  <2>7. pc'[e] = "attempt" /\ act'[e].attempts > 0 => node'[n].status = "running"
    <3>1. CASE pc[e] = "count"
      BY <1>3, <2>2, <2>3, <3>1 DEF NodeStep, Goes, Held
    <3>2. CASE pc[e] # "count"
      BY <1>3, <2>2, <3>2 DEF NodeStep, Goes, Held
    <3> QED BY <3>1, <3>2
  <2> QED BY <1>3, <2>1, <2>2, <2>5, <2>6, <2>7 DEF Held
<1> QED BY <1>1, <1>4, <1>5 DEF Started, InAction

LEMMA CallStarted ==
  ASSUME TInv, TInv', One, OneAtATime, Started, NEW g \in Sig,
         (run.status = "waiting" /\ SignalBegin(g)) \/ Signal(g)
  PROVE  Started'
<1>1. \A e \in Exec : pc'[e] \in {"idle", "lock"}
  BY CallAlone
<1>2. \A n \in Nodes : node'[n] = node[n] \/ node'[n].status = "succeeded"
  <2>1. CASE SignalBegin(g)
    BY <2>1, CallBegins DEF durable
  <2>2. CASE Signal(g)
    <3> DEFINE n == Head(sig[g].items).node
               r == [status |-> "succeeded", attempts |-> sig[g].attempts, trigger |-> NoTrigger]
    <3>1. CallStep(g)
      BY <2>2, CallSteps
    <3>2. UNCHANGED node \/ node' = [node EXCEPT ![n] = r]
      BY <3>1 DEF CallStep, durable
    <3>3. r.status = "succeeded"
      OBVIOUS
    <3> HIDE DEF n, r
    <3> QED BY <3>2, <3>3 DEF TInv, TypeOK
  <2> QED BY <2>1, <2>2
<1> QED BY <1>1, <1>2 DEF Started, InAction

LEMMA OtherStarted == ASSUME Started, Aside PROVE Started'
<1>1. UNCHANGED node
  BY DEF Aside
<1>2. ASSUME NEW e \in Exec, pc'[e] \in InAction PROVE Held(e)'
  <2>1. pc'[e] = pc[e] /\ act'[e] = act[e] /\ frame'[e] = frame[e]
    BY <1>2 DEF Aside, InAction
  <2>2. Held(e)
    BY <1>2, <2>1 DEF Started
  <2> QED BY <1>1, <2>1, <2>2 DEF Held
<1> QED BY <1>1, <1>2 DEF Started

LEMMA NextStarted == ASSUME TInv, TInv', One, OneAtATime, Started, [PatientNext]_vars PROVE Started'
  BY WalkIsStep, PlaceStarted, NodeStarted, CallStarted, OtherSteps, OtherStarted
  DEF PatientNext, Others

LEMMA InitStarted == Init => Started /\ Closed
  BY DEF Init, Started, Closed, NoSig, InAction

LEMMA NextClosed == ASSUME TInv, One, OneAtATime, Closed, [PatientNext]_vars PROVE Closed'
<1>1. ASSUME NEW e \in Exec, Walk(e) PROVE Closed'
  BY <1>1, WalkAlone DEF Closed, CallsIdle
<1>2. ASSUME NEW g \in Sig, run.status = "waiting" /\ SignalBegin(g) PROVE Closed'
  BY <1>2, CallAlone, CallBegins DEF Closed, durable
<1>3. ASSUME NEW g \in Sig, Signal(g) PROVE Closed'
  <2>1. CallStep(g) /\ starter' = "done" /\ UNCHANGED crashes /\ \A h \in Sig : h = g
    BY <1>3, CallAlone, CallSteps
  <2> QED BY <2>1 DEF Closed, CallStep, durable
<1>4. ASSUME Others PROVE Closed'
  BY <1>4, OtherSteps DEF Closed, Aside
<1> QED BY <1>1, <1>2, <1>3, <1>4 DEF PatientNext, Others

-----------------------------------------------------------------------------
(* Before the first crash a run asks one question at a time, and waits for  *)
(* no other reason.                                                         *)

\* At most one item; the node of a human.request is still running.
Brief(s) == Len(s) <= 1 /\ \A k \in 1..Len(s) : s[k].policy \/ node[s[k].node].status = "running"

Single ==
    crashes = 0 =>
       /\ up /\ Brief(open)
       /\ \A e \in Exec : pc[e] # "idle" => (open = <<>> <=> pc[e] \notin {"park", "wait"})
       /\ \A g \in Sig : /\ sig[g].pc = "list" => open # <<>>
                         /\ sig[g].pc = "close" => sig[g].items # <<>>
                         /\ sig[g].pc = "fire" => sig[g].seen = "running"
                         /\ Brief(sig[g].items)
       /\ run.status = "waiting" /\ CallsIdle => open # <<>>

LEMMA NoneBrief == Brief(<<>>)
  BY DEF Brief

LEMMA FewerBrief == ASSUME NEW s \in Seq(Item), s # <<>>, Brief(s)
                    PROVE  /\ Tail(s) = <<>>
                           /\ Head(s).policy \/ node[Head(s).node].status = "running"
  BY DEF Brief

LEMMA BriefKept == ASSUME NEW s, Brief(s), UNCHANGED node PROVE Brief(s)'
  BY DEF Brief

LEMMA InitSingle == Init => Single
  BY NoneBrief DEF Init, Single, NoSig, CallsIdle

LEMMA WalkSingle == ASSUME TInv, TInv', One, Started, Closed, Single, NEW e \in Exec, Walk(e)
                    PROVE  Single'
<1> SUFFICES ASSUME crashes = 0 PROVE Single'
  BY WalkAlone DEF Single
<1>1. /\ CallsIdle /\ UNCHANGED <<up, sig, crashes>> /\ run.status = "running"
      /\ pc[e] # "idle" /\ \A d \in Exec : d # e => pc'[d] = "idle"
  BY WalkAlone
<1>2. up /\ Brief(open) /\ (open = <<>> <=> pc[e] \notin {"park", "wait"})
  BY <1>1 DEF Single
<1>3. \A g \in Sig : sig'[g].pc = "idle" /\ sig'[g].items = <<>>
  BY <1>1 DEF CallsIdle, Closed
<1>4. /\ Brief(open)' /\ (run'.status = "waiting" => open' # <<>>)
      /\ pc'[e] # "idle" => (open' = <<>> <=> pc'[e] \notin {"park", "wait"})
  <2>1. CASE PlaceStep(e) /\ UNCHANGED <<node, open>>
    <3>1. Brief(open)'
      BY <1>2, <2>1 DEF Brief
    <3>2. pc'[e] # "idle" => (pc[e] \in {"park", "wait"} <=> pc'[e] \in {"park", "wait"})
      BY <2>1 DEF PlaceStep, Goes
    <3>3. run'.status = "waiting" => pc[e] = "wait"
      BY <1>1, <2>1 DEF PlaceStep, Goes
    <3> QED BY <1>2, <2>1, <3>1, <3>2, <3>3
  <2>2. CASE NodeStep(e) /\ pc[e] \in InAction /\ UNCHANGED run
    <3> DEFINE n == act[e].node
    <3>1. open = <<>> /\ n \in Nodes
      BY <1>2, <2>2, LocalsOf DEF InAction
    <3>2. CASE pc'[e] # "park"
      <4>1. UNCHANGED open /\ pc'[e] \notin {"park", "wait"}
        BY <2>2, <3>2 DEF NodeStep, Goes
      <4> QED BY <1>1, <2>2, <3>1, <4>1 DEF Brief
    <3>3. CASE pc'[e] = "park"
      <4>1. PICK b \in BOOLEAN : open' = Append(open, [node |-> n, policy |-> b])
        BY <2>2, <3>3 DEF NodeStep, Goes, InAction
      <4>2. UNCHANGED node /\ pc[e] \in {"invoke", "ask"}
        BY <2>2, <3>3 DEF NodeStep, Goes, InAction
      <4>3. node[n].status = "running"
        BY <2>2, <4>2 DEF Started, Held
      <4>4. open' = <<[node |-> n, policy |-> b]>>
        BY <3>1, <4>1
      <4> QED BY <1>1, <2>2, <3>3, <4>2, <4>3, <4>4 DEF Brief
    <3> QED BY <3>2, <3>3
  <2> QED BY <2>1, <2>2, WalkIsStep
<1>5. \A d \in Exec : pc'[d] # "idle" => (open' = <<>> <=> pc'[d] \notin {"park", "wait"})
  BY <1>1, <1>4
<1> QED BY <1>1, <1>2, <1>3, <1>4, <1>5 DEF Single, Brief

LEMMA CallSingle ==
  ASSUME TInv, TInv', One, OneAtATime, Closed, Asked, Single, NEW g \in Sig,
         (run.status = "waiting" /\ SignalBegin(g)) \/ Signal(g)
  PROVE  Single'
<1> SUFFICES ASSUME crashes = 0 PROVE Single'
  BY CallAlone DEF Single
<1> DEFINE s == sig[g]
           t == sig'[g]
<1>1. /\ WalksIdle /\ up /\ UNCHANGED <<up, crashes>> /\ \A h \in Sig : h = g
      /\ \A e \in Exec : pc'[e] \in {"idle", "lock"}
  BY CallAlone
<1>2. s.items \in Seq(Item) /\ Brief(open) /\ Brief(s.items)
  BY CallOf DEF Single
<1>3. s.items # <<>> => Tail(s.items) = <<>> /\ (Head(s.items).policy \/ node[Head(s.items).node].status = "running")
  BY <1>2, FewerBrief
<1>4. ASSUME Brief(open)', Brief(s.items)', t.pc = "list" => open' # <<>>,
             t.pc = "close" => t.items # <<>>, t.pc = "fire" => t.seen = "running",
             WalksIdle' \/ open' = <<>>, run'.status = "waiting" /\ t.pc = "idle" => open' # <<>>
      PROVE  Single'
  BY <1>1, <1>4 DEF Single, CallsIdle, WalksIdle
<1>5. CASE run.status = "waiting" /\ SignalBegin(g)
  <2>1. /\ s.pc = "idle" /\ t.pc = "list" /\ t.items = <<>> /\ UNCHANGED <<durable, pc>>
    BY <1>5, CallBegins
  <2>2. open # <<>>
    BY <1>1, <1>5, <2>1 DEF Single, CallsIdle
  <2> QED BY <1>1, <1>2, <1>4, <2>1, <2>2, BriefKept DEF durable, WalksIdle, Brief
<1>6. CASE Signal(g)
  <2>1. CallStep(g) /\ run.status = (IF s.pc = "spawn" THEN "running" ELSE "waiting")
    BY <1>6, CallSteps DEF One
  <2>2. s.pc \in {"apply", "read", "fire", "spawn"} => open = <<>>
    BY DEF Closed
  <2> USE DEF durable, WalksIdle
  <2>3. CASE s.pc = "list"
    <3>1. open # <<>> /\ t.pc = "close" /\ t.items = open /\ UNCHANGED <<durable, pc>>
      BY <2>1, <2>3 DEF CallStep, Single
    <3> QED BY <1>1, <1>2, <1>4, <3>1 DEF Brief
  <2>4. CASE s.pc = "close"
    <3>1. t.pc = "apply" /\ t.items = s.items /\ open' = <<>> /\ UNCHANGED <<node, pc>>
      BY <2>1, <2>4 DEF CallStep
    <3> QED BY <1>1, <1>2, <1>4, <3>1 DEF Brief
  <2>5. CASE s.pc = "apply"
    <3>1. t.pc \in {"apply", "read", "spawn"} /\ UNCHANGED <<node, open, pc>>
      BY <2>1, <2>5 DEF CallStep
    <3>2. t.items = s.items \/ t.items = <<>>
      BY <1>3, <2>1, <2>5 DEF CallStep
    <3> QED BY <1>1, <1>2, <1>4, <2>2, <2>5, <3>1, <3>2 DEF Brief
  <2>6. CASE s.pc = "read"
    <3>1. t.pc = "fire" /\ t.items = s.items /\ t.seen = node[Head(s.items).node].status /\ UNCHANGED <<durable, pc>>
      BY <2>1, <2>6 DEF CallStep
    <3>2. t.seen = "running"
      BY <1>3, <2>6, <3>1 DEF Closed, Asked
    <3> QED BY <1>1, <1>2, <1>4, <2>2, <2>6, <3>1, <3>2 DEF Brief
  <2>7. CASE s.pc = "fire"
    <3>1. s.seen = "running" /\ s.items # <<>>
      BY <2>7 DEF Single, Closed
    <3>2. t.pc = "apply" /\ t.items = <<>> /\ UNCHANGED <<open, pc>>
      BY <1>3, <2>1, <2>7, <3>1 DEF CallStep
    <3> QED BY <1>1, <1>4, <2>2, <2>7, <3>2 DEF Brief
  <2>8. CASE s.pc = "spawn"
    <3>1. t.pc = "idle" /\ t.items = <<>> /\ UNCHANGED durable /\ run.status = "running"
      BY <2>1, <2>8 DEF CallStep
    <3> QED BY <1>1, <1>4, <2>2, <2>8, <3>1 DEF Brief
  <2> QED BY <2>1, <2>3, <2>4, <2>5, <2>6, <2>7, <2>8 DEF CallStep
<1> QED BY <1>5, <1>6

LEMMA OtherSingle == ASSUME TInv, TInv', One, Closed, Single, Aside PROVE Single'
<1> SUFFICES ASSUME crashes' = 0 PROVE Single'
  BY DEF Single
<1>1. crashes = 0 /\ UNCHANGED <<crashes, sig, node, open>> /\ up /\ up'
  BY DEF Aside, TInv, TypeOK, Single
<1>2. ASSUME NEW e \in Exec, pc'[e] # "idle"
      PROVE  open' = <<>> <=> pc'[e] \notin {"park", "wait"}
  BY <1>1, <1>2 DEF Aside, Single, Closed
<1>3. run'.status = "waiting" => run.status = "waiting"
  BY DEF Aside
<1> QED BY <1>1, <1>2, <1>3, BriefKept DEF Single, CallsIdle, Brief

LEMMA NextSingle == ASSUME TInv, TInv', Asked, One, OneAtATime, Started, Closed, Single, [PatientNext]_vars
                    PROVE  Single'
  BY WalkSingle, CallSingle, OtherSteps, OtherSingle DEF PatientNext, Others

-----------------------------------------------------------------------------
(* An action that must ask before it can act never gets past its question.  *)

\* The attempt asks, or waits for its approval: it is never refused.
Pausing(n) == /\ n \notin Rejectable /\ Kind[n] \in {"human", "gated"}
              /\ Kind[n] = "gated" => approval[n] # "yes"

\* A policy question is answered with a, or has no approval yet.
Unapproved(s, a) ==
    \A k \in 1..Len(s) : s[k].policy => approval[s[k].node] # "yes" \/ a = "yes"

Pauses ==
    /\ \A n \in Nodes : Pausing(n) =>
          /\ node[n].status # "failed"
          /\ Kind[n] = "gated" => node[n].status # "succeeded"
          /\ node[n].status = "running" => node[n].attempts <= 1
    /\ \A e \in Exec : pc[e] \in InAction /\ Pausing(act[e].node) =>
          \/ pc[e] = "count" \/ (pc[e] = "attempt" /\ act[e].attempts = 0)
          \/ pc[e] \in {"start", "invoke", "ask"} /\ act[e].attempts = 1
    /\ \A e \in Exec : pc[e] = "ask" => Kind[act[e].node] = "gated" /\ approval[act[e].node] # "yes"
    /\ Unapproved(open, "no")
    /\ \A g \in Sig : Unapproved(sig[g].items, sig[g].answer)

LEMMA TailItems == ASSUME NEW s \in Seq(Item), s # <<>>
                   PROVE  \A k \in 1..Len(Tail(s)) : k + 1 \in 1..Len(s) /\ Tail(s)[k] = s[k + 1]
  OBVIOUS

LEMMA AppendedItems == ASSUME NEW s \in Seq(Item), NEW i \in Item
                       PROVE  \A k \in 1..Len(Append(s, i)) : Append(s, i)[k] = i \/ (k \in 1..Len(s) /\ Append(s, i)[k] = s[k])
  OBVIOUS

LEMMA AskUnapproved ==
  ASSUME TInv, Unapproved(open, "no"), UNCHANGED approval, NEW n \in Nodes, NEW b \in BOOLEAN,
         open' = Append(open, [node |-> n, policy |-> b]), b => approval[n] # "yes"
  PROVE  Unapproved(open, "no")'
<1> DEFINE i == [node |-> n, policy |-> b]
<1>1. i \in Item /\ open \in Seq(Item) /\ i.node = n /\ i.policy = b
  BY DEF Item, TInv, TypeOK
<1>2. open' = Append(open, i)
  OBVIOUS
<1> HIDE DEF i
<1>3. ASSUME NEW k \in 1..Len(open'), open'[k].policy PROVE approval'[open'[k].node] # "yes"
  <2>1. open'[k] = i \/ (k \in 1..Len(open) /\ open'[k] = open[k])
    BY <1>1, <1>2, AppendedItems
  <2> QED BY <1>1, <1>3, <2>1 DEF Unapproved
<1> QED BY <1>3 DEF Unapproved

LEMMA InitPauses == Init => Pauses
  BY DEF Init, Pauses, Unapproved, NoSig, InAction

LEMMA WalkPauses == ASSUME TInv, TInv', One, Started, Closed, Pauses, NEW e \in Exec, Walk(e)
                    PROVE  Pauses'
<1>1. /\ UNCHANGED <<sig, approval>> /\ CallsIdle /\ \A d \in Exec : d # e => pc'[d] = "idle"
  BY WalkAlone
<1>2. \A n : Pausing(n)' <=> Pausing(n)
  BY <1>1 DEF Pausing
<1>3. \A g \in Sig : Unapproved(sig[g].items, sig[g].answer)'
  BY <1>1 DEF CallsIdle, Pauses, Unapproved
<1>4. CASE PlaceStep(e) /\ UNCHANGED <<node, open>>
  <2>1. pc'[e] \in InAction => pc'[e] = "count"
    BY <1>4 DEF PlaceStep, Goes, InAction
  <2>2. Unapproved(open, "no")'
    BY <1>1, <1>4 DEF Pauses, Unapproved
  <2> QED BY <1>1, <1>2, <1>3, <1>4, <2>1, <2>2 DEF Pauses, InAction
<1>5. CASE NodeStep(e) /\ pc[e] \in InAction
  <2> DEFINE n == act[e].node
             a == act[e].attempts
  <2>1. n \in Nodes /\ a \in Nat /\ Retry[n] \in Nat /\ node[n].attempts \in Nat
    BY <1>5, LocalsOf, RowOf, DefinitionAssumption
  <2>2. Held(e)
    BY <1>5 DEF Started
  <2>3. pc'[e] \in InAction => act'[e].node = n
    BY <1>5 DEF NodeStep, Goes, InAction
  <2>4. \A m \in Nodes : m # n => node'[m] = node[m]
    BY <1>5 DEF NodeStep, Writes
  <2>5. ASSUME ~Pausing(n) PROVE Pauses'
    <3>1. \A m \in Nodes : Pausing(m)' =>
             /\ node'[m].status # "failed"
             /\ Kind[m] = "gated" => node'[m].status # "succeeded"
             /\ node'[m].status = "running" => node'[m].attempts <= 1
      BY <1>2, <2>4, <2>5 DEF Pauses
    <3>2. pc'[e] = "ask" => Kind[act'[e].node] = "gated" /\ approval'[act'[e].node] # "yes"
      BY <1>1, <1>5, <2>3 DEF NodeStep, Goes, InAction
    <3>3. Unapproved(open, "no")'
      <4>1. \/ UNCHANGED open
            \/ open' = Append(open, [node |-> n, policy |-> FALSE])
            \/ pc[e] = "ask" /\ open' = Append(open, [node |-> n, policy |-> TRUE])
        BY <1>5 DEF NodeStep, Goes
      <4>2. CASE UNCHANGED open
        BY <1>1, <4>2 DEF Pauses, Unapproved
      <4>3. ASSUME NEW b \in BOOLEAN, open' = Append(open, [node |-> n, policy |-> b]), b => pc[e] = "ask"
            PROVE  Unapproved(open, "no")'
        BY <1>1, <2>1, <4>3, AskUnapproved DEF Pauses
      <4> QED BY <4>1, <4>2, <4>3
    <3> QED BY <1>1, <1>2, <1>3, <2>3, <2>5, <3>1, <3>2, <3>3 DEF Pauses, InAction
  <2>6. ASSUME Pausing(n) PROVE Pauses'
    <3>1. /\ \/ pc[e] = "count" \/ (pc[e] = "attempt" /\ a = 0)
             \/ pc[e] \in {"start", "invoke", "ask"} /\ a = 1
          /\ node[n].status = "running" => node[n].attempts <= 1
      BY <1>5, <2>1, <2>6 DEF Pauses
    <3>2. CompletedAttempts(n) = 0
      BY <2>1, <2>2, <3>1 DEF CompletedAttempts, Held, Started
    <3>3. \/ Goes(e, "count", "attempt") /\ act'[e].attempts = 0 /\ UNCHANGED <<node, open>>
          \/ Goes(e, "attempt", "start") /\ act'[e].attempts = 1 /\ UNCHANGED <<node, open>>
          \/ Goes(e, "start", "invoke") /\ act'[e].attempts = 1 /\ Writes(n, "running", 1) /\ UNCHANGED open
          \/ /\ Goes(e, "invoke", "park") /\ UNCHANGED node
             /\ open' = Append(open, [node |-> n, policy |-> FALSE])
          \/ /\ Goes(e, "invoke", "ask") /\ act'[e].attempts = 1 /\ UNCHANGED <<node, open>>
             /\ Kind[n] = "gated" /\ approval[n] # "yes"
          \/ /\ Goes(e, "ask", "park") /\ UNCHANGED node
             /\ open' = Append(open, [node |-> n, policy |-> TRUE])
      <4>1. CASE pc[e] = "count"
        BY <1>5, <3>2, <4>1 DEF NodeStep, Goes
      <4>2. CASE pc[e] = "attempt"
        BY <1>5, <2>1, <3>1, <4>2 DEF NodeStep, Goes
      <4>3. CASE pc[e] = "start"
        <5>1. act[e].seen \in {"pending", "running"} /\ a = 1
          BY <2>2, <3>1, <4>3 DEF Held
        <5> QED BY <1>5, <4>3, <5>1 DEF NodeStep, Goes
      <4>4. CASE pc[e] = "invoke"
        BY <1>5, <2>6, <3>1, <4>4 DEF NodeStep, Goes, Pausing
      <4>5. CASE pc[e] = "ask"
        BY <1>5, <4>5 DEF NodeStep, Goes
      <4> QED BY <3>1, <4>1, <4>2, <4>3, <4>4, <4>5
    <3>4. \A m \in Nodes : Pausing(m)' =>
             /\ node'[m].status # "failed"
             /\ Kind[m] = "gated" => node'[m].status # "succeeded"
             /\ node'[m].status = "running" => node'[m].attempts <= 1
      BY <1>2, <2>1, <3>3 DEF Pauses, Writes
    <3>5. Unapproved(open, "no")'
      <4>1. CASE UNCHANGED open
        BY <1>1, <4>1 DEF Pauses, Unapproved
      <4>2. ASSUME NEW b \in BOOLEAN, open' = Append(open, [node |-> n, policy |-> b]), b => pc[e] = "ask"
            PROVE  Unapproved(open, "no")'
        BY <1>1, <2>1, <4>2, AskUnapproved DEF Pauses
      <4> QED BY <3>3, <4>1, <4>2 DEF Goes
    <3>6. pc'[e] = "ask" => Kind[act'[e].node] = "gated" /\ approval'[act'[e].node] # "yes"
      BY <1>1, <2>3, <3>3 DEF Goes, InAction
    <3>7. pc'[e] \in InAction =>
            \/ pc'[e] = "count" \/ (pc'[e] = "attempt" /\ act'[e].attempts = 0)
            \/ pc'[e] \in {"start", "invoke", "ask"} /\ act'[e].attempts = 1
      BY <3>3 DEF Goes, InAction
    <3> QED BY <1>1, <1>3, <3>4, <3>5, <3>6, <3>7 DEF Pauses, InAction
  <2> QED BY <2>5, <2>6
<1> QED BY <1>4, <1>5, WalkIsStep

LEMMA CallPauses ==
  ASSUME TInv, One, OneAtATime, Closed, Asked, Pauses, NEW g \in Sig,
         (run.status = "waiting" /\ SignalBegin(g)) \/ Signal(g)
  PROVE  Pauses'
<1> DEFINE s == sig[g]
           n == Head(s.items).node
<1>1. (\A h \in Sig : h = g) /\ \A e \in Exec : pc'[e] \in {"idle", "lock"}
  BY CallAlone
<1>2. ASSUME \A m \in Nodes : \/ node'[m] = node[m]
                              \/ node'[m].status = "succeeded" /\ Kind[m] = "human",
             \A m \in Nodes : approval'[m] = approval[m] \/ approval[m] # "yes" \/ approval'[m] = "yes",
             Unapproved(open, "no")', Unapproved(sig[g].items, sig[g].answer)'
      PROVE  Pauses'
  <2>1. ASSUME NEW m \in Nodes, Pausing(m)'
        PROVE  /\ node'[m].status # "failed"
               /\ Kind[m] = "gated" => node'[m].status # "succeeded"
               /\ node'[m].status = "running" => node'[m].attempts <= 1
    <3>1. Pausing(m)
      BY <1>2, <2>1 DEF Pausing
    <3> QED BY <1>2, <3>1 DEF Pauses
  <2> QED BY <1>1, <1>2, <2>1 DEF Pauses, InAction
<1>3. Unapproved(open, "no") /\ Unapproved(s.items, s.answer)
  BY DEF Pauses
<1> USE DEF durable
<1>4. CASE SignalBegin(g)
  BY <1>2, <1>3, <1>4, CallBegins DEF Unapproved
<1>5. CASE Signal(g)
  <2>1. CallStep(g) /\ (sig'[g].pc # "idle" => sig'[g].answer = s.answer)
    BY <1>5, CallSteps
  <2>2. /\ s.items \in Seq(Item)
        /\ s.items # <<>> => n \in Nodes /\ Head(s.items) = s.items[1] /\ 1 \in 1..Len(s.items)
    BY CallOf
  <2>3. \A m \in Nodes : \/ node'[m] = node[m]
                         \/ node'[m].status = "succeeded" /\ Kind[m] = "human"
    <3> DEFINE r == [status |-> "succeeded", attempts |-> s.attempts, trigger |-> NoTrigger]
    <3>1. UNCHANGED node \/ (s.pc = "fire" /\ node' = [node EXCEPT ![n] = r])
      BY <2>1 DEF CallStep
    <3>2. r.status = "succeeded"
      OBVIOUS
    <3>3. s.pc = "fire" => Kind[n] = "human"
      BY <2>2 DEF Closed, Asked, HumanItems
    <3> HIDE DEF r
    <3> QED BY <3>1, <3>2, <3>3 DEF TInv, TypeOK
  <2>4. CASE s.pc = "apply" /\ s.items # <<>> /\ Head(s.items).policy
    <3>1. /\ approval' = [approval EXCEPT ![n] = s.answer] /\ UNCHANGED open
          /\ sig'[g].items = Tail(s.items) /\ sig'[g].answer = s.answer
      BY <2>1, <2>4 DEF CallStep
    <3>2. approval[n] # "yes" \/ s.answer = "yes"
      BY <1>3, <2>2, <2>4 DEF Unapproved
    <3>3. \A m \in Nodes : approval'[m] = IF m = n THEN s.answer ELSE approval[m]
      BY <3>1 DEF TInv, TypeOK
    <3>4. Unapproved(open, "no")'
      BY <2>4, <3>1 DEF Closed, Unapproved
    <3>5. Unapproved(sig[g].items, sig[g].answer)'
      <4>1. ASSUME NEW k \in 1..Len(Tail(s.items)), Tail(s.items)[k].policy
            PROVE  approval'[Tail(s.items)[k].node] # "yes" \/ s.answer = "yes"
        <5>1. k + 1 \in 1..Len(s.items) /\ Tail(s.items)[k] = s.items[k + 1] /\ s.items[k + 1].node \in Nodes
          <6>1. k + 1 \in 1..Len(s.items) /\ Tail(s.items)[k] = s.items[k + 1]
            BY <2>2, <2>4, TailItems
          <6>2. s.items[k + 1] \in Item
            BY <2>2, <6>1
          <6> QED BY <6>1, <6>2 DEF Item
        <5> QED BY <1>3, <3>3, <4>1, <5>1 DEF Unapproved
      <4> QED BY <3>1, <4>1 DEF Unapproved
    <3> QED BY <1>2, <2>3, <3>2, <3>3, <3>4, <3>5
  <2>5. CASE ~(s.pc = "apply" /\ s.items # <<>> /\ Head(s.items).policy)
    <3>1. UNCHANGED approval /\ (open' = open \/ open' = <<>>)
      BY <2>1, <2>5 DEF CallStep
    <3>2. \/ sig'[g].items = <<>>
          \/ sig'[g].answer = s.answer /\ sig'[g].items = s.items
          \/ sig'[g].answer = s.answer /\ sig'[g].items = open
          \/ sig'[g].answer = s.answer /\ s.items # <<>> /\ sig'[g].items = Tail(s.items)
      BY <2>1, <2>5 DEF CallStep, Closed
    <3>3. Unapproved(open, "no")'
      BY <1>3, <3>1 DEF Unapproved
    <3>4. Unapproved(sig[g].items, sig[g].answer)'
      <4>1. CASE s.items # <<>> /\ sig'[g].items = Tail(s.items) /\ sig'[g].answer = s.answer
        BY <1>3, <2>2, <3>1, <4>1, TailItems DEF Unapproved
      <4> QED BY <1>3, <3>1, <3>2, <4>1 DEF Unapproved
    <3> QED BY <1>2, <2>3, <3>1, <3>3, <3>4
  <2> QED BY <2>4, <2>5
<1> QED BY <1>4, <1>5

LEMMA OtherPauses == ASSUME TInv, Pauses, Aside PROVE Pauses'
<1>1. UNCHANGED <<node, approval, open>>
  BY DEF Aside
<1>2. \A n : Pausing(n)' <=> Pausing(n)
  BY <1>1 DEF Pausing
<1>3. ASSUME NEW g \in Sig PROVE Unapproved(sig[g].items, sig[g].answer)'
  BY <1>1 DEF Aside, Pauses, Unapproved
<1>4. Unapproved(open, "no")'
  BY <1>1 DEF Pauses, Unapproved
<1>5. ASSUME NEW e \in Exec, pc'[e] \in InAction PROVE pc'[e] = pc[e] /\ act'[e] = act[e]
  BY <1>5 DEF Aside, InAction
<1>6. \A e \in Exec : pc'[e] = "ask" => Kind[act'[e].node] = "gated" /\ approval'[act'[e].node] # "yes"
  BY <1>1, <1>5 DEF Pauses, InAction
<1> QED BY <1>1, <1>2, <1>3, <1>4, <1>5, <1>6 DEF Pauses

LEMMA NextPauses == ASSUME TInv, TInv', Asked, One, OneAtATime, Started, Closed, Pauses, [PatientNext]_vars
                    PROVE  Pauses'
  BY WalkPauses, CallPauses, OtherSteps, OtherPauses DEF PatientNext, Others

-----------------------------------------------------------------------------
(* The two rows of a node tell the same verdict.                            *)

\* A human.request that may be refused is not asked twice: either it never is
\* (no input to validate, no rate limit), or the process never dies.
HumansAnswered == MaxCrashes = 0 \/ \A n \in Rejectable : Kind[n] # "human"

\* The node of a human.request in the inbox has not failed.
Questions(s) == \A k \in 1..Len(s) : ~s[k].policy => node[s[k].node].status \in {"running", "succeeded"}

Verdicts ==
    /\ \A n \in Nodes : node[n].status \in {"succeeded", "failed"} => output[n] = node[n].status
    /\ \A e \in Exec : /\ pc[e] = "succeed" => output[act[e].node] = "succeeded"
                       /\ pc[e] \in {"failread", "fail"} => output[act[e].node] = "failed"
    /\ \A g \in Sig : sig[g].pc \in {"read", "fire"} => output[Head(sig[g].items).node] = "succeeded"
    /\ Questions(open)
    /\ \A g \in Sig : Questions(sig[g].items)

LEMMA InitVerdicts == Init => Verdicts
  BY DEF Init, Verdicts, Questions, NoSig

\* The nodes whose rows change keep the inbox's questions answerable.
LEMMA QuestionsKept ==
  ASSUME NEW s \in Seq(Item), Questions(s), HumanItems(s),
         \A m \in Nodes : Kind[m] = "human" /\ node[m].status \in {"running", "succeeded"}
                          => node'[m].status \in {"running", "succeeded"}
  PROVE  Questions(s)'
<1> SUFFICES ASSUME NEW k \in 1..Len(s), ~s[k].policy
             PROVE  node'[s[k].node].status \in {"running", "succeeded"}
  BY DEF Questions
<1>1. s[k] \in Item
  OBVIOUS
<1>2. s[k].node \in Nodes
  BY <1>1 DEF Item
<1> QED BY <1>2 DEF Questions, HumanItems

LEMMA AskQuestions ==
  ASSUME TInv, Questions(open), UNCHANGED node, NEW n \in Nodes, NEW b \in BOOLEAN,
         open' = Append(open, [node |-> n, policy |-> b]), node[n].status = "running"
  PROVE  Questions(open)'
<1> DEFINE i == [node |-> n, policy |-> b]
<1>1. i \in Item /\ open \in Seq(Item) /\ i.node = n /\ i.policy = b
  BY DEF Item, TInv, TypeOK
<1>2. open' = Append(open, i)
  OBVIOUS
<1> HIDE DEF i
<1>3. ASSUME NEW k \in 1..Len(open'), ~open'[k].policy
      PROVE  node'[open'[k].node].status \in {"running", "succeeded"}
  <2>1. open'[k] = i \/ (k \in 1..Len(open) /\ open'[k] = open[k])
    BY <1>1, <1>2, AppendedItems
  <2> QED BY <1>1, <1>3, <2>1 DEF Questions
<1> QED BY <1>3 DEF Questions

\* A human.request whose question is in the inbox is past failing.
LEMMA AskedNodeStays ==
  ASSUME HumansAnswered, TInv, Closed, Single, Pauses, NEW e \in Exec, pc[e] = "fail",
         Kind[act[e].node] = "human"
  PROVE  open = <<>>
<1>1. CASE MaxCrashes = 0
  BY <1>1 DEF Closed, Single
<1>2. CASE MaxCrashes # 0
  BY <1>2 DEF HumansAnswered, Pauses, Pausing, InAction
<1> QED BY <1>1, <1>2

LEMMA WalkVerdicts ==
  ASSUME HumansAnswered, TInv, TInv', Asked, One, Started, Closed, Single, Pauses, Verdicts,
         NEW e \in Exec, Walk(e)
  PROVE  Verdicts'
<1>1. /\ UNCHANGED sig /\ CallsIdle /\ \A d \in Exec : d # e => pc'[d] = "idle"
  BY WalkAlone
<1>2. \A g \in Sig : sig'[g].pc = "idle" /\ Questions(sig[g].items)'
  BY <1>1 DEF CallsIdle, Closed, Questions
<1>3. CASE PlaceStep(e) /\ UNCHANGED <<node, output, open>>
  <2>1. pc'[e] \notin {"succeed", "failread", "fail"}
    BY <1>3 DEF PlaceStep, Goes
  <2> QED BY <1>1, <1>2, <1>3, <2>1 DEF Verdicts, Questions
<1>4. CASE NodeStep(e) /\ pc[e] \in InAction
  <2> DEFINE n == act[e].node
  <2>1. n \in Nodes /\ Held(e) /\ output \in [Nodes -> {"none", "succeeded", "failed"}]
    BY <1>4, LocalsOf DEF Started, TInv, TypeOK
  <2>2. \A m \in Nodes : m # n => node'[m] = node[m] /\ output'[m] = output[m]
    BY <1>4, <2>1 DEF NodeStep, Writes
  <2>3. pc'[e] \in InAction => act'[e].node = n
    BY <1>4 DEF NodeStep, Goes, InAction
  <2>4. /\ node'[n].status \in {"succeeded", "failed"} => output'[n] = node'[n].status
        /\ pc'[e] = "succeed" => output'[n] = "succeeded"
        /\ pc'[e] \in {"failread", "fail"} => output'[n] = "failed"
        /\ node[n].status = "running" /\ node'[n].status = "failed" => pc[e] = "fail"
    <3>1. CASE UNCHANGED <<node, output>> /\ pc[e] \notin {"save", "exhausted"}
      <4>1. pc'[e] # "succeed" /\ (pc'[e] \in {"failread", "fail"} => pc[e] = "failread")
        BY <1>4, <2>1, <3>1 DEF NodeStep, Goes, InAction
      <4> QED BY <2>1, <3>1, <4>1 DEF Verdicts
    <3>2. CASE UNCHANGED node /\ pc[e] = "save"
      <4>1. pc'[e] = "succeed" /\ output' = [output EXCEPT ![n] = "succeeded"]
        BY <1>4, <3>2 DEF NodeStep, Goes
      <4> QED BY <2>1, <3>2, <4>1 DEF Held
    <3>3. CASE UNCHANGED node /\ pc[e] = "exhausted"
      <4>1. pc'[e] = "failread" /\ output' = [output EXCEPT ![n] = "failed"]
        BY <1>4, <3>3 DEF NodeStep, Goes
      <4> QED BY <2>1, <3>3, <4>1 DEF Held
    <3>4. CASE pc[e] = "start" /\ Writes(n, "running", act[e].attempts) /\ UNCHANGED output
      BY <1>4, <3>4 DEF NodeStep, Goes, Writes
    <3>5. CASE pc[e] = "succeed" /\ Writes(n, "succeeded", act[e].attempts) /\ UNCHANGED output
      BY <1>4, <2>1, <3>5 DEF NodeStep, Goes, Writes, Verdicts
    <3>6. CASE pc[e] = "fail" /\ Writes(n, "failed", act[e].attempts) /\ UNCHANGED output
      BY <1>4, <2>1, <3>6 DEF NodeStep, Goes, Writes, Verdicts
    <3> QED BY <1>4, <3>1, <3>2, <3>3, <3>4, <3>5, <3>6 DEF NodeStep, Goes
  <2>5. Questions(open)'
    <3>1. open \in Seq(Item) /\ HumanItems(open) /\ Questions(open)
      BY DEF TInv, TypeOK, Asked, Verdicts
    <3>2. CASE pc[e] = "fail"
      <4>1. UNCHANGED open
        BY <1>4, <3>2 DEF NodeStep, Goes
      <4>2. CASE open = <<>>
        BY <4>1, <4>2 DEF Questions
      <4>3. CASE Kind[n] # "human"
        <5>1. Questions(open) /\ \A m \in Nodes : Kind[m] = "human" => node'[m] = node[m]
          BY <2>2, <3>1, <4>3
        <5> QED BY <3>1, <4>1, <5>1, QuestionsKept DEF Questions
      <4> QED BY <3>2, <4>2, <4>3, AskedNodeStays
    <3>3. CASE pc[e] # "fail"
      <4>1. CASE UNCHANGED open
        <5>1. node[n].status \in {"pending", "running"}
          BY <2>1 DEF Held
        <5>2. node'[n].status # "failed" \/ node[n].status = "pending"
          BY <2>4, <3>3, <5>1
        <5>3. node[n].status = "running" => node'[n].status \in {"running", "succeeded"}
          <6>1. node[n].status = "running" => node'[n].status # "pending"
            BY <1>4 DEF NodeStep, Writes
          <6> QED BY <2>1, <5>2, <6>1, RowOf DEF TInv, TypeOK, NodeRow, NodeStatuses
        <5>4. \A m \in Nodes : Kind[m] = "human" /\ node[m].status \in {"running", "succeeded"}
                                => node'[m].status \in {"running", "succeeded"}
          BY <2>2, <5>1, <5>3
        <5>5. ASSUME NEW s, open = s PROVE Questions(open)' <=> Questions(s)'
          BY <4>1, <5>5 DEF Questions
        <5> QED BY <3>1, <4>1, <5>4, QuestionsKept DEF Questions
      <4>2. CASE pc'[e] = "park" /\ UNCHANGED node
        <5>1. \/ pc[e] = "invoke" /\ open' = Append(open, [node |-> n, policy |-> FALSE])
              \/ pc[e] = "ask" /\ open' = Append(open, [node |-> n, policy |-> TRUE])
          BY <1>4, <4>2 DEF NodeStep, Goes, InAction
        <5>2. node[n].status = "running"
          BY <2>1, <5>1 DEF Held
        <5> QED BY <2>1, <3>1, <4>2, <5>1, <5>2, AskQuestions
      <4> QED BY <1>4, <4>1, <4>2 DEF NodeStep, Goes
    <3> QED BY <3>2, <3>3
  <2>6. ASSUME NEW m \in Nodes, node'[m].status \in {"succeeded", "failed"} PROVE output'[m] = node'[m].status
    BY <2>2, <2>4, <2>6 DEF Verdicts
  <2> QED BY <1>1, <1>2, <2>3, <2>4, <2>5, <2>6 DEF Verdicts, InAction
<1> QED BY <1>3, <1>4, WalkIsStep

LEMMA CallVerdicts ==
  ASSUME TInv, One, OneAtATime, Closed, Asked, Verdicts, NEW g \in Sig,
         (run.status = "waiting" /\ SignalBegin(g)) \/ Signal(g)
  PROVE  Verdicts'
<1> DEFINE s == sig[g]
           n == Head(s.items).node
<1>1. (\A h \in Sig : h = g) /\ \A e \in Exec : pc'[e] \in {"idle", "lock"}
  BY CallAlone
<1>2. /\ open \in Seq(Item) /\ s.items \in Seq(Item)
      /\ s.items # <<>> => n \in Nodes /\ Head(s.items) = s.items[1] /\ 1 \in 1..Len(s.items)
                          /\ Tail(s.items) \in Seq(Item)
  BY CallOf DEF TInv, TypeOK
<1>3. Questions(open) /\ Questions(s.items) /\ HumanItems(open) /\ HumanItems(s.items)
  BY DEF Verdicts, Asked
<1>4. s.items # <<>> => Questions(Tail(s.items)) /\ HumanItems(Tail(s.items))
  BY <1>2, <1>3, TailItems DEF Questions, HumanItems
<1> USE DEF durable
<1>7. ASSUME \A m \in Nodes : node'[m].status \in {"succeeded", "failed"} => output'[m] = node'[m].status,
             sig'[g].pc \in {"read", "fire"} => output'[Head(sig'[g].items).node] = "succeeded",
             Questions(open)', Questions(sig[g].items)'
      PROVE  Verdicts'
  BY <1>1, <1>7 DEF Verdicts
<1>5. CASE SignalBegin(g)
  <2>1. UNCHANGED <<node, output, open>> /\ sig'[g].pc = "list" /\ sig'[g].items = <<>>
    BY <1>5, CallBegins
  <2> QED BY <1>1, <2>1 DEF Verdicts, Questions
<1>6. CASE Signal(g)
  <2> DEFINE t == sig'[g]
  <2>1. CallStep(g)
    BY <1>6, CallSteps
  <2>2. CASE s.pc = "fire" /\ s.seen = "running"
    <3> DEFINE r == [status |-> "succeeded", attempts |-> s.attempts, trigger |-> NoTrigger]
    <3>1. /\ node' = [node EXCEPT ![n] = r] /\ t.pc = "apply" /\ t.items = Tail(s.items)
          /\ UNCHANGED <<output, open>>
      BY <2>1, <2>2 DEF CallStep
    <3>2. r.status = "succeeded" /\ output[n] = "succeeded" /\ s.items # <<>>
      BY <2>2 DEF Verdicts, Closed
    <3> HIDE DEF r
    <3>3. \A m \in Nodes : node'[m] = IF m = n THEN r ELSE node[m]
      BY <3>1 DEF TInv, TypeOK
    <3>4. Questions(open)' /\ Questions(sig[g].items)'
      <4>1. \A m \in Nodes : node[m].status \in {"running", "succeeded"} => node'[m].status \in {"running", "succeeded"}
        BY <3>2, <3>3
      <4>2. open = <<>>
        BY <2>2 DEF Closed
      <4>3. Questions(Tail(s.items)) /\ HumanItems(Tail(s.items)) /\ Tail(s.items) \in Seq(Item)
        BY <1>2, <1>4, <3>2
      <4>4. ASSUME NEW k \in 1..Len(Tail(s.items)), ~Tail(s.items)[k].policy
            PROVE  node'[Tail(s.items)[k].node].status \in {"running", "succeeded"}
        <5>1. Tail(s.items)[k].node \in Nodes
          <6>1. Tail(s.items)[k] \in Item
            BY <4>3
          <6> QED BY <6>1 DEF Item
        <5> QED BY <4>1, <4>3, <4>4, <5>1 DEF Questions
      <4> QED BY <3>1, <4>2, <4>4 DEF Questions
    <3>5. \A m \in Nodes : node'[m].status \in {"succeeded", "failed"} => output'[m] = node'[m].status
      BY <3>1, <3>2, <3>3 DEF Verdicts
    <3> QED BY <1>7, <3>1, <3>4, <3>5
  <2>3. CASE s.pc = "apply" /\ t.pc = "read"
    <3>1. /\ s.items # <<>> /\ t.items = s.items /\ ~Head(s.items).policy
          /\ output' = [output EXCEPT ![n] = "succeeded"] /\ UNCHANGED <<node, open>>
      BY <2>1, <2>3 DEF CallStep
    <3>2. node[n].status \in {"running", "succeeded"}
      BY <1>2, <1>3, <3>1 DEF Questions
    <3>3. \A m \in Nodes : output'[m] = IF m = n THEN "succeeded" ELSE output[m]
      BY <3>1 DEF TInv, TypeOK
    <3>4. Questions(open)' /\ Questions(sig[g].items)'
      BY <1>3, <3>1 DEF Questions
    <3>5. \A m \in Nodes : node'[m].status \in {"succeeded", "failed"} => output'[m] = node'[m].status
      BY <3>1, <3>2, <3>3 DEF Verdicts
    <3> QED BY <1>2, <1>7, <3>1, <3>3, <3>4, <3>5
  <2>4. CASE ~(s.pc = "fire" /\ s.seen = "running") /\ ~(s.pc = "apply" /\ t.pc = "read")
    <3>1. /\ UNCHANGED <<node, output>> /\ (open' = open \/ open' = <<>>)
          /\ t.pc \in {"read", "fire"} => t.items = s.items /\ s.pc = "read"
      BY <2>1, <2>4 DEF CallStep
    <3>2. \/ t.items = <<>> \/ t.items = s.items \/ t.items = open
          \/ s.items # <<>> /\ t.items = Tail(s.items)
      BY <2>1, <2>4 DEF CallStep
    <3>3. Questions(t.items)
      <4>1. t.items = <<>> => Questions(t.items)
        BY DEF Questions
      <4> QED BY <1>3, <1>4, <3>2, <4>1
    <3>4. Questions(open)' /\ Questions(sig[g].items)'
      BY <1>3, <3>1, <3>3 DEF Questions
    <3>5. sig'[g].pc \in {"read", "fire"} => output'[Head(sig'[g].items).node] = "succeeded"
      BY <3>1 DEF Verdicts
    <3> QED BY <1>7, <3>1, <3>4, <3>5 DEF Verdicts
  <2> QED BY <2>2, <2>3, <2>4
<1> QED BY <1>5, <1>6

LEMMA OtherVerdicts == ASSUME TInv, Verdicts, Aside PROVE Verdicts'
<1>1. UNCHANGED <<node, output, open>>
  BY DEF Aside
<1>2. ASSUME NEW g \in Sig PROVE sig'[g] = sig[g] \/ (sig'[g].pc = "idle" /\ sig'[g].items = <<>>)
  BY DEF Aside
<1>3. ASSUME NEW e \in Exec, pc'[e] \in InAction PROVE pc'[e] = pc[e] /\ act'[e] = act[e]
  BY <1>3 DEF Aside, InAction
<1> QED BY <1>1, <1>2, <1>3 DEF Verdicts, Questions, InAction

LEMMA NextVerdicts ==
  ASSUME HumansAnswered, TInv, TInv', Asked, One, OneAtATime, Started, Closed, Single, Pauses, Verdicts,
         [PatientNext]_vars
  PROVE  Verdicts'
  BY WalkVerdicts, CallVerdicts, OtherSteps, OtherVerdicts DEF PatientNext, Others

-----------------------------------------------------------------------------
(* A run that is resumed with a question in its inbox walks the same way    *)
(* again, and cannot get past the action that asked it.                     *)

\* A place in the state machine.
Spot(p, s, d, k, n, t) ==
    [at |-> p, state |-> s, depth |-> d, stack |-> k, next |-> n, trigger |-> t]

Start == Spot("enter", InitialState, 0, <<>>, 1, NoTrigger)

\* The place of goroutine e, once executeRun has loaded the run.
Walking(e) == pc[e] \notin {"idle", "lock", "load", "error"}
Stage(p) == IF p \in InAction \cup {"park", "wait"} THEN "entry" ELSE IF p = "finish" THEN "ended" ELSE p
Where(e) == LET f == frame[e] IN
    Spot(Stage(pc[e]), f.state, f.depth, f.stack, f.next, f.trigger)

AtNode(c) == c.at = "entry" /\ c.next <= Len(Entry[c.state])
NodeAt(c) == Entry[c.state][c.next]

\* The durable rows take the walk from place c to place d.
Leads(c, d) ==
    LET r == node[NodeAt(c)]
        target == Goto[c.state][c.trigger]
        top == c.stack[Len(c.stack)]
    IN
    \/ /\ c.at = "enter" /\ ~(c.depth > MaxDepth)
       /\ d = Spot("entry", c.state, c.depth, c.stack, 1, NoTrigger)
    \/ /\ AtNode(c) /\ r.status = "succeeded"
       /\ d = Spot("entry", c.state, c.depth, c.stack, c.next + 1,
                   IF r.trigger = NoTrigger THEN c.trigger ELSE r.trigger)
    \/ /\ AtNode(c) /\ r.status = "failed"
       /\ d = Spot("transit", c.state, c.depth, c.stack, c.next, "failed")
    \/ /\ c.at = "entry" /\ ~AtNode(c) /\ Child[c.state] # NoState
       /\ d = Spot("enter", Child[c.state], c.depth + 1,
                   Append(c.stack, [state |-> c.state, depth |-> c.depth]), c.next, c.trigger)
    \/ /\ c.at = "entry" /\ ~AtNode(c) /\ Child[c.state] = NoState
       /\ d = Spot("transit", c.state, c.depth, c.stack, c.next,
                   IF c.trigger = NoTrigger THEN "succeeded" ELSE c.trigger)
    \/ /\ c.at = "transit" /\ target # NoState
       /\ d = Spot("enter", target, c.depth + 1, c.stack, c.next, c.trigger)
    \/ /\ c.at = "transit" /\ target = NoState /\ c.stack # <<>>
       /\ d = Spot("transit", top.state, top.depth, SubSeq(c.stack, 1, Len(c.stack) - 1),
                   c.next, c.trigger)
    \/ /\ c.at = "transit" /\ target = NoState /\ c.stack = <<>> /\ c.trigger = "succeeded"
       /\ d = Spot("ended", c.state, c.depth, c.stack, c.next, c.trigger)

\* The walk fails at place c.
Fails(c) ==
    \/ c.at = "enter" /\ c.depth > MaxDepth
    \/ /\ c.at = "transit" /\ Goto[c.state][c.trigger] = NoState /\ c.stack = <<>>
       /\ c.trigger # "succeeded"

\* The walk pauses at place c.
Asks(c) == AtNode(c) /\ Pausing(NodeAt(c)) /\ node[NodeAt(c)].status \in {"pending", "running"}

Here(c) == open = <<>> /\ \E e \in Exec : Walking(e) /\ c = Where(e)

\* S holds every place the walk goes through, from the start to where it is
\* now or, once it has asked, to the action that asks.
Trail(S) ==
    /\ Start \in S
    /\ \A e \in Exec : Walking(e) => Where(e) \in S
    /\ \A c \in S : /\ AtNode(c) => NodeAt(c) \in Nodes
                    /\ Here(c) \/ Fails(c) \/ (\E d \in S : Leads(c, d)) \/ (open # <<>> /\ Asks(c))

Traced == run.status = "running" /\ (open # <<>> \/ \E e \in Exec : Walking(e)) => \E S : Trail(S)

LEMMA SpotFields == \A p, s, d, k, n, t : LET c == Spot(p, s, d, k, n, t) IN
    c.at = p /\ c.state = s /\ c.depth = d /\ c.stack = k /\ c.next = n /\ c.trigger = t
  BY DEF Spot

LEMMA LeadsOnce == ASSUME NEW c, NEW d, NEW x, Leads(c, d), Leads(c, x) PROVE d = x
<1>1. CASE AtNode(c)
  BY <1>1 DEF Leads, AtNode
<1>2. CASE ~AtNode(c)
  BY <1>2 DEF Leads
<1> QED BY <1>1, <1>2

\* A row that is not final yet leads nowhere.
LEMMA LeadsKept ==
  ASSUME NEW n \in Nodes, node[n].status \notin {"succeeded", "failed"},
         \A m \in Nodes : m # n => node'[m] = node[m],
         NEW c, AtNode(c) => NodeAt(c) \in Nodes, NEW d, Leads(c, d)
  PROVE  Leads(c, d)'
<1>1. CASE AtNode(c)
  <2>1. node[NodeAt(c)].status \in {"succeeded", "failed"}
    BY <1>1 DEF Leads, AtNode
  <2>2. node'[NodeAt(c)] = node[NodeAt(c)]
    BY <1>1, <2>1
  <2> QED BY <1>1, <2>2 DEF Leads, AtNode, NodeAt
<1>2. CASE ~AtNode(c)
  BY <1>2 DEF Leads, AtNode
<1> QED BY <1>1, <1>2

LEMMA WhereIs == ASSUME NEW e \in Exec
                 PROVE  LET c == Where(e)
                            f == frame[e]
                        IN /\ c.at = Stage(pc[e]) /\ c.state = f.state /\ c.depth = f.depth
                           /\ c.stack = f.stack /\ c.next = f.next /\ c.trigger = f.trigger
  BY SpotFields DEF Where

\* A step between the actions stays, leads on, or leaves the walk.
LEMMA PlaceMoves ==
  ASSUME TInv, NEW e \in Exec, PlaceStep(e), Walking(e)
  PROVE  \/ ~Walking(e)'
         \/ Where(e)' = Where(e) /\ pc[e] \in {"entry", "park", "ended"}
         \/ Leads(Where(e), Where(e)')
<1> DEFINE f == frame[e]
           w == Where(e)
           n == Entry[f.state][f.next]
           target == Goto[f.state][f.trigger]
           top == f.stack[Len(f.stack)]
<1>1. /\ w.at = Stage(pc[e]) /\ w.state = f.state /\ w.depth = f.depth
      /\ w.stack = f.stack /\ w.next = f.next /\ w.trigger = f.trigger
  BY WhereIs
<1>2. ASSUME NEW s, NEW d, NEW k, NEW m, NEW t, Lands(e, s, d, k, m, t)
      PROVE  Where(e)' = Spot(Stage(pc'[e]), s, d, k, m, t)
  BY <1>2 DEF Lands, Where, Stage
<1>3. ASSUME Stays(e), Stage(pc'[e]) = Stage(pc[e]) PROVE Where(e)' = Where(e)
  BY <1>3 DEF Stays, Lands, Where
<1>4. pc[e] \in {"enter", "entry", "transit"} => Stage(pc[e]) = pc[e]
  BY DEF Stage, InAction
<1>5. AtNode(w) <=> Stage(pc[e]) = "entry" /\ f.next <= Len(Entry[f.state])
  BY <1>1 DEF AtNode
<1>6. NodeAt(w) = n
  BY <1>1 DEF NodeAt
<1> HIDE DEF w
<1>7. CASE pc[e] = "enter"
  <2>1. pc'[e] = "error" \/ (pc'[e] = "entry" /\ ~(f.depth > MaxDepth) /\ Lands(e, f.state, f.depth, f.stack, 1, NoTrigger))
    BY <1>7 DEF PlaceStep, Goes
  <2>2. Stage("entry") = "entry"
    BY DEF Stage
  <2> QED BY <1>1, <1>2, <1>4, <1>7, <2>1, <2>2 DEF Leads, Walking, w
<1>8. CASE pc[e] = "entry"
  <2>1. CASE f.next <= Len(Entry[f.state])
    <3>1. ~(f.next > Len(Entry[f.state]))
      <4>1. f.next \in Nat /\ Len(Entry[f.state]) \in Nat
        BY <1>8, DefinitionAssumption DEF TInv, TypeOK, Frame, Placed
      <4> QED BY <2>1, <4>1
    <3>2. CASE pc'[e] = "count"
      BY <1>3, <1>8, <3>1, <3>2 DEF PlaceStep, Goes, Stage, InAction
    <3>3. CASE pc'[e] # "count"
      <4>1. \/ /\ pc'[e] = "entry" /\ node[n].status = "succeeded"
               /\ Lands(e, f.state, f.depth, f.stack, f.next + 1,
                        IF node[n].trigger = NoTrigger THEN f.trigger ELSE node[n].trigger)
            \/ /\ pc'[e] = "transit" /\ node[n].status = "failed"
               /\ Lands(e, f.state, f.depth, f.stack, f.next, "failed")
        BY <1>8, <3>1, <3>3 DEF PlaceStep, Goes
      <4>2. Stage("entry") = "entry" /\ Stage("transit") = "transit"
        BY DEF Stage, InAction
      <4> QED BY <1>1, <1>2, <1>4, <1>5, <1>6, <1>8, <2>1, <4>1, <4>2 DEF Leads, w
    <3> QED BY <3>2, <3>3
  <2>2. CASE ~(f.next <= Len(Entry[f.state]))
    <3>1. \/ /\ pc'[e] = "enter" /\ Child[f.state] # NoState
             /\ Lands(e, Child[f.state], f.depth + 1,
                      Append(f.stack, [state |-> f.state, depth |-> f.depth]), f.next, f.trigger)
          \/ /\ pc'[e] = "transit" /\ Child[f.state] = NoState
             /\ Lands(e, f.state, f.depth, f.stack, f.next,
                      IF f.trigger = NoTrigger THEN "succeeded" ELSE f.trigger)
      BY <1>8, <2>2 DEF PlaceStep, Goes
    <3>2. Stage("enter") = "enter" /\ Stage("transit") = "transit"
      BY DEF Stage, InAction
    <3> QED BY <1>1, <1>2, <1>4, <1>5, <1>8, <2>2, <3>1, <3>2 DEF Leads, w
  <2> QED BY <2>1, <2>2
<1>9. CASE pc[e] = "transit"
  <2>1. \/ /\ pc'[e] = "enter" /\ target # NoState
           /\ Lands(e, target, f.depth + 1, f.stack, f.next, f.trigger)
        \/ /\ pc'[e] = "transit" /\ target = NoState /\ f.stack # <<>>
           /\ Lands(e, top.state, top.depth, SubSeq(f.stack, 1, Len(f.stack) - 1), f.next, f.trigger)
        \/ /\ pc'[e] = "ended" /\ target = NoState /\ f.stack = <<>> /\ f.trigger = "succeeded"
           /\ Stays(e)
        \/ pc'[e] = "error"
    BY <1>9 DEF PlaceStep, Goes
  <2>2. Stage("enter") = "enter" /\ Stage("transit") = "transit" /\ Stage("ended") = "ended"
    BY DEF Stage, InAction
  <2>3. ASSUME Stays(e) PROVE Where(e)' = Spot(Stage(pc'[e]), f.state, f.depth, f.stack, f.next, f.trigger)
    BY <1>2, <2>3 DEF Stays
  <2> QED BY <1>1, <1>2, <1>4, <1>9, <2>1, <2>2, <2>3 DEF Leads, Walking, w
<1>10. CASE pc[e] \in {"park", "ended"}
  <2>1. Stays(e) /\ ((pc[e] = "park" /\ pc'[e] = "wait") \/ (pc[e] = "ended" /\ pc'[e] = "finish"))
    BY <1>10 DEF PlaceStep, Goes
  <2>2. Stage(pc'[e]) = Stage(pc[e])
    BY <2>1 DEF Stage, InAction
  <2> QED BY <1>3, <1>10, <2>1, <2>2
<1>11. CASE pc[e] \notin {"enter", "entry", "transit", "park", "ended"}
  <2>1. pc'[e] = "idle"
    BY <1>11 DEF PlaceStep, Goes, Walking
  <2> QED BY <2>1 DEF Walking
<1> QED BY <1>7, <1>8, <1>9, <1>10, <1>11

\* The place of a goroutine inside executeStateAction.
LEMMA ActionPlace ==
  ASSUME TInv, Started, NEW e \in Exec, pc[e] \in InAction
  PROVE  /\ AtNode(Where(e)) /\ NodeAt(Where(e)) = act[e].node /\ Where(e).at = "entry"
         /\ node[act[e].node].status \in {"pending", "running"} /\ act[e].node \in Nodes
<1>1. Held(e) /\ Stage(pc[e]) = "entry"
  BY DEF Started, Stage
<1> QED BY <1>1, WhereIs, LocalsOf DEF AtNode, NodeAt, Held

\* A step of executeStateAction stays, or leads on.
LEMMA NodeMoves ==
  ASSUME TInv, Started, Pauses, NEW e \in Exec, NodeStep(e), pc[e] \in InAction,
         NEW c, c = Where(e), NEW d, d = Where(e)'
  PROVE  \/ /\ d = c /\ node'[act[e].node].status \in {"pending", "running"}
            /\ pc'[e] \in InAction \cup {"park"}
            /\ open' = open \/ (/\ open' # <<>> /\ pc'[e] = "park"
                                /\ \/ Kind[act[e].node] = "human"
                                   \/ Kind[act[e].node] = "gated" /\ pc[e] = "ask")
         \/ /\ pc[e] \in {"succeed", "fail"} /\ pc'[e] \in {"entry", "transit"}
            /\ Leads(c, d)' /\ open' = open
<1> DEFINE f == frame[e]
           n == act[e].node
<1>1. /\ c.at = "entry" /\ c.state = f.state /\ c.depth = f.depth /\ c.stack = f.stack
      /\ c.next = f.next /\ c.trigger = f.trigger /\ AtNode(c) /\ NodeAt(c) = n
  BY WhereIs, ActionPlace
<1>2. node[n].status \in {"pending", "running"} /\ n \in Nodes /\ open \in Seq(Item) /\ Held(e)
  BY ActionPlace DEF TInv, TypeOK, Started
<1>3. CASE /\ pc[e] = "succeed" /\ pc'[e] = "entry"
           /\ Writes(n, "succeeded", act[e].attempts) /\ node'[n].trigger = act[e].result
           /\ Lands(e, f.state, f.depth, f.stack, f.next + 1,
                    IF act[e].result = NoTrigger THEN f.trigger ELSE act[e].result)
           /\ UNCHANGED open
  <2>1. d = Spot("entry", f.state, f.depth, f.stack, f.next + 1,
                 IF act[e].result = NoTrigger THEN f.trigger ELSE act[e].result)
    BY <1>3 DEF Lands, Where, Stage
  <2>2. AtNode(c)' /\ NodeAt(c)' = n /\ node'[n].status = "succeeded"
    BY <1>1, <1>3 DEF AtNode, NodeAt, Writes
  <2> QED BY <1>1, <1>3, <2>1, <2>2 DEF Leads, NodeAt
<1>4. CASE /\ pc[e] = "fail" /\ pc'[e] = "transit" /\ Writes(n, "failed", act[e].attempts)
           /\ Lands(e, f.state, f.depth, f.stack, f.next, "failed") /\ UNCHANGED open
  <2>1. d = Spot("transit", f.state, f.depth, f.stack, f.next, "failed")
    BY <1>4 DEF Lands, Where, Stage, InAction
  <2>2. AtNode(c)' /\ NodeAt(c)' = n /\ node'[n].status = "failed"
    BY <1>1, <1>4 DEF AtNode, NodeAt, Writes
  <2> QED BY <1>1, <1>4, <2>1, <2>2 DEF Leads, NodeAt
<1>5. CASE UNCHANGED frame /\ pc'[e] \in InAction \cup {"park"}
  <2>1. d = c
    BY <1>5 DEF Where, Stage
  <2>2. node'[n].status \in {"pending", "running"}
    BY <1>2, <1>5 DEF NodeStep, Goes, Writes, InAction
  <2>3. open' = open \/ (/\ open' # <<>> /\ pc'[e] = "park"
                         /\ \/ Kind[n] = "human"
                            \/ Kind[n] = "gated" /\ pc[e] = "ask")
    <3>1. CASE pc[e] = "ask"
      <4>1. pc'[e] = "park" /\ open' = Append(open, [node |-> n, policy |-> TRUE])
        BY <1>5, <3>1 DEF NodeStep, Goes, InAction
      <4>2. Kind[n] = "gated"
        BY <3>1 DEF Pauses
      <4> QED BY <1>2, <3>1, <4>1, <4>2
    <3>2. CASE pc[e] # "ask"
      BY <1>2, <1>5, <3>2 DEF NodeStep, Goes, InAction
    <3> QED BY <3>1, <3>2
  <2> QED BY <1>5, <2>1, <2>2, <2>3
<1>6. CASE ~(UNCHANGED frame /\ pc'[e] \in InAction \cup {"park"})
  <2>1. pc[e] \in {"start", "succeed", "fail"}
    BY <1>6 DEF NodeStep, Goes, InAction
  <2>2. pc[e] = "start" => act[e].seen \in {"pending", "running"}
    BY <1>2 DEF Held
  <2>3. pc[e] = "succeed" => node[n].status = "running"
    BY <1>2 DEF Held
  <2>4. pc[e] = "fail" => act[e].seen = "running"
    BY <1>2 DEF Held
  <2>5. CASE pc[e] = "start"
    BY <1>6, <2>2, <2>5 DEF NodeStep, Goes, InAction
  <2>6. CASE pc[e] = "succeed"
    BY <1>3, <2>3, <2>6 DEF NodeStep, Goes
  <2>7. CASE pc[e] = "fail"
    BY <1>4, <2>4, <2>7 DEF NodeStep, Goes
  <2> QED BY <2>1, <2>5, <2>6, <2>7
<1> QED BY <1>5, <1>6

\* With a question in the inbox and the rows as they are, a trail stays one.
LEMMA TrailKept ==
  ASSUME UNCHANGED <<node, approval, open>>, open # <<>>, NEW S, Trail(S),
         \A d \in Exec : Walking(d)' => Where(d)' \in S
  PROVE  Trail(S)'
<1>1. ASSUME NEW c \in S
      PROVE  Fails(c)' \/ (\E d \in S : Leads(c, d)') \/ Asks(c)'
  <2>1. Fails(c) \/ (\E d \in S : Leads(c, d)) \/ Asks(c)
    BY DEF Trail, Here
  <2>2. Asks(c) => Asks(c)'
    BY DEF Asks, AtNode, NodeAt, Pausing
  <2>3. \A d \in S : Leads(c, d) => Leads(c, d)'
    BY DEF Leads, AtNode, NodeAt
  <2>4. Fails(c) => Fails(c)'
    BY DEF Fails
  <2> QED BY <2>1, <2>2, <2>3, <2>4
<1>2. \A c \in S : (AtNode(c) => NodeAt(c) \in Nodes)'
  BY DEF Trail, AtNode, NodeAt
<1> QED BY <1>1, <1>2 DEF Trail, Start

\* A goroutine that runs its way without a question: its new place is added.
LEMMA TrailGrows ==
  ASSUME TInv', NEW e \in Exec, NEW S, Start \in S, NEW d, d = Where(e)', Walking(e)',
         \A x \in Exec : x # e => ~Walking(x)', open' = <<>>,
         d \in S \/ (AtNode(d) => pc'[e] = "entry"),
         \A c \in S : /\ AtNode(c) => NodeAt(c) \in Nodes
                      /\ c = d \/ Fails(c) \/ Leads(c, d)' \/ (\E x \in S : Leads(c, x)')
  PROVE  Trail(S \cup {d})'
<1> DEFINE T == S \cup {d}
<1>1. AtNode(d) => NodeAt(d) \in Nodes
  <2>1. CASE d \in S
    BY <2>1
  <2>2. CASE pc'[e] = "entry" /\ AtNode(d)
    <3>1. frame'[e].state \in States /\ frame'[e] \in Frame
      BY <2>2 DEF TInv, TypeOK, Placed
    <3>2. d.state = frame'[e].state /\ d.next = frame'[e].next
      BY SpotFields DEF Where
    <3>3. Entry[d.state] \in Seq(Nodes) /\ d.next \in Nat \ {0} /\ d.next <= Len(Entry[d.state])
      BY <2>2, <3>1, <3>2, DefinitionAssumption DEF Frame, AtNode
    <3> QED BY <3>3 DEF NodeAt
  <2> QED BY <2>1, <2>2
<1>2. \A c \in T : (AtNode(c) => NodeAt(c) \in Nodes)'
  BY <1>1 DEF AtNode, NodeAt
<1>3. Here(d)'
  BY DEF Here
<1>4. \A c \in S : Fails(c) => Fails(c)'
  BY DEF Fails
<1>5. \A c \in T : Here(c)' \/ Fails(c)' \/ (\E x \in T : Leads(c, x)')
  BY <1>3, <1>4
<1>6. \A x \in Exec : Walking(x)' => Where(x)' \in T
  OBVIOUS
<1> QED BY <1>2, <1>5, <1>6 DEF Trail, Start

LEMMA WalkTraced ==
  ASSUME \A n \in Rejectable : Kind[n] = "effect", TInv, TInv', One, Started, Pauses, Traced,
         NEW e \in Exec, Walk(e)
  PROVE  Traced'
<1> SUFFICES ASSUME run'.status = "running", open' # <<>> \/ \E x \in Exec : Walking(x)'
             PROVE  \E S : Trail(S)'
  BY DEF Traced
<1>1. /\ run.status = "running" /\ pc[e] \notin {"idle", "lock"} /\ UNCHANGED approval
      /\ \A x \in Exec : x # e => ~Walking(x) /\ ~Walking(x)'
  BY WalkAlone DEF Walking
<1>2. PICK d : d = Where(e)'
  OBVIOUS
<1>3. CASE PlaceStep(e) /\ ~Walking(e) /\ UNCHANGED <<node, open>>
  <2>1. pc[e] \in {"load", "error"}
    BY <1>1, <1>3 DEF Walking
  <2>2. \/ ~Walking(e)'
        \/ pc'[e] = "enter" /\ Lands(e, InitialState, 0, <<>>, 1, NoTrigger)
    BY <1>3, <2>1 DEF PlaceStep, Goes, Walking
  <2>3. Walking(e)' => Where(e)' = Start
    BY <2>2 DEF Lands, Where, Stage, Start, InAction
  <2>4. CASE open # <<>>
    <3>1. PICK S : Trail(S)
      BY <1>1, <2>4 DEF Traced
    <3>2. \A x \in Exec : Walking(x)' => Where(x)' \in S
      BY <1>1, <2>3, <3>1 DEF Trail
    <3> QED BY <1>1, <1>3, <2>4, <3>1, <3>2, TrailKept
  <2>5. CASE open = <<>>
    <3>1. Walking(e)'
      BY <1>1, <1>3, <2>5
    <3>2. d = Start /\ ~AtNode(d) /\ pc'[e] = "enter"
      BY <1>2, <2>2, <2>3, <3>1, SpotFields DEF AtNode, Start
    <3>3. PICK S : S = {Start}
      OBVIOUS
    <3>4. /\ d \in S /\ Start \in S /\ open' = <<>>
          /\ \A c \in S : (AtNode(c) => NodeAt(c) \in Nodes) /\ c = d
      BY <1>3, <2>5, <3>2, <3>3
    <3>5. Trail(S \cup {d})'
      BY <1>1, <1>2, <3>1, <3>4, TrailGrows
    <3> QED BY <3>5
  <2> QED BY <2>4, <2>5
<1>4. CASE Walking(e)
  <2>1. PICK S : Trail(S)
    BY <1>1, <1>4 DEF Traced
  <2>2. PICK w : w = Where(e)
    OBVIOUS
  <2>3. w \in S /\ Start \in S /\ \A c \in S : Here(c) => c = w
    BY <1>1, <1>4, <2>1, <2>2 DEF Trail, Here
  <2>4. CASE PlaceStep(e) /\ UNCHANGED <<node, open>>
    <3>1. \/ ~Walking(e)' \/ Leads(w, d)
          \/ d = w
      BY <1>2, <1>4, <2>2, <2>4, PlaceMoves
    <3>2. \A c, x : Leads(c, x) => Leads(c, x)'
      BY <2>4 DEF Leads, AtNode, NodeAt
    <3>3. CASE open # <<>>
      <4>1. Leads(w, d) => d \in S
        <5>1. Fails(w) \/ (\E x \in S : Leads(w, x)) \/ Asks(w)
          BY <2>1, <2>3, <3>3 DEF Trail, Here
        <5>2. Leads(w, d) => ~Fails(w) /\ ~Asks(w)
          BY DEF Leads, Fails, Asks, AtNode
        <5> QED BY <5>1, <5>2, LeadsOnce
      <4>2. \A x \in Exec : Walking(x)' => Where(x)' \in S
        BY <1>1, <1>2, <2>3, <3>1, <4>1
      <4> QED BY <1>1, <2>1, <2>4, <3>3, <4>2, TrailKept
    <3>4. CASE open = <<>>
      <4>1. Walking(e)'
        BY <1>1, <2>4, <3>4
      <4>2. AtNode(d) => d \in S \/ pc'[e] = "entry"
        <5>1. AtNode(d) => Stage(pc'[e]) = "entry"
          BY <1>2, SpotFields DEF AtNode, Where
        <5>2. Stage(pc'[e]) = "entry" => pc'[e] \in InAction \cup {"park", "wait", "entry"}
          BY DEF Stage
        <5>3. pc'[e] \in InAction \cup {"park", "wait"} => pc[e] \in {"entry", "park"} /\ Stays(e)
          BY <2>4 DEF PlaceStep, Goes, InAction
        <5>4. pc'[e] \in InAction \cup {"park", "wait"} => d = w
          BY <1>2, <2>2, <5>3 DEF Where, Stage, Stays, Lands
        <5> QED BY <2>3, <5>1, <5>2, <5>4
      <4>3. \A c \in S : /\ AtNode(c) => NodeAt(c) \in Nodes
                         /\ c = d \/ Fails(c) \/ Leads(c, d)' \/ (\E x \in S : Leads(c, x)')
        BY <2>1, <2>3, <3>1, <3>2, <3>4, <4>1 DEF Trail
      <4> QED BY <1>1, <1>2, <2>3, <2>4, <3>4, <4>1, <4>2, <4>3, TrailGrows
    <3> QED BY <3>3, <3>4
  <2>5. CASE NodeStep(e) /\ pc[e] \in InAction
    <3>0. PICK n : n = act[e].node
      OBVIOUS
    <3>1. /\ AtNode(w) /\ NodeAt(w) = n /\ w.at = "entry" /\ n \in Nodes
          /\ node[n].status \in {"pending", "running"}
      BY <2>2, <2>5, <3>0, ActionPlace
    <3>2. \A m \in Nodes : m # n => node'[m] = node[m]
      BY <2>5, <3>0 DEF NodeStep, Writes
    <3>3. \A c \in S : AtNode(c) => NodeAt(c) \in Nodes
      BY <2>1 DEF Trail
    <3>4. ASSUME NEW c \in S, NEW x \in S, Leads(c, x) PROVE Leads(c, x)'
      BY <3>1, <3>2, <3>3, <3>4, LeadsKept
    <3>5. \/ /\ d = w /\ node'[n].status \in {"pending", "running"}
             /\ pc'[e] \in InAction \cup {"park"}
             /\ open' = open \/ (/\ open' # <<>> /\ pc'[e] = "park"
                                 /\ Kind[n] = "human" \/ (Kind[n] = "gated" /\ pc[e] = "ask"))
          \/ /\ pc[e] \in {"succeed", "fail"} /\ pc'[e] \in {"entry", "transit"}
             /\ Leads(w, d)' /\ open' = open
      BY <1>2, <2>2, <2>5, <3>0, NodeMoves
    <3>6. Pausing(n) => Pausing(n)'
      BY <1>1 DEF Pausing
    <3>7. ASSUME open' # <<>>, d = w, node'[n].status \in {"pending", "running"},
                 Pausing(n), open # <<>> \/ \A c \in S : Here(c) => c = w
          PROVE  Trail(S)'
      <4>1. Asks(w)'
        BY <3>1, <3>6, <3>7 DEF Asks, AtNode, NodeAt
      <4>2. ASSUME NEW c \in S, Asks(c) PROVE Asks(c)'
        <5>1. NodeAt(c) \in Nodes /\ (Pausing(NodeAt(c)) => Pausing(NodeAt(c))')
          BY <1>1, <3>3, <4>2 DEF Asks, Pausing, NodeAt
        <5> QED BY <3>2, <3>7, <4>2, <5>1 DEF Asks, AtNode, NodeAt
      <4>3. ASSUME NEW c \in S PROVE Fails(c)' \/ (\E x \in S : Leads(c, x)') \/ Asks(c)'
        <5>1. Here(c) \/ Fails(c) \/ (\E x \in S : Leads(c, x)) \/ Asks(c)
          BY <2>1 DEF Trail
        <5>2. Fails(c) => Fails(c)'
          BY DEF Fails
        <5> QED BY <2>3, <3>4, <4>1, <4>2, <5>1, <5>2
      <4>4. \A c \in S : (AtNode(c) => NodeAt(c) \in Nodes)'
        BY <3>3 DEF AtNode, NodeAt
      <4>5. \A x \in Exec : Walking(x)' => Where(x)' \in S
        BY <1>1, <1>2, <2>3, <3>7
      <4> QED BY <2>3, <3>7, <4>3, <4>4, <4>5 DEF Trail, Start
    <3>8. CASE open # <<>>
      <4>1. Asks(w)
        <5>1. Fails(w) \/ (\E x \in S : Leads(w, x)) \/ Asks(w)
          BY <2>1, <2>3, <3>8 DEF Trail, Here
        <5>2. ~Fails(w) /\ \A x : ~Leads(w, x)
          BY <3>1 DEF Fails, Leads
        <5> QED BY <5>1, <5>2
      <4>2. Pausing(n)
        BY <3>1, <4>1 DEF Asks
      <4>3. pc[e] \notin {"succeed", "fail"}
        BY <2>5, <3>0, <4>2 DEF Pauses
      <4>4. d = w /\ node'[n].status \in {"pending", "running"} /\ (open' = open \/ open' # <<>>)
        BY <3>5, <4>3
      <4>5. open' # <<>>
        BY <3>8, <4>4
      <4> QED BY <3>7, <3>8, <4>2, <4>4, <4>5
    <3>9. CASE open = <<>> /\ open' # <<>>
      <4>1. Kind[n] = "human" \/ (Kind[n] = "gated" /\ pc[e] = "ask")
        BY <3>5, <3>9
      <4>2. Pausing(n)
        <5>1. n \notin Rejectable /\ (Kind[n] = "gated" => approval[n] # "yes")
          BY <3>0, <4>1 DEF Pauses
        <5> QED BY <4>1, <5>1 DEF Pausing
      <4>3. d = w /\ node'[n].status \in {"pending", "running"}
        BY <3>5, <3>9
      <4> QED BY <2>3, <3>7, <3>9, <4>2, <4>3
    <3>10. CASE open = <<>> /\ open' = <<>>
      <4>1. Walking(e)'
        BY <1>1, <3>10
      <4>2. d \in S \/ (AtNode(d) => pc'[e] = "entry")
        <5>1. AtNode(d) => Stage(pc'[e]) = "entry"
          BY <1>2, SpotFields DEF AtNode, Where
        <5>2. pc'[e] = "transit" => Stage(pc'[e]) # "entry"
          BY DEF Stage, InAction
        <5> QED BY <2>3, <3>5, <5>1, <5>2
      <4>3. \A c \in S : c = d \/ Fails(c) \/ Leads(c, d)' \/ (\E x \in S : Leads(c, x)')
        <5> SUFFICES ASSUME NEW c \in S
                     PROVE  c = d \/ Fails(c) \/ Leads(c, d)' \/ (\E x \in S : Leads(c, x)')
          OBVIOUS
        <5>1. Here(c) \/ Fails(c) \/ (\E x \in S : Leads(c, x))
          BY <2>1, <3>10 DEF Trail
        <5>2. Here(c) => c = w
          BY <2>3
        <5>3. d = w \/ Leads(w, d)'
          BY <3>5
        <5> QED BY <3>4, <5>1, <5>2, <5>3
      <4> QED BY <1>1, <1>2, <2>3, <3>3, <3>10, <4>1, <4>2, <4>3, TrailGrows
    <3> QED BY <3>8, <3>9, <3>10
  <2> QED BY <2>4, <2>5, WalkIsStep
<1> QED BY <1>3, <1>4, WalkIsStep DEF Walking, InAction

LEMMA CallTraced ==
  ASSUME TInv, One, OneAtATime, Closed, NEW g \in Sig,
         (run.status = "waiting" /\ SignalBegin(g)) \/ Signal(g)
  PROVE  Traced'
<1>1. \A e \in Exec : ~Walking(e)'
  BY CallAlone DEF Walking
<1>2. run'.status = "running" => open' = <<>>
  <2>1. CASE run.status = "waiting" /\ SignalBegin(g)
    BY <2>1, CallBegins DEF durable
  <2>2. CASE Signal(g)
    BY <2>2, CallSteps DEF CallStep, durable, One, Closed
  <2> QED BY <2>1, <2>2
<1> QED BY <1>1, <1>2 DEF Traced

LEMMA OtherTraced == ASSUME TInv, One, Closed, Traced, Aside PROVE Traced'
<1> SUFFICES ASSUME run'.status = "running", open' # <<>> \/ \E e \in Exec : Walking(e)'
             PROVE  \E S : Trail(S)'
  BY DEF Traced
<1>1. UNCHANGED <<node, approval, open>>
  BY DEF Aside
<1>2. ASSUME NEW e \in Exec, Walking(e)' PROVE Walking(e) /\ Where(e)' = Where(e) /\ starter = "done"
  <2>1. pc'[e] = pc[e] /\ frame'[e] = frame[e]
    BY <1>2 DEF Aside, Walking
  <2> QED BY <1>2, <2>1 DEF Walking, Where, One, WalksIdle
<1>3. run.status = "running" /\ (open # <<>> \/ \E e \in Exec : Walking(e))
  <2>1. starter # "no"
    BY <1>1, <1>2 DEF Closed
  <2> QED BY <1>1, <1>2, <2>1 DEF Aside
<1>4. PICK S : Trail(S)
  BY <1>3 DEF Traced
<1>5. \A e \in Exec : Walking(e)' => Where(e)' \in S
  BY <1>2, <1>4 DEF Trail
<1>6. CASE open # <<>>
  BY <1>1, <1>4, <1>5, <1>6, TrailKept
<1>7. CASE open = <<>>
  <2>1. PICK e \in Exec : Walking(e)'
    BY <1>1, <1>7
  <2>2. \A c \in S : Here(c) => Here(c)'
    <3>1. \A d \in Exec : Walking(d) => d = e
      BY <1>2, <2>1 DEF One, Walking
    <3> SUFFICES ASSUME NEW c \in S, Here(c) PROVE Here(c)'
      OBVIOUS
    <3>2. c = Where(e)
      BY <3>1 DEF Here
    <3>3. c = Where(e)'
      BY <1>2, <2>1, <3>2
    <3> QED BY <1>1, <1>7, <2>1, <3>3 DEF Here
  <2>3. \A c \in S : (AtNode(c) => NodeAt(c) \in Nodes)'
    BY <1>4 DEF Trail, AtNode, NodeAt
  <2>4. \A c \in S : Here(c)' \/ Fails(c)' \/ (\E d \in S : Leads(c, d)')
    <3> SUFFICES ASSUME NEW c \in S PROVE Here(c)' \/ Fails(c)' \/ (\E d \in S : Leads(c, d)')
      OBVIOUS
    <3>1. Here(c) \/ Fails(c) \/ (\E d \in S : Leads(c, d))
      BY <1>4, <1>7 DEF Trail
    <3>2. Here(c) => Here(c)'
      BY <2>2
    <3>3. Fails(c) => Fails(c)'
      BY DEF Fails
    <3>4. \A d \in S : Leads(c, d) => Leads(c, d)'
      BY <1>1 DEF Leads, AtNode, NodeAt
    <3> QED BY <3>1, <3>2, <3>3, <3>4
  <2>5. Trail(S)'
    BY <1>4, <1>5, <2>3, <2>4 DEF Trail, Start
  <2> QED BY <2>5
<1> QED BY <1>6, <1>7

LEMMA NextTraced ==
  ASSUME \A n \in Rejectable : Kind[n] = "effect", TInv, TInv', One, OneAtATime, Started, Closed,
         Pauses, Traced, [PatientNext]_vars
  PROVE  Traced'
  BY WalkTraced, CallTraced, OtherSteps, OtherTraced DEF PatientNext, Others

\* A run that succeeded left no question.
NoneLeft == run.status = "succeeded" => open = <<>>

\* The walk has ended: there is no question in the inbox.
LEMMA EndedUnasked ==
  ASSUME TInv, One, Closed, Single, MaxCrashes = 0 \/ Traced,
         NEW e \in Exec, pc[e] \in {"ended", "finish"}
  PROVE  open = <<>>
<1>1. CASE MaxCrashes = 0
  BY <1>1 DEF Closed, Single
<1>2. CASE Traced /\ open # <<>>
  <2>1. run.status = "running" /\ Walking(e)
    BY DEF One, Walking
  <2>2. PICK S : Trail(S)
    BY <1>2, <2>1 DEF Traced
  <2>3. PICK w : w = Where(e)
    OBVIOUS
  <2>4. w \in S /\ w.at = "ended"
    BY <2>1, <2>2, <2>3, WhereIs DEF Trail, Stage, InAction
  <2>5. Fails(w) \/ (\E d \in S : Leads(w, d)) \/ Asks(w)
    BY <1>2, <2>2, <2>4 DEF Trail, Here
  <2> QED BY <2>4, <2>5 DEF Fails, Leads, Asks, AtNode
<1> QED BY <1>1, <1>2

LEMMA NextNoneLeft ==
  ASSUME TInv, One, OneAtATime, Closed, Single, MaxCrashes = 0 \/ Traced, NoneLeft, [PatientNext]_vars
  PROVE  NoneLeft'
<1>1. ASSUME NEW e \in Exec, Walk(e) PROVE NoneLeft'
  <2>1. run.status = "running" /\ pc[e] \notin {"idle", "lock"}
    BY <1>1, WalkAlone
  <2>2. CASE PlaceStep(e) /\ UNCHANGED open
    <3>1. run'.status = "succeeded" => pc[e] = "finish"
      BY <2>1, <2>2 DEF PlaceStep, Goes
    <3> QED BY <2>2, <3>1, EndedUnasked DEF NoneLeft
  <2>3. CASE UNCHANGED run
    BY <2>1, <2>3 DEF NoneLeft
  <2> QED BY <1>1, <2>2, <2>3, WalkIsStep
<1>2. ASSUME NEW g \in Sig, (run.status = "waiting" /\ SignalBegin(g)) \/ Signal(g) PROVE NoneLeft'
  <2>1. run'.status # "succeeded"
    <3>1. CASE run.status = "waiting" /\ SignalBegin(g)
      BY <3>1, CallBegins DEF durable
    <3>2. CASE Signal(g)
      <4>1. CallStep(g) /\ run.status \in {"waiting", "running"}
        BY <3>2, CallSteps DEF One
      <4>2. run' = run \/ run' = [status |-> "running", state |-> sig[g].state]
        BY <4>1 DEF CallStep, durable
      <4> QED BY <4>1, <4>2
    <3> QED BY <1>2, <3>1, <3>2
  <2> QED BY <2>1 DEF NoneLeft
<1>3. ASSUME Others PROVE NoneLeft'
  BY <1>3, OtherSteps DEF Aside, NoneLeft
<1> QED BY <1>1, <1>2, <1>3 DEF PatientNext, Others

-----------------------------------------------------------------------------
(* The inductive invariant of the patient runs, and what follows from it.   *)

Orderly == Started /\ Closed /\ Single /\ Pauses

LEMMA OrderlyHolds == ASSUME OneAtATime PROVE PatientSpec => []Orderly
<1>1. Init => Orderly
  BY InitStarted, InitSingle, InitPauses DEF Orderly
<1>2. IInv /\ IInv' /\ One /\ Orderly /\ [PatientNext]_vars => Orderly'
  BY NextStarted, NextClosed, NextSingle, NextPauses DEF IInv, Orderly
<1> QED BY <1>1, <1>2, PatientInvariant, OneHolds, PTL DEF PatientSpec

(* A run that waits has a question in its inbox, until the first crash:     *)
(* RequestHuman has stored the item before executeRun writes "waiting", and *)
(* the signal that answers it leaves the run running.                       *)
THEOREM WaitingRunHasQuestion == ASSUME OneAtATime PROVE PatientSpec => []WaitingHasQuestion
<1>1. Orderly => WaitingHasQuestion
  BY DEF Orderly, Single, WaitingHasQuestion, Quiet, CallsIdle
<1> QED BY <1>1, OrderlyHolds, PTL

(* Node state and step output, the two rows executeStateAction and Signal   *)
(* write one after the other, end up with the same verdict, whatever the    *)
(* crashes between them.                                                    *)
THEOREM RowsTellOneVerdict == ASSUME OneAtATime, HumansAnswered PROVE PatientSpec => []VerdictsAgree
<1>1. Init => Verdicts
  BY InitVerdicts
<1>2. IInv /\ IInv' /\ One /\ Orderly /\ Verdicts /\ [PatientNext]_vars => Verdicts'
  BY NextVerdicts DEF IInv, Orderly
<1>3. Verdicts => VerdictsAgree
  BY DEF Verdicts, VerdictsAgree
<1> QED BY <1>1, <1>2, <1>3, PatientInvariant, OneHolds, OrderlyHolds, PTL DEF PatientSpec

\* Actions that ask are not refused before they ask, or the process never dies.
AsksAlways == MaxCrashes = 0 \/ \A n \in Rejectable : Kind[n] = "effect"

LEMMA NoneLeftHolds == ASSUME OneAtATime, AsksAlways PROVE PatientSpec => []NoneLeft
<1>1. CASE MaxCrashes = 0
  <2>1. Init => NoneLeft
    BY DEF Init, NoneLeft
  <2>2. IInv /\ One /\ Orderly /\ NoneLeft /\ [PatientNext]_vars => NoneLeft'
    BY <1>1, NextNoneLeft DEF IInv, Orderly
  <2> QED BY <2>1, <2>2, PatientInvariant, OneHolds, OrderlyHolds, PTL DEF PatientSpec
<1>2. CASE \A n \in Rejectable : Kind[n] = "effect"
  <2>1. Init => NoneLeft /\ Traced
    BY DEF Init, NoneLeft, Traced
  <2>2. IInv /\ IInv' /\ One /\ Orderly /\ NoneLeft /\ Traced /\ [PatientNext]_vars
        => NoneLeft' /\ Traced'
    BY <1>2, NextNoneLeft, NextTraced DEF IInv, Orderly
  <2> QED BY <2>1, <2>2, PatientInvariant, OneHolds, OrderlyHolds, PTL DEF PatientSpec
<1> QED BY <1>1, <1>2 DEF AsksAlways

(* The inbox shows no question twice before the first crash, and a run that *)
(* succeeded leaves none behind: a resumed run walks its state machine from *)
(* the start and stops at the action whose question is still open.          *)
THEOREM InboxStaysClean == ASSUME OneAtATime, AsksAlways PROVE PatientSpec => []InboxIsClean
<1>1. IInv /\ Orderly /\ NoneLeft => InboxIsClean
  <2> SUFFICES ASSUME IInv, Orderly, NoneLeft PROVE InboxIsClean
    OBVIOUS
  <2>1. crashes = 0 => \A i, j \in DOMAIN open : i = j
    <3>1. DOMAIN open = 1..Len(open) /\ Len(open) \in Nat
      BY DEF IInv, TInv, TypeOK
    <3>2. crashes = 0 => Len(open) <= 1
      BY DEF Orderly, Single, Brief
    <3> QED BY <3>1, <3>2
  <2> QED BY <2>1 DEF NoneLeft, InboxIsClean
<1> QED BY <1>1, PatientInvariant, OrderlyHolds, NoneLeftHolds, PTL
=============================================================================
