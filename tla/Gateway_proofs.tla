--------------------------- MODULE Gateway_proofs ---------------------------
(***************************************************************************)
(* Theorems about the parts of the gateway: SlackAdapter, for any events,  *)
(* any number of deliveries over both transports, any limits, window and   *)
(* bindings, and Supervisor, for any number of dependencies.               *)
(***************************************************************************)
EXTENDS Gateway, FiniteSetTheorems, TLAPS

(* The tokens of the limiter are counted, and a sender has one holder.      *)
Slots ==
    /\ slots = Cardinality({d \in Delivery : pc[d] \in HoldsSlot})
    /\ slots <= limit

Senders ==
    /\ \A d \in Delivery : pc[d] \in HoldsSender => SenderOf(what[d]) \in active
    /\ \A d, f \in Delivery :
          d # f /\ pc[d] \in HoldsSender /\ pc[f] \in HoldsSender
          => SenderOf(what[d]) # SenderOf(what[f])

(* Where a delivery is tells whether it was admitted and answered.          *)
Turned ==
    \A d \in Delivery :
       /\ now[d] <= clock
       /\ admitted[d].done => pc[d] \in Dispatching \cup {"leave", "unslot", "done"}
       /\ pc[d] \in Dispatching => admitted[d].done
       /\ verdict[d] # "none" => pc[d] # "new"

(* An admission is remembered until its window is over.                     *)
Remembered ==
    /\ \A d \in Delivery : admitted[d].done =>
          LET end == admitted[d].stamp + TTL IN seen[what[d]] >= end \/ clock >= end
    /\ WindowKept

SomeAdmitted(e) == \E f \in Delivery : what[f] = e /\ admitted[f].done

(* What makes a delivery a duplicate was admitted.                          *)
Known ==
    /\ \A e \in Event : seen[e] > 0 => SomeAdmitted(e)
    /\ \A d \in Delivery : pc[d] \in {"leave", "unslot"} => SomeAdmitted(what[d])
    /\ AcknowledgedIsAdmitted

DInv == SlackTypeOK /\ Slots /\ Senders /\ Turned /\ Remembered /\ Known
-----------------------------------------------------------------------------
LEMMA PrunedTable ==
  ASSUME DInv, NEW d \in Delivery
  PROVE  /\ Pruned(now[d]) \in [Event -> Nat] /\ now[d] \in Nat /\ now[d] <= clock
         /\ \A e \in Event : Pruned(now[d])[e] = IF seen[e] > now[d] THEN seen[e] ELSE 0
  BY DEF Pruned, DInv, SlackTypeOK, Turned

(* What one delivery does to the number of tokens that are held.            *)
LEMMA Entering ==
  ASSUME DInv, NEW d \in Delivery, NEW p, pc' = [pc EXCEPT ![d] = p]
  PROVE  LET old == Cardinality({f \in Delivery : pc[f] \in HoldsSlot})
             new == Cardinality({f \in Delivery : pc'[f] \in HoldsSlot})
         IN  /\ old \in Nat
             /\ pc[d] \in HoldsSlot /\ p \in HoldsSlot => new = old
             /\ pc[d] \notin HoldsSlot /\ p \notin HoldsSlot => new = old
             /\ pc[d] \notin HoldsSlot /\ p \in HoldsSlot => new = old + 1
             /\ pc[d] \in HoldsSlot /\ p \notin HoldsSlot => new = old - 1
<1> DEFINE H == {f \in Delivery : pc[f] \in HoldsSlot}
           K == {f \in Delivery : pc'[f] \in HoldsSlot}
<1>1. IsFiniteSet(H) /\ Cardinality(H) \in Nat
  BY SlackAssumption, FS_Subset, FS_CardinalityType
<1>2. K = IF p \in HoldsSlot THEN H \cup {d} ELSE H \ {d}
  BY DEF DInv, SlackTypeOK
<1>3. d \in H <=> pc[d] \in HoldsSlot
  OBVIOUS
<1> HIDE DEF H, K
<1>4. /\ Cardinality(H \cup {d}) = IF d \in H THEN Cardinality(H) ELSE Cardinality(H) + 1
      /\ Cardinality(H \ {d}) = IF d \in H THEN Cardinality(H) - 1 ELSE Cardinality(H)
  BY <1>1, FS_AddElement, FS_RemoveElement
<1> QED BY <1>1, <1>2, <1>3, <1>4 DEF H, K

LEMMA HasToken ==
  ASSUME DInv, NEW d \in Delivery, pc[d] \in HoldsSlot
  PROVE  slots - 1 \in Nat
<1> DEFINE H == {f \in Delivery : pc[f] \in HoldsSlot}
<1>1. IsFiniteSet(H) /\ Cardinality(H) \in Nat /\ slots = Cardinality(H) /\ d \in H
  BY SlackAssumption, FS_Subset, FS_CardinalityType DEF DInv, Slots
<1> HIDE DEF H
<1>2. Cardinality(H) # 0
  BY <1>1, FS_EmptySet
<1> QED BY <1>1, <1>2

\* The steps of dispatch, with which a delivery talks to the agent and to Slack.
InTurn(d) ==
    Lookup(d) \/ Create(d) \/ Recheck(d) \/ Run(d) \/ Deny(d) \/ Fail(d) \/ Post(d)

LEMMA TurnGoes ==
  ASSUME DInv, NEW d \in Delivery, InTurn(d)
  PROVE  /\ pc[d] \in Dispatching
         /\ \E p \in Dispatching \cup {"leave"} :
               /\ Goto(d, p)
               /\ p = "leave" <=> pc[d] \in {"post", "apology"}
         /\ sessions' \subseteq {SessionOf(e) : e \in Event}
         /\ denials' \in [Delivery -> 0..MaxDenials]
<1> USE SlackAssumption DEF Dispatching
<1>1. denials[d] \in 0..MaxDenials /\ pc[d] # "new" => what[d] \in Event
  BY DEF DInv, SlackTypeOK
<1>2. CASE Lookup(d)
  BY <1>2 DEF Lookup, DInv, SlackTypeOK
<1>3. CASE Create(d)
  BY <1>1, <1>3 DEF Create, DInv, SlackTypeOK
<1>4. CASE Recheck(d)
  BY <1>4 DEF Recheck, DInv, SlackTypeOK
<1>5. CASE Run(d)
  BY <1>5 DEF Run, TurnEnds, DInv, SlackTypeOK
<1>6. CASE Deny(d)
  BY <1>1, <1>6 DEF Deny, TurnEnds, DInv, SlackTypeOK
<1>7. CASE Fail(d)
  BY <1>7 DEF Fail, DInv, SlackTypeOK
<1>8. CASE Post(d)
  BY <1>8 DEF Post, DInv, SlackTypeOK
<1> QED BY <1>2, <1>3, <1>4, <1>5, <1>6, <1>7, <1>8 DEF InTurn

LEMMA InitDInv == SlackInit => DInv
<1> SUFFICES ASSUME SlackInit PROVE DInv
  OBVIOUS
<1> USE SlackAssumption DEF SlackInit
<1>1. SlackTypeOK
  BY DEF SlackTypeOK, Pc, NotAdmitted
<1>2. Slots
  <2>1. {d \in Delivery : pc[d] \in HoldsSlot} = {}
    BY DEF HoldsSlot
  <2>2. Cardinality({}) = 0 /\ slots = 0 /\ limit \in Nat
    BY FS_EmptySet
  <2> QED BY <2>1, <2>2 DEF Slots
<1>3. Senders
  BY DEF Senders, HoldsSender, HoldsSlot
<1>4. Turned /\ Remembered /\ Known
  BY DEF Turned, Remembered, WindowKept, Known, SomeAdmitted, AcknowledgedIsAdmitted, NotAdmitted, Dispatching
<1> QED BY <1>1, <1>2, <1>3, <1>4 DEF DInv

LEMMA TypeKept == ASSUME DInv, [SlackNext]_slackVars PROVE SlackTypeOK'
<1> USE SlackAssumption DEF Pc, HoldsSlot
<1>1. CASE Tick
  BY <1>1 DEF Tick, DInv, SlackTypeOK
<1>2. CASE BecomeReady
  BY <1>2 DEF BecomeReady, DInv, SlackTypeOK
<1>3. CASE SocketOpen
  BY <1>3 DEF SocketOpen, DInv, SlackTypeOK
<1>4. CASE SocketDrop
  BY <1>4 DEF SocketDrop, DInv, SlackTypeOK
<1>5. ASSUME NEW d \in Delivery, Receive(d) PROVE SlackTypeOK'
  <2>1. PICK e \in Event :
           /\ what' = [what EXCEPT ![d] = e]
           /\ \E p \in {"look", "done"} : pc' = [pc EXCEPT ![d] = p]
           /\ \/ verdict' = verdict /\ link' = link
              \/ verdict' = [verdict EXCEPT ![d] = "ok"] /\ link' = link
    BY <1>5 DEF Receive, Answer, NoAnswer
  <2>2. UNCHANGED <<now, seen, slots, active, clock, limit, ready, sessions, denials, admitted>>
    BY <1>5 DEF Receive
  <2> QED BY <2>1, <2>2 DEF DInv, SlackTypeOK
<1>6. ASSUME NEW d \in Delivery, ReadNow(d) PROVE SlackTypeOK'
  BY <1>6 DEF ReadNow, NoAnswer, DInv, SlackTypeOK
<1>7. ASSUME NEW d \in Delivery, Contains(d) PROVE SlackTypeOK'
  BY <1>7, PrunedTable DEF Contains, Answer, NoAnswer, DInv, SlackTypeOK
<1>8. ASSUME NEW d \in Delivery, TakeSlot(d) PROVE SlackTypeOK'
  BY <1>8, SMTT(30) DEF TakeSlot, Answer, NoAnswer, DInv, SlackTypeOK
<1>9. ASSUME NEW d \in Delivery, TakeScope(d) PROVE SlackTypeOK'
  BY <1>9 DEF TakeScope, NoAnswer, DInv, SlackTypeOK
<1>10. ASSUME NEW d \in Delivery, GiveBack(d) PROVE SlackTypeOK'
  BY <1>10, HasToken DEF GiveBack, Answer, DInv, SlackTypeOK
<1>11. ASSUME NEW d \in Delivery, Accept(d) PROVE SlackTypeOK'
  <2>1. /\ now' = [now EXCEPT ![d] = 0] /\ pc[d] = "accept"
        /\ UNCHANGED <<what, slots, active, clock, limit, ready, sessions, denials>>
        /\ now[d] \in Nat /\ now[d] <= clock /\ what[d] \in Event
    BY <1>11, PrunedTable DEF Accept, DInv, SlackTypeOK
  <2>2. CASE /\ Pruned(now[d])[what[d]] > 0 /\ seen' = Pruned(now[d])
             /\ pc' = [pc EXCEPT ![d] = "leave"] /\ UNCHANGED <<verdict, link, admitted>>
    <3>1. seen' \in [Event -> Nat]
      BY <2>2, PrunedTable
    <3> QED BY <2>1, <2>2, <3>1 DEF DInv, SlackTypeOK
  <2>3. CASE /\ Pruned(now[d])[what[d]] = 0
             /\ seen' = [Pruned(now[d]) EXCEPT ![what[d]] = now[d] + TTL]
             /\ admitted' = [admitted EXCEPT ![d] = [at |-> clock, stamp |-> now[d], done |-> TRUE]]
             /\ pc' = [pc EXCEPT ![d] = "ensure"] /\ verdict' = [verdict EXCEPT ![d] = "ok"]
             /\ link' \in {link, "closed"}
    <3>1. seen' \in [Event -> Nat]
      BY <2>1, <2>3, PrunedTable
    <3>2. admitted' \in [Delivery -> [at : Nat, stamp : Nat, done : BOOLEAN]]
      BY <2>1, <2>3 DEF DInv, SlackTypeOK
    <3> QED BY <2>1, <2>3, <3>1, <3>2 DEF DInv, SlackTypeOK
  <2>4. Pruned(now[d])[what[d]] \in Nat
    BY <2>1, PrunedTable
  <2> QED BY <1>11, <2>2, <2>3, <2>4 DEF Accept, Answer, NoAnswer
<1>12. ASSUME NEW d \in Delivery, Leave(d) PROVE SlackTypeOK'
  BY <1>12 DEF Leave, NoAnswer, DInv, SlackTypeOK
<1>13. ASSUME NEW d \in Delivery, Unslot(d) PROVE SlackTypeOK'
  BY <1>13, HasToken DEF Unslot, Answer, NoAnswer, DInv, SlackTypeOK
<1>14. ASSUME NEW d \in Delivery, InTurn(d) PROVE SlackTypeOK'
  <2>1. PICK p \in Dispatching \cup {"leave"} :
           /\ pc' = [pc EXCEPT ![d] = p] /\ pc[d] \in Dispatching
           /\ UNCHANGED <<what, verdict, now, seen, slots, active, clock, link, limit, ready, admitted>>
    BY <1>14, TurnGoes DEF Goto, NoAnswer
  <2>2. /\ sessions' \subseteq {SessionOf(e) : e \in Event} /\ denials' \in [Delivery -> 0..MaxDenials]
    BY <1>14, TurnGoes
  <2> QED BY <2>1, <2>2 DEF Dispatching, DInv, SlackTypeOK
<1>15. CASE UNCHANGED slackVars
  BY <1>15 DEF slackVars, DInv, SlackTypeOK
<1> QED BY <1>1, <1>2, <1>3, <1>4, <1>5, <1>6, <1>7, <1>8, <1>9, <1>10, <1>11, <1>12, <1>13, <1>14,
           <1>15 DEF SlackNext, Handle, InTurn

LEMMA SlotsKept == ASSUME DInv, [SlackNext]_slackVars PROVE Slots'
<1> USE SlackAssumption, Entering DEF HoldsSlot, Dispatching
<1>1. CASE Tick
  BY <1>1 DEF Tick, DInv, SlackTypeOK, Slots
<1>2. CASE BecomeReady
  BY <1>2 DEF BecomeReady, DInv, SlackTypeOK, Slots
<1>3. CASE SocketOpen
  BY <1>3 DEF SocketOpen, DInv, SlackTypeOK, Slots
<1>4. CASE SocketDrop
  BY <1>4 DEF SocketDrop, DInv, SlackTypeOK, Slots
<1>5. ASSUME NEW d \in Delivery, Receive(d) PROVE Slots'
  BY <1>5, SMTT(30) DEF Receive, Answer, NoAnswer, DInv, SlackTypeOK, Slots
<1>6. ASSUME NEW d \in Delivery, ReadNow(d) PROVE Slots'
  BY <1>6 DEF ReadNow, NoAnswer, DInv, SlackTypeOK, Slots
<1>7. ASSUME NEW d \in Delivery, Contains(d) PROVE Slots'
  BY <1>7, PrunedTable, SMTT(30) DEF Contains, Answer, NoAnswer, DInv, SlackTypeOK, Slots
<1>8. ASSUME NEW d \in Delivery, TakeSlot(d) PROVE Slots'
  BY <1>8 DEF TakeSlot, Answer, NoAnswer, DInv, SlackTypeOK, Slots
<1>9. ASSUME NEW d \in Delivery, TakeScope(d) PROVE Slots'
  BY <1>9 DEF TakeScope, NoAnswer, DInv, SlackTypeOK, Slots
<1>10. ASSUME NEW d \in Delivery, GiveBack(d) PROVE Slots'
  <2>1. /\ pc[d] \in HoldsSlot /\ pc' = [pc EXCEPT ![d] = "done"] /\ "done" \notin HoldsSlot
        /\ slots' = slots - 1 /\ limit' = limit
    BY <1>10 DEF GiveBack
  <2> DEFINE old == Cardinality({f \in Delivery : pc[f] \in HoldsSlot})
             new == Cardinality({f \in Delivery : pc'[f] \in HoldsSlot})
  <2>2. old \in Nat /\ new = old - 1
    BY <2>1, Entering
  <2>3. slots = old /\ slots <= limit /\ limit \in Nat
    BY DEF DInv, SlackTypeOK, Slots
  <2> HIDE DEF old, new
  <2>4. slots' = new /\ slots' <= limit'
    BY <2>1, <2>2, <2>3
  <2> QED BY <2>4 DEF Slots, new
<1>11. ASSUME NEW d \in Delivery, Accept(d) PROVE Slots'
  BY <1>11, PrunedTable DEF Accept, Answer, NoAnswer, DInv, SlackTypeOK, Slots
<1>12. ASSUME NEW d \in Delivery, Leave(d) PROVE Slots'
  BY <1>12 DEF Leave, NoAnswer, DInv, SlackTypeOK, Slots
<1>13. ASSUME NEW d \in Delivery, Unslot(d) PROVE Slots'
  <2>1. /\ pc[d] \in HoldsSlot /\ pc' = [pc EXCEPT ![d] = "done"] /\ "done" \notin HoldsSlot
        /\ slots' = slots - 1 /\ limit' = limit
    BY <1>13 DEF Unslot
  <2> DEFINE old == Cardinality({f \in Delivery : pc[f] \in HoldsSlot})
             new == Cardinality({f \in Delivery : pc'[f] \in HoldsSlot})
  <2>2. old \in Nat /\ new = old - 1
    BY <2>1, Entering
  <2>3. slots = old /\ slots <= limit /\ limit \in Nat
    BY DEF DInv, SlackTypeOK, Slots
  <2> HIDE DEF old, new
  <2>4. slots' = new /\ slots' <= limit'
    BY <2>1, <2>2, <2>3
  <2> QED BY <2>4 DEF Slots, new
<1>14. ASSUME NEW d \in Delivery, InTurn(d) PROVE Slots'
  BY <1>14, TurnGoes DEF Goto, NoAnswer, DInv, SlackTypeOK, Slots
<1>15. CASE UNCHANGED slackVars
  BY <1>15 DEF slackVars, DInv, SlackTypeOK, Slots
<1> QED BY <1>1, <1>2, <1>3, <1>4, <1>5, <1>6, <1>7, <1>8, <1>9, <1>10, <1>11, <1>12, <1>13, <1>14,
           <1>15 DEF SlackNext, Handle, InTurn

LEMMA SendersKept == ASSUME DInv, [SlackNext]_slackVars PROVE Senders'
<1> USE SlackAssumption DEF HoldsSender, HoldsSlot, Dispatching
<1>1. CASE Tick
  BY <1>1 DEF Tick, DInv, SlackTypeOK, Senders
<1>2. CASE BecomeReady
  BY <1>2 DEF BecomeReady, DInv, SlackTypeOK, Senders
<1>3. CASE SocketOpen
  BY <1>3 DEF SocketOpen, DInv, SlackTypeOK, Senders
<1>4. CASE SocketDrop
  BY <1>4 DEF SocketDrop, DInv, SlackTypeOK, Senders
<1>5. ASSUME NEW d \in Delivery, Receive(d) PROVE Senders'
  BY <1>5 DEF Receive, Answer, NoAnswer, DInv, SlackTypeOK, Senders
<1>6. ASSUME NEW d \in Delivery, ReadNow(d) PROVE Senders'
  BY <1>6 DEF ReadNow, NoAnswer, DInv, SlackTypeOK, Senders
<1>7. ASSUME NEW d \in Delivery, Contains(d) PROVE Senders'
  <2>1. /\ pc[d] = "contains" /\ \E p \in {"slot", "done"} : pc' = [pc EXCEPT ![d] = p]
        /\ now' = [now EXCEPT ![d] = 0] /\ seen' = Pruned(now[d])
        /\ UNCHANGED <<what, slots, active, clock, limit, ready, sessions, denials, admitted>>
    BY <1>7 DEF Contains
  <2>2. /\ what' = what /\ \A f \in Delivery : pc'[f] \in HoldsSender => pc[f] \in HoldsSender
    BY <2>1 DEF DInv, SlackTypeOK
  <2> QED BY <2>1, <2>2 DEF DInv, Senders
<1>8. ASSUME NEW d \in Delivery, TakeSlot(d) PROVE Senders'
  BY <1>8 DEF TakeSlot, Answer, NoAnswer, DInv, SlackTypeOK, Senders
<1>9. ASSUME NEW d \in Delivery, TakeScope(d) PROVE Senders'
  <2>1. /\ pc[d] = "scope" /\ what' = what
        /\ \/ pc' = [pc EXCEPT ![d] = "full"] /\ active' = active
           \/ /\ pc' = [pc EXCEPT ![d] = "stamp"] /\ SenderOf(what[d]) \notin active
              /\ active' = active \cup {SenderOf(what[d])}
    BY <1>9 DEF TakeScope
  <2>2. \A f \in Delivery : f # d => pc'[f] = pc[f]
    BY <2>1 DEF DInv, SlackTypeOK
  <2>3. CASE active' = active /\ pc' = [pc EXCEPT ![d] = "full"]
    BY <2>1, <2>2, <2>3 DEF DInv, SlackTypeOK, Senders
  <2>4. CASE SenderOf(what[d]) \notin active /\ active' = active \cup {SenderOf(what[d])}
    <3>1. \A f \in Delivery : f # d /\ pc'[f] \in HoldsSender =>
              SenderOf(what[f]) \in active /\ SenderOf(what[f]) # SenderOf(what[d])
      BY <2>2, <2>4 DEF DInv, Senders
    <3> HIDE DEF SenderOf
    <3>2. \A f \in Delivery : pc'[f] \in HoldsSender => SenderOf(what[f]) \in active'
      BY <2>4, <3>1
    <3>3. \A f, g \in Delivery : f # g /\ pc'[f] \in HoldsSender /\ pc'[g] \in HoldsSender
             => SenderOf(what[f]) # SenderOf(what[g])
      BY <2>2, <3>1 DEF DInv, Senders
    <3> QED BY <2>1, <3>2, <3>3 DEF Senders, SenderOf
  <2> QED BY <2>1, <2>3, <2>4
<1>10. ASSUME NEW d \in Delivery, GiveBack(d) PROVE Senders'
  BY <1>10 DEF GiveBack, Answer, DInv, SlackTypeOK, Senders
<1>11. ASSUME NEW d \in Delivery, Accept(d) PROVE Senders'
  <2>1. /\ pc[d] = "accept" /\ \E p \in {"leave", "ensure"} : pc' = [pc EXCEPT ![d] = p]
        /\ UNCHANGED <<what, active>>
    BY <1>11 DEF Accept
  <2>2. /\ what' = what /\ \A f \in Delivery : pc'[f] \in HoldsSender => pc[f] \in HoldsSender
    BY <2>1 DEF DInv, SlackTypeOK
  <2> QED BY <2>1, <2>2 DEF DInv, Senders
<1>12. ASSUME NEW d \in Delivery, Leave(d) PROVE Senders'
  BY <1>12 DEF Leave, NoAnswer, DInv, SlackTypeOK, Senders
<1>13. ASSUME NEW d \in Delivery, Unslot(d) PROVE Senders'
  BY <1>13 DEF Unslot, Answer, NoAnswer, DInv, SlackTypeOK, Senders
<1>14. ASSUME NEW d \in Delivery, InTurn(d) PROVE Senders'
  <2>1. PICK p \in Dispatching \cup {"leave"} :
           /\ pc' = [pc EXCEPT ![d] = p] /\ pc[d] \in Dispatching
           /\ UNCHANGED <<what, verdict, now, seen, slots, active, clock, link, limit, ready, admitted>>
    BY <1>14, TurnGoes DEF Goto, NoAnswer
  <2>2. /\ what' = what /\ \A f \in Delivery : pc'[f] \in HoldsSender => pc[f] \in HoldsSender
    BY <2>1 DEF DInv, SlackTypeOK
  <2> QED BY <2>1, <2>2 DEF DInv, Senders
<1>15. CASE UNCHANGED slackVars
  BY <1>15 DEF slackVars, DInv, SlackTypeOK, Senders
<1> QED BY <1>1, <1>2, <1>3, <1>4, <1>5, <1>6, <1>7, <1>8, <1>9, <1>10, <1>11, <1>12, <1>13, <1>14,
           <1>15 DEF SlackNext, Handle, InTurn

LEMMA TurnedKept == ASSUME DInv, [SlackNext]_slackVars PROVE Turned'
<1> USE SlackAssumption DEF Dispatching
<1>1. CASE Tick
  BY <1>1 DEF Tick, DInv, SlackTypeOK, Turned
<1>2. CASE BecomeReady
  BY <1>2 DEF BecomeReady, DInv, SlackTypeOK, Turned
<1>3. CASE SocketOpen
  BY <1>3 DEF SocketOpen, DInv, SlackTypeOK, Turned
<1>4. CASE SocketDrop
  BY <1>4 DEF SocketDrop, DInv, SlackTypeOK, Turned
<1>5. ASSUME NEW d \in Delivery, Receive(d) PROVE Turned'
  BY <1>5 DEF Receive, Answer, NoAnswer, DInv, SlackTypeOK, Turned
<1>6. ASSUME NEW d \in Delivery, ReadNow(d) PROVE Turned'
  BY <1>6 DEF ReadNow, NoAnswer, DInv, SlackTypeOK, Turned
<1>7. ASSUME NEW d \in Delivery, Contains(d) PROVE Turned'
  BY <1>7, PrunedTable DEF Contains, Answer, NoAnswer, DInv, SlackTypeOK, Turned
<1>8. ASSUME NEW d \in Delivery, TakeSlot(d) PROVE Turned'
  BY <1>8 DEF TakeSlot, Answer, NoAnswer, DInv, SlackTypeOK, Turned
<1>9. ASSUME NEW d \in Delivery, TakeScope(d) PROVE Turned'
  BY <1>9 DEF TakeScope, NoAnswer, DInv, SlackTypeOK, Turned
<1>10. ASSUME NEW d \in Delivery, GiveBack(d) PROVE Turned'
  BY <1>10 DEF GiveBack, Answer, DInv, SlackTypeOK, Turned
<1>11. ASSUME NEW d \in Delivery, Accept(d) PROVE Turned'
  BY <1>11, PrunedTable DEF Accept, Answer, NoAnswer, DInv, SlackTypeOK, Turned
<1>12. ASSUME NEW d \in Delivery, Leave(d) PROVE Turned'
  BY <1>12 DEF Leave, NoAnswer, DInv, SlackTypeOK, Turned
<1>13. ASSUME NEW d \in Delivery, Unslot(d) PROVE Turned'
  BY <1>13 DEF Unslot, Answer, NoAnswer, DInv, SlackTypeOK, Turned
<1>14. ASSUME NEW d \in Delivery, InTurn(d) PROVE Turned'
  BY <1>14, TurnGoes DEF Goto, NoAnswer, DInv, SlackTypeOK, Turned
<1>15. CASE UNCHANGED slackVars
  BY <1>15 DEF slackVars, DInv, SlackTypeOK, Turned
<1> QED BY <1>1, <1>2, <1>3, <1>4, <1>5, <1>6, <1>7, <1>8, <1>9, <1>10, <1>11, <1>12, <1>13, <1>14,
           <1>15 DEF SlackNext, Handle, InTurn

LEMMA RememberedKept == ASSUME DInv, [SlackNext]_slackVars PROVE Remembered'
<1> USE SlackAssumption DEF Dispatching
<1>1. CASE Tick
  BY <1>1 DEF Tick, DInv, SlackTypeOK, Turned, Remembered, WindowKept
<1>2. CASE BecomeReady
  BY <1>2 DEF BecomeReady, DInv, SlackTypeOK, Turned, Remembered, WindowKept
<1>3. CASE SocketOpen
  BY <1>3 DEF SocketOpen, DInv, SlackTypeOK, Turned, Remembered, WindowKept
<1>4. CASE SocketDrop
  BY <1>4 DEF SocketDrop, DInv, SlackTypeOK, Turned, Remembered, WindowKept
<1>5. ASSUME NEW d \in Delivery, Receive(d) PROVE Remembered'
  BY <1>5 DEF Receive, Answer, NoAnswer, DInv, SlackTypeOK, Turned, Remembered, WindowKept
<1>6. ASSUME NEW d \in Delivery, ReadNow(d) PROVE Remembered'
  BY <1>6 DEF ReadNow, NoAnswer, DInv, SlackTypeOK, Turned, Remembered, WindowKept
<1>7. ASSUME NEW d \in Delivery, Contains(d) PROVE Remembered'
  <2>1. /\ pc[d] = "contains" /\ \E p \in {"slot", "done"} : pc' = [pc EXCEPT ![d] = p]
        /\ now' = [now EXCEPT ![d] = 0] /\ seen' = Pruned(now[d])
        /\ UNCHANGED <<what, slots, active, clock, limit, ready, sessions, denials, admitted>>
    BY <1>7 DEF Contains
  <2>2. ASSUME NEW f \in Delivery, admitted[f].done
        PROVE  LET end == admitted[f].stamp + TTL IN seen'[what[f]] >= end \/ clock >= end
    <3>1. what[f] \in Event /\ admitted[f].stamp \in Nat /\ clock \in Nat /\ seen[what[f]] \in Nat
      BY <2>2 DEF DInv, SlackTypeOK, Turned
    <3>2. seen'[what[f]] = IF seen[what[f]] > now[d] THEN seen[what[f]] ELSE 0
      BY <2>1, <3>1, PrunedTable
    <3> QED BY <2>2, <3>1, <3>2, PrunedTable DEF DInv, Remembered
  <2> QED BY <2>1, <2>2 DEF DInv, Remembered, WindowKept
<1>8. ASSUME NEW d \in Delivery, TakeSlot(d) PROVE Remembered'
  BY <1>8 DEF TakeSlot, Answer, NoAnswer, DInv, SlackTypeOK, Turned, Remembered, WindowKept
<1>9. ASSUME NEW d \in Delivery, TakeScope(d) PROVE Remembered'
  BY <1>9 DEF TakeScope, NoAnswer, DInv, SlackTypeOK, Turned, Remembered, WindowKept
<1>10. ASSUME NEW d \in Delivery, GiveBack(d) PROVE Remembered'
  BY <1>10 DEF GiveBack, Answer, DInv, SlackTypeOK, Turned, Remembered, WindowKept
<1>11. ASSUME NEW d \in Delivery, Accept(d) PROVE Remembered'
  <2>0. ASSUME NEW f \in Delivery, admitted[f].done
        PROVE  LET end == admitted[f].stamp + TTL IN
               /\ what[f] = what[d] /\ Pruned(now[d])[what[d]] = 0 => clock >= end
               /\ Pruned(now[d])[what[f]] >= end \/ clock >= end
    <3>1. what[f] \in Event /\ admitted[f].stamp \in Nat /\ clock \in Nat /\ seen[what[f]] \in Nat
      BY <2>0 DEF DInv, SlackTypeOK, Turned
    <3>2. Pruned(now[d])[what[f]] = IF seen[what[f]] > now[d] THEN seen[what[f]] ELSE 0
      BY <3>1, PrunedTable
    <3>3. now[d] \in Nat /\ now[d] <= clock
      BY PrunedTable
    <3> QED BY <2>0, <3>1, <3>2, <3>3 DEF DInv, Remembered
  <2>1. /\ now' = [now EXCEPT ![d] = 0] /\ pc[d] = "accept"
        /\ UNCHANGED <<what, slots, active, clock, limit, ready, sessions, denials>>
        /\ now[d] \in Nat /\ now[d] <= clock /\ what[d] \in Event
    BY <1>11, PrunedTable DEF Accept, DInv, SlackTypeOK
  <2>2. CASE /\ Pruned(now[d])[what[d]] > 0 /\ seen' = Pruned(now[d])
             /\ pc' = [pc EXCEPT ![d] = "leave"] /\ UNCHANGED <<verdict, link, admitted>>
    BY <2>0, <2>1, <2>2 DEF DInv, Remembered, WindowKept
  <2>3. CASE /\ Pruned(now[d])[what[d]] = 0
             /\ seen' = [Pruned(now[d]) EXCEPT ![what[d]] = now[d] + TTL]
             /\ admitted' = [admitted EXCEPT ![d] = [at |-> clock, stamp |-> now[d], done |-> TRUE]]
             /\ pc' = [pc EXCEPT ![d] = "ensure"] /\ verdict' = [verdict EXCEPT ![d] = "ok"]
             /\ link' \in {link, "closed"}
    <3>1. ~admitted[d].done /\ \A f \in Delivery : f # d => admitted'[f] = admitted[f]
      BY <2>1, <2>3 DEF DInv, SlackTypeOK, Turned
    <3>2. admitted'[d].at = clock /\ admitted'[d].stamp = now[d] /\ admitted'[d].done
      BY <2>3 DEF DInv, SlackTypeOK
    <3>3. \A f \in Delivery : admitted[f].done /\ what[f] = what[d] => clock >= admitted[f].stamp + TTL
      BY <2>0, <2>3
    <3>4. WindowKept'
      BY <2>1, <3>1, <3>2, <3>3 DEF DInv, Remembered, WindowKept
    <3>5. ASSUME NEW f \in Delivery, admitted'[f].done
          PROVE  LET end == admitted'[f].stamp + TTL IN seen'[what[f]] >= end \/ clock >= end
      <4>1. seen'[what[d]] = now[d] + TTL /\ now[d] + TTL \in Nat
        BY <2>1, <2>3, PrunedTable
      <4>2. CASE f = d
        BY <3>2, <4>1, <4>2
      <4>3. CASE f # d /\ what[f] = what[d]
        BY <3>1, <3>3, <3>5, <4>3
      <4>4. CASE f # d /\ what[f] # what[d]
        <5>1. what[f] \in Event /\ admitted[f].done
          BY <3>1, <3>5, <4>4 DEF DInv, SlackTypeOK, Turned
        <5>2. seen'[what[f]] = Pruned(now[d])[what[f]]
          BY <2>1, <2>3, <4>4, <5>1, PrunedTable
        <5> QED BY <2>0, <3>1, <4>4, <5>1, <5>2
      <4> QED BY <4>2, <4>3, <4>4
    <3> QED BY <2>1, <3>4, <3>5 DEF Remembered
  <2>4. Pruned(now[d])[what[d]] \in Nat
    BY <2>1, PrunedTable
  <2> QED BY <1>11, <2>2, <2>3, <2>4 DEF Accept, Answer, NoAnswer
<1>12. ASSUME NEW d \in Delivery, Leave(d) PROVE Remembered'
  BY <1>12 DEF Leave, NoAnswer, DInv, SlackTypeOK, Turned, Remembered, WindowKept
<1>13. ASSUME NEW d \in Delivery, Unslot(d) PROVE Remembered'
  BY <1>13 DEF Unslot, Answer, NoAnswer, DInv, SlackTypeOK, Turned, Remembered, WindowKept
<1>14. ASSUME NEW d \in Delivery, InTurn(d) PROVE Remembered'
  <2>1. PICK p \in Dispatching \cup {"leave"} :
           /\ pc' = [pc EXCEPT ![d] = p] /\ pc[d] \in Dispatching
           /\ UNCHANGED <<what, verdict, now, seen, slots, active, clock, link, limit, ready, admitted>>
    BY <1>14, TurnGoes DEF Goto, NoAnswer
  <2> QED BY <2>1 DEF DInv, Remembered, WindowKept
<1>15. CASE UNCHANGED slackVars
  BY <1>15 DEF slackVars, DInv, SlackTypeOK, Turned, Remembered, WindowKept
<1> QED BY <1>1, <1>2, <1>3, <1>4, <1>5, <1>6, <1>7, <1>8, <1>9, <1>10, <1>11, <1>12, <1>13, <1>14,
           <1>15 DEF SlackNext, Handle, InTurn

LEMMA KnownKept == ASSUME DInv, [SlackNext]_slackVars PROVE Known'
<1> USE SlackAssumption DEF Dispatching
<1>1. CASE Tick
  BY <1>1 DEF Tick, DInv, SlackTypeOK, Turned, Known, SomeAdmitted, AcknowledgedIsAdmitted
<1>2. CASE BecomeReady
  BY <1>2 DEF BecomeReady, DInv, SlackTypeOK, Turned, Known, SomeAdmitted, AcknowledgedIsAdmitted
<1>3. CASE SocketOpen
  BY <1>3 DEF SocketOpen, DInv, SlackTypeOK, Turned, Known, SomeAdmitted, AcknowledgedIsAdmitted
<1>4. CASE SocketDrop
  BY <1>4 DEF SocketDrop, DInv, SlackTypeOK, Turned, Known, SomeAdmitted, AcknowledgedIsAdmitted
<1>5. ASSUME NEW d \in Delivery, Receive(d) PROVE Known'
  BY <1>5 DEF Receive, Answer, NoAnswer, DInv, SlackTypeOK, Turned, Known, SomeAdmitted,
     AcknowledgedIsAdmitted
<1>6. ASSUME NEW d \in Delivery, ReadNow(d) PROVE Known'
  BY <1>6 DEF ReadNow, NoAnswer, DInv, SlackTypeOK, Turned, Known, SomeAdmitted, AcknowledgedIsAdmitted
<1>7. ASSUME NEW d \in Delivery, Contains(d) PROVE Known'
  <2>1. /\ pc[d] = "contains" /\ \E p \in {"slot", "done"} : pc' = [pc EXCEPT ![d] = p]
        /\ now' = [now EXCEPT ![d] = 0] /\ seen' = Pruned(now[d])
        /\ UNCHANGED <<what, slots, active, clock, limit, ready, sessions, denials, admitted>>
    BY <1>7 DEF Contains
  <2>2. \A e : SomeAdmitted(e)' <=> SomeAdmitted(e)
    BY <2>1 DEF SomeAdmitted
  <2>3. \A e \in Event : seen'[e] > 0 => seen[e] > 0
    BY <2>1, PrunedTable DEF DInv, SlackTypeOK
  <2>4. \A f \in Delivery : pc'[f] \in {"leave", "unslot"} => pc[f] \in {"leave", "unslot"}
    BY <2>1 DEF DInv, SlackTypeOK
  <2>5. verdict' = verdict \/ (verdict' = [verdict EXCEPT ![d] = "ok"] /\ seen'[what[d]] > 0)
    BY <1>7 DEF Contains, Answer, NoAnswer
  <2>6. what[d] \in Event
    BY <2>1 DEF DInv, SlackTypeOK
  <2>7. \A f \in Delivery : verdict'[f] = "ok" /\ AcceptedMessage(what[f]) => SomeAdmitted(what[f])
    BY <2>3, <2>5, <2>6 DEF DInv, SlackTypeOK, Known, AcknowledgedIsAdmitted, SomeAdmitted
  <2>8. AcknowledgedIsAdmitted'
    BY <2>1, <2>7 DEF AcknowledgedIsAdmitted, SomeAdmitted
  <2> QED BY <2>1, <2>2, <2>3, <2>4, <2>8 DEF DInv, Known
<1>8. ASSUME NEW d \in Delivery, TakeSlot(d) PROVE Known'
  BY <1>8 DEF TakeSlot, Answer, NoAnswer, DInv, SlackTypeOK, Turned, Known, SomeAdmitted,
     AcknowledgedIsAdmitted
<1>9. ASSUME NEW d \in Delivery, TakeScope(d) PROVE Known'
  BY <1>9 DEF TakeScope, NoAnswer, DInv, SlackTypeOK, Turned, Known, SomeAdmitted, AcknowledgedIsAdmitted
<1>10. ASSUME NEW d \in Delivery, GiveBack(d) PROVE Known'
  BY <1>10 DEF GiveBack, Answer, DInv, SlackTypeOK, Turned, Known, SomeAdmitted, AcknowledgedIsAdmitted
<1>11. ASSUME NEW d \in Delivery, Accept(d) PROVE Known'
  <2>1. /\ now' = [now EXCEPT ![d] = 0] /\ pc[d] = "accept"
        /\ UNCHANGED <<what, slots, active, clock, limit, ready, sessions, denials>>
        /\ now[d] \in Nat /\ now[d] <= clock /\ what[d] \in Event
    BY <1>11, PrunedTable DEF Accept, DInv, SlackTypeOK
  <2>2. CASE /\ Pruned(now[d])[what[d]] > 0 /\ seen' = Pruned(now[d])
             /\ pc' = [pc EXCEPT ![d] = "leave"] /\ UNCHANGED <<verdict, link, admitted>>
    <3>1. \A e : SomeAdmitted(e)' <=> SomeAdmitted(e)
      BY <2>1, <2>2 DEF SomeAdmitted
    <3>2. \A e \in Event : seen'[e] > 0 => seen[e] > 0
      BY <2>2, PrunedTable DEF DInv, SlackTypeOK
    <3>3. SomeAdmitted(what[d])
      BY <2>1, <2>2, <3>2 DEF DInv, Known
    <3>4. \A f \in Delivery : f # d => pc'[f] = pc[f]
      BY <2>2 DEF DInv, SlackTypeOK
    <3>5. AcknowledgedIsAdmitted'
      BY <2>1, <2>2 DEF DInv, Known, AcknowledgedIsAdmitted
    <3>6. \A f \in Delivery : pc'[f] \in {"leave", "unslot"} => SomeAdmitted(what[f])
      BY <3>3, <3>4 DEF DInv, Known
    <3> QED BY <2>1, <3>1, <3>2, <3>5, <3>6 DEF DInv, Known
  <2>3. CASE /\ Pruned(now[d])[what[d]] = 0
             /\ seen' = [Pruned(now[d]) EXCEPT ![what[d]] = now[d] + TTL]
             /\ admitted' = [admitted EXCEPT ![d] = [at |-> clock, stamp |-> now[d], done |-> TRUE]]
             /\ pc' = [pc EXCEPT ![d] = "ensure"] /\ verdict' = [verdict EXCEPT ![d] = "ok"]
             /\ link' \in {link, "closed"}
    <3>1. admitted'[d].done /\ \A f \in Delivery : admitted[f].done => admitted'[f].done
      BY <2>3 DEF DInv, SlackTypeOK
    <3>2. \A e : SomeAdmitted(e) => SomeAdmitted(e)'
      BY <2>1, <3>1 DEF SomeAdmitted
    <3>3. SomeAdmitted(what[d])'
      BY <2>1, <3>1 DEF SomeAdmitted
    <3>4. \A e \in Event : e # what[d] /\ seen'[e] > 0 => seen[e] > 0
      BY <2>1, <2>3, PrunedTable DEF DInv, SlackTypeOK
    <3>5. \A e \in Event : seen'[e] > 0 => SomeAdmitted(e)'
      <4> TAKE e \in Event
      <4>1. CASE e = what[d]
        BY <2>1, <3>3, <4>1 DEF SomeAdmitted
      <4>2. CASE e # what[d]
        BY <3>2, <3>4, <4>2 DEF DInv, Known
      <4> QED BY <4>1, <4>2
    <3>6. \A f \in Delivery : pc'[f] \in {"leave", "unslot"} => SomeAdmitted(what[f])'
      BY <2>1, <2>3, <3>1 DEF DInv, SlackTypeOK, Known, SomeAdmitted
    <3>7. \A f \in Delivery : verdict'[f] = "ok" /\ AcceptedMessage(what[f]) =>
             \E g \in Delivery : what[g] = what[f] /\ admitted'[g].done
      BY <2>1, <2>3, <3>1 DEF DInv, SlackTypeOK, Known, AcknowledgedIsAdmitted
    <3>8. AcknowledgedIsAdmitted'
      BY <2>1, <3>7 DEF AcknowledgedIsAdmitted
    <3> QED BY <3>5, <3>6, <3>8 DEF Known
  <2>4. Pruned(now[d])[what[d]] \in Nat
    BY <2>1, PrunedTable
  <2> QED BY <1>11, <2>2, <2>3, <2>4 DEF Accept, Answer, NoAnswer
<1>12. ASSUME NEW d \in Delivery, Leave(d) PROVE Known'
  BY <1>12 DEF Leave, NoAnswer, DInv, SlackTypeOK, Turned, Known, SomeAdmitted, AcknowledgedIsAdmitted
<1>13. ASSUME NEW d \in Delivery, Unslot(d) PROVE Known'
  BY <1>13 DEF Unslot, Answer, NoAnswer, DInv, SlackTypeOK, Turned, Known, SomeAdmitted,
     AcknowledgedIsAdmitted
<1>14. ASSUME NEW d \in Delivery, InTurn(d) PROVE Known'
  <2>1. PICK p \in Dispatching \cup {"leave"} :
           /\ pc' = [pc EXCEPT ![d] = p] /\ pc[d] \in Dispatching
           /\ UNCHANGED <<what, verdict, now, seen, slots, active, clock, link, limit, ready, admitted>>
    BY <1>14, TurnGoes DEF Goto, NoAnswer
  <2>2. \A e : SomeAdmitted(e)' <=> SomeAdmitted(e)
    BY <2>1 DEF SomeAdmitted
  <2>3. SomeAdmitted(what[d])
    BY <2>1 DEF DInv, Turned, SomeAdmitted
  <2>4. \A f \in Delivery : f # d => pc'[f] = pc[f]
    BY <2>1 DEF DInv, SlackTypeOK
  <2>5. \A f \in Delivery : pc'[f] \in {"leave", "unslot"} => SomeAdmitted(what[f])
    BY <2>1, <2>3, <2>4 DEF DInv, Known
  <2>6. AcknowledgedIsAdmitted'
    BY <2>1 DEF DInv, Known, AcknowledgedIsAdmitted
  <2> QED BY <2>1, <2>2, <2>5, <2>6 DEF DInv, Known, SomeAdmitted
<1>15. CASE UNCHANGED slackVars
  BY <1>15 DEF slackVars, DInv, SlackTypeOK, Turned, Known, SomeAdmitted, AcknowledgedIsAdmitted
<1> QED BY <1>1, <1>2, <1>3, <1>4, <1>5, <1>6, <1>7, <1>8, <1>9, <1>10, <1>11, <1>12, <1>13, <1>14,
           <1>15 DEF SlackNext, Handle, InTurn

LEMMA StepsMap == ASSUME DInv, [SlackNext]_slackVars PROVE [Delivered!Next]_(Delivered!vars)
<1> USE SlackAssumption DEF Dispatching
<1>1. CASE Tick
  BY <1>1 DEF Tick, Delivered!Next, Delivered!vars, Delivered!Forget, DInv, SlackTypeOK
<1>2. CASE BecomeReady
  BY <1>2 DEF BecomeReady, Delivered!Next, Delivered!vars, Delivered!Forget, DInv, SlackTypeOK
<1>3. CASE SocketOpen
  BY <1>3 DEF SocketOpen, Delivered!Next, Delivered!vars, Delivered!Forget, DInv, SlackTypeOK
<1>4. CASE SocketDrop
  BY <1>4 DEF SocketDrop, Delivered!Next, Delivered!vars, Delivered!Forget, DInv, SlackTypeOK
<1>5. ASSUME NEW d \in Delivery, Receive(d) PROVE [Delivered!Next]_(Delivered!vars)
  BY <1>5 DEF Receive, Answer, NoAnswer, Delivered!Next, Delivered!vars, Delivered!Forget, DInv, SlackTypeOK
<1>6. ASSUME NEW d \in Delivery, ReadNow(d) PROVE [Delivered!Next]_(Delivered!vars)
  BY <1>6 DEF ReadNow, NoAnswer, Delivered!Next, Delivered!vars, Delivered!Forget, DInv, SlackTypeOK
<1>7. ASSUME NEW d \in Delivery, Contains(d) PROVE [Delivered!Next]_(Delivered!vars)
  <2>1. /\ pc[d] = "contains" /\ \E p \in {"slot", "done"} : pc' = [pc EXCEPT ![d] = p]
        /\ now' = [now EXCEPT ![d] = 0] /\ seen' = Pruned(now[d])
        /\ UNCHANGED <<what, slots, active, clock, limit, ready, sessions, denials, admitted>>
    BY <1>7 DEF Contains
  <2> DEFINE W == {what[g] : g \in {f \in Delivery : pc[f] \in Dispatching}}
             V == {what'[g] : g \in {f \in Delivery : pc'[f] \in Dispatching}}
             R == {e \in Event : seen[e] > clock}
             Q == {e \in Event : seen'[e] > clock'}
  <2>4. ASSUME NEW e \in Event PROVE seen'[e] > clock <=> seen[e] > clock
    <3>1. seen[e] \in Nat /\ clock \in Nat /\ now[d] \in Nat /\ now[d] <= clock
      BY PrunedTable DEF DInv, SlackTypeOK
    <3>2. seen'[e] = IF seen[e] > now[d] THEN seen[e] ELSE 0
      BY <2>1, PrunedTable
    <3> QED BY <3>1, <3>2
  <2>2. Q = R
    BY <2>1, <2>4
  <2>3. V = W
    BY <2>1 DEF DInv, SlackTypeOK
  <2> QED BY <2>2, <2>3 DEF Delivered!Next, Delivered!vars, Delivered!Forget
<1>8. ASSUME NEW d \in Delivery, TakeSlot(d) PROVE [Delivered!Next]_(Delivered!vars)
  BY <1>8 DEF TakeSlot, Answer, NoAnswer, Delivered!Next, Delivered!vars, Delivered!Forget, DInv, SlackTypeOK
<1>9. ASSUME NEW d \in Delivery, TakeScope(d) PROVE [Delivered!Next]_(Delivered!vars)
  BY <1>9 DEF TakeScope, NoAnswer, Delivered!Next, Delivered!vars, Delivered!Forget, DInv, SlackTypeOK
<1>10. ASSUME NEW d \in Delivery, GiveBack(d) PROVE [Delivered!Next]_(Delivered!vars)
  BY <1>10 DEF GiveBack, Answer, Delivered!Next, Delivered!vars, Delivered!Forget, DInv, SlackTypeOK
<1>11. ASSUME NEW d \in Delivery, Accept(d) PROVE [Delivered!Next]_(Delivered!vars)
  <2>0. ASSUME NEW e \in Event
        PROVE  /\ Pruned(now[d])[e] > clock <=> seen[e] > clock
               /\ Pruned(now[d])[e] = 0 => ~(seen[e] > clock)
    <3>1. seen[e] \in Nat /\ clock \in Nat /\ now[d] \in Nat /\ now[d] <= clock
      BY PrunedTable DEF DInv, SlackTypeOK
    <3>2. Pruned(now[d])[e] = IF seen[e] > now[d] THEN seen[e] ELSE 0
      BY PrunedTable
    <3> QED BY <3>1, <3>2
  <2>1. /\ now' = [now EXCEPT ![d] = 0] /\ pc[d] = "accept"
        /\ UNCHANGED <<what, slots, active, clock, limit, ready, sessions, denials>>
        /\ now[d] \in Nat /\ now[d] <= clock /\ what[d] \in Event
    BY <1>11, PrunedTable DEF Accept, DInv, SlackTypeOK
  <2> DEFINE W == {what[g] : g \in {f \in Delivery : pc[f] \in Dispatching}}
             V == {what'[g] : g \in {f \in Delivery : pc'[f] \in Dispatching}}
             R == {e \in Event : seen[e] > clock}
             Q == {e \in Event : seen'[e] > clock'}
  <2>2. CASE /\ Pruned(now[d])[what[d]] > 0 /\ seen' = Pruned(now[d])
             /\ pc' = [pc EXCEPT ![d] = "leave"] /\ UNCHANGED <<verdict, link, admitted>>
    <3>1. Q = R
      BY <2>0, <2>1, <2>2
    <3>2. V = W
      BY <2>1, <2>2 DEF DInv, SlackTypeOK
    <3> QED BY <3>1, <3>2 DEF Delivered!Next, Delivered!vars, Delivered!Forget
  <2>3. CASE /\ Pruned(now[d])[what[d]] = 0
             /\ seen' = [Pruned(now[d]) EXCEPT ![what[d]] = now[d] + TTL]
             /\ admitted' = [admitted EXCEPT ![d] = [at |-> clock, stamp |-> now[d], done |-> TRUE]]
             /\ pc' = [pc EXCEPT ![d] = "ensure"] /\ verdict' = [verdict EXCEPT ![d] = "ok"]
             /\ link' \in {link, "closed"}
    <3>1. \A f \in Delivery : f # d => pc'[f] = pc[f]
      BY <2>3 DEF DInv, SlackTypeOK
    <3>2. pc'[d] = "ensure" /\ what' = what
      BY <2>1, <2>3 DEF DInv, SlackTypeOK
    <3>3. V = W \cup {what[d]}
      BY <2>1, <3>1, <3>2
    <3>4. what[d] \notin R
      BY <2>0, <2>1, <2>3
    <3>5. Q \subseteq R \cup {what[d]}
      <4>1. \A e \in Event : e # what[d] => seen'[e] = Pruned(now[d])[e]
        BY <2>1, <2>3, PrunedTable
      <4> QED BY <2>0, <2>1, <4>1
    <3>6. \A f \in Delivery : pc[f] \in Dispatching => SenderOf(what[f]) # SenderOf(what[d])
      BY <2>1 DEF DInv, Senders, HoldsSender, HoldsSlot
    <3>7. W \subseteq Event
      BY DEF DInv, SlackTypeOK
    <3>8. \A e \in W : [f \in Event |-> SenderOf(f)][e] # [f \in Event |-> SenderOf(f)][what[d]]
      BY <2>1, <3>6, <3>7
    <3>e. PICK mine \in Event : mine = what[d]
      BY <2>1
    <3>9. Delivered!Admit(mine)
      BY <3>3, <3>4, <3>5, <3>8, <3>e DEF Delivered!Admit
    <3>10. \E e \in Event : Delivered!Admit(e)
      BY <3>9
    <3>11. Delivered!Next
      BY <3>10, Zenon DEF Delivered!Next
    <3> QED BY <3>11
  <2>4. Pruned(now[d])[what[d]] \in Nat
    BY <2>1, PrunedTable
  <2> QED BY <1>11, <2>2, <2>3, <2>4 DEF Accept, Answer, NoAnswer
<1>12. ASSUME NEW d \in Delivery, Leave(d) PROVE [Delivered!Next]_(Delivered!vars)
  BY <1>12 DEF Leave, NoAnswer, Delivered!Next, Delivered!vars, Delivered!Forget, DInv, SlackTypeOK
<1>13. ASSUME NEW d \in Delivery, Unslot(d) PROVE [Delivered!Next]_(Delivered!vars)
  BY <1>13 DEF Unslot, Answer, NoAnswer, Delivered!Next, Delivered!vars, Delivered!Forget, DInv, SlackTypeOK
<1>14. ASSUME NEW d \in Delivery, InTurn(d) PROVE [Delivered!Next]_(Delivered!vars)
  <2>1. PICK p \in Dispatching \cup {"leave"} :
           /\ pc' = [pc EXCEPT ![d] = p] /\ pc[d] \in Dispatching
           /\ UNCHANGED <<what, verdict, now, seen, slots, active, clock, link, limit, ready, admitted>>
    BY <1>14, TurnGoes DEF Goto, NoAnswer
  <2> DEFINE W == {what[g] : g \in {f \in Delivery : pc[f] \in Dispatching}}
             V == {what'[g] : g \in {f \in Delivery : pc'[f] \in Dispatching}}
             R == {e \in Event : seen[e] > clock}
             Q == {e \in Event : seen'[e] > clock'}
  <2>2. Q = R /\ what[d] \in W /\ what' = what
    BY <2>1
  <2>3. CASE p # "leave"
    <3>1. V = W
      BY <2>1, <2>3 DEF DInv, SlackTypeOK
    <3> QED BY <2>2, <3>1 DEF Delivered!Next, Delivered!vars, Delivered!Forget
  <2>4. CASE p = "leave"
    <3>1. \A f \in Delivery : f # d => pc'[f] = pc[f]
      BY <2>1 DEF DInv, SlackTypeOK
    <3>2. pc'[d] = "leave"
      BY <2>1, <2>4 DEF DInv, SlackTypeOK
    <3>3. \A f \in Delivery : f # d /\ pc[f] \in Dispatching => what[f] # what[d]
      BY <2>1 DEF DInv, Senders, HoldsSender, HoldsSlot
    <3>4. V = W \ {what[d]}
      BY <2>1, <3>1, <3>2, <3>3
    <3>5. PICK mine \in Event : mine = what[d]
      BY <2>1 DEF DInv, SlackTypeOK
    <3>6. Delivered!Finish(mine)
      BY <2>2, <3>4, <3>5 DEF Delivered!Finish
    <3>7. \E e \in Event : Delivered!Finish(e)
      BY <3>6
    <3>8. Delivered!Next
      BY <3>7, Zenon DEF Delivered!Next
    <3> QED BY <3>8
  <2> QED BY <2>3, <2>4
<1>15. CASE UNCHANGED slackVars
  BY <1>15 DEF slackVars, Delivered!Next, Delivered!vars, Delivered!Forget, DInv, SlackTypeOK
<1> QED BY <1>1, <1>2, <1>3, <1>4, <1>5, <1>6, <1>7, <1>8, <1>9, <1>10, <1>11, <1>12, <1>13, <1>14,
           <1>15 DEF SlackNext, Handle, InTurn

-----------------------------------------------------------------------------
\* What AcceptEnvelope, dispatch, the deduper and the limiter keep between any two of their
\* steps.
LEMMA DInvStep == ASSUME DInv, [SlackNext]_slackVars PROVE DInv'
  BY TypeKept, SlotsKept, SendersKept, TurnedKept, RememberedKept, KnownKept DEF DInv

LEMMA DInvInductive == SlackSpec => []DInv
  BY InitDInv, DInvStep, PTL DEF SlackSpec

\* Every step of AcceptEnvelope, dispatch and the limiter keeps the adapter's state well
\* typed; release() never takes a token from an empty channel.
THEOREM SlackTypeCorrect == SlackSpec => []SlackTypeOK
<1>1. DInv => SlackTypeOK
  BY DEF DInv
<1> QED BY DInvInductive, <1>1, PTL

\* dispatchLimiter.begin and release() never let a sender dispatch twice at once or more
\* than MaxConcurrentDispatches run, and eventDeduper dispatches an event once a window.
THEOREM LimitsAreKept == SlackSpec => []LimitsHold
<1>1. DInv => LimitsHold
  BY DEF DInv, Slots, Senders, Remembered, LimitsHold, DispatchesAreLimited
<1> QED BY DInvInductive, <1>1, PTL

\* AcceptEnvelope answers 200 or acks only what a dispatch was started for.
THEOREM AcksAreBacked == SlackSpec => []AcknowledgedIsAdmitted
<1>1. DInv => AcknowledgedIsAdmitted
  BY DEF DInv, Known
<1> QED BY DInvInductive, <1>1, PTL

LEMMA InitMaps == SlackInit => Delivered!Init
<1> SUFFICES ASSUME SlackInit PROVE Delivered!Init
  OBVIOUS
<1>1. {e \in Event : seen[e] > clock} = {}
  BY DEF SlackInit
<1>2. {what[d] : d \in {f \in Delivery : pc[f] \in Dispatching}} = {}
  BY DEF SlackInit, Dispatching
<1> QED BY <1>1, <1>2 DEF Delivered!Init

\* AcceptEnvelope with its deduper and limiter implements EventDelivery: an event is handed
\* to the agent only when it is not remembered and its sender has no other one there.
THEOREM ImplementsDelivery == SlackSpec => DeliveredOnce
<1> QED BY DInvInductive, InitMaps, StepsMap, PTL DEF SlackSpec, DeliveredOnce, Delivered!Spec

-----------------------------------------------------------------------------
(* The supervisor.  A child lives from its launch until it was seen to end.  *)

Turns ==
    /\ step \notin {"probe"} => turn \in AutoStart
    /\ \A s \in Service :
          /\ s > turn \/ (s = turn /\ step \in {"probe", "launch", "gone", "failed"}) => child[s] \notin Alive
          /\ s = turn /\ step \in {"announce", "wait", "reap"} /\ child[s] \in Alive => s \in table

OInv == SupervisorTypeOK /\ Turns /\ ChildrenAreOwned

LEMMA Indices == Service \subseteq Nat /\ Cardinality(Service) \in Nat /\ AutoStart \subseteq Service
  BY SupervisorAssumption, FS_CardinalityType

LEMMA InitOInv == SupervisorInit => OInv
<1> SUFFICES ASSUME SupervisorInit PROVE OInv
  OBVIOUS
<1> USE SupervisorAssumption, Indices DEF SupervisorInit
<1>1. SupervisorTypeOK
  BY DEF SupervisorTypeOK, Steps
<1>2. Turns /\ ChildrenAreOwned
  BY DEF Turns, ChildrenAreOwned, Alive
<1> QED BY <1>1, <1>2 DEF OInv

LEMMA ServicesTyped == ASSUME OInv, [SupervisorNext]_supervisorVars PROVE SupervisorTypeOK'
<1> USE SupervisorAssumption, Indices DEF Alive, Steps
<1>1. ASSUME NEW s \in Service, Probe(s) PROVE SupervisorTypeOK'
  BY <1>1, SMTT(30) DEF Probe, At, Settle, Healthy, Signaled, Silenced, OInv, SupervisorTypeOK, Turns
<1>2. ASSUME NEW s \in Service, Launch(s) PROVE SupervisorTypeOK'
  <2>1. turn = s /\ step = "launch" /\ turn \in Nat
    BY <1>2 DEF Launch, At
  <2>2. CASE /\ child' = [child EXCEPT ![s] = "running"] /\ step' = "enter"
             /\ UNCHANGED <<status, turn>>
    BY <1>2, <2>2 DEF Launch, OInv, SupervisorTypeOK
  <2>3. CASE Settle(s, "disconnected") /\ UNCHANGED child
    <3>1. /\ status' = [status EXCEPT ![s] = "disconnected"] /\ turn' = s + 1 /\ step' = "probe"
      BY <2>1, <2>3 DEF Settle
    <3>2. turn' \in 1..(Cardinality(Service) + 1)
      BY <2>1, <3>1
    <3>3. \A r \in Service : (r < turn') = (status'[r] \notin {"checking", "starting"})
      BY <2>1, <3>1 DEF OInv, SupervisorTypeOK
    <3> QED BY <1>2, <2>3, <3>1, <3>2, <3>3 DEF Launch, OInv, SupervisorTypeOK
  <2> QED BY <1>2, <2>2, <2>3 DEF Launch
<1>3. ASSUME NEW s \in Service, Enter(s) PROVE SupervisorTypeOK'
  BY <1>3 DEF Enter, At, Settle, Healthy, Signaled, Silenced, OInv, SupervisorTypeOK, Turns
<1>4. ASSUME NEW s \in Service, Announce(s) PROVE SupervisorTypeOK'
  BY <1>4 DEF Announce, At, Settle, Healthy, Signaled, Silenced, OInv, SupervisorTypeOK, Turns
<1>5. ASSUME NEW s \in Service, WaitHealthy(s) PROVE SupervisorTypeOK'
  BY <1>5 DEF WaitHealthy, At, Settle, Healthy, Signaled, Silenced, OInv, SupervisorTypeOK, Turns
<1>6. ASSUME NEW s \in Service, WaitExited(s) PROVE SupervisorTypeOK'
  BY <1>6 DEF WaitExited, At, Settle, Healthy, Signaled, Silenced, OInv, SupervisorTypeOK, Turns
<1>7. ASSUME NEW s \in Service, ReportGone(s) PROVE SupervisorTypeOK'
  BY <1>7 DEF ReportGone, At, Settle, Healthy, Signaled, Silenced, OInv, SupervisorTypeOK, Turns
<1>8. ASSUME NEW s \in Service, WaitDeadline(s) PROVE SupervisorTypeOK'
  BY <1>8 DEF WaitDeadline, At, Settle, Healthy, Signaled, Silenced, OInv, SupervisorTypeOK, Turns
<1>9. ASSUME NEW s \in Service, ReapKill(s) PROVE SupervisorTypeOK'
  BY <1>9 DEF ReapKill, At, Settle, Healthy, Signaled, Silenced, OInv, SupervisorTypeOK, Turns
<1>10. ASSUME NEW s \in Service, Reap(s) PROVE SupervisorTypeOK'
  BY <1>10 DEF Reap, At, Settle, Healthy, Signaled, Silenced, OInv, SupervisorTypeOK, Turns
<1>11. ASSUME NEW s \in Service, ReportFailed(s) PROVE SupervisorTypeOK'
  BY <1>11 DEF ReportFailed, At, Settle, Healthy, Signaled, Silenced, OInv, SupervisorTypeOK, Turns
<1>12. ASSUME NEW s \in Service, ContextKill(s) PROVE SupervisorTypeOK'
  BY <1>12 DEF ContextKill, At, Settle, Healthy, Signaled, Silenced, OInv, SupervisorTypeOK, Turns
<1>13. ASSUME NEW s \in Service, ChildExit(s) PROVE SupervisorTypeOK'
  BY <1>13 DEF ChildExit, At, Settle, Healthy, Signaled, Silenced, OInv, SupervisorTypeOK, Turns
<1>14. ASSUME NEW s \in Service, ChildListens(s) PROVE SupervisorTypeOK'
  BY <1>14 DEF ChildListens, At, Settle, Healthy, Signaled, Silenced, OInv, SupervisorTypeOK, Turns
<1>15. ASSUME NEW s \in Service, OtherListens(s) PROVE SupervisorTypeOK'
  BY <1>15 DEF OtherListens, At, Settle, Healthy, Signaled, Silenced, OInv, SupervisorTypeOK, Turns
<1>16. CASE Signal
  BY <1>16 DEF Signal, OInv, SupervisorTypeOK, Turns
<1>17. CASE Shutdown
  BY <1>17 DEF Shutdown, OInv, SupervisorTypeOK, Turns
<1>18. CASE CloseCopy
  BY <1>18 DEF CloseCopy, OInv, SupervisorTypeOK, Turns
<1>19. CASE CloseInterrupt
  BY <1>19 DEF CloseInterrupt, Signaled, OInv, SupervisorTypeOK, Turns
<1>20. CASE CloseReturn
  BY <1>20 DEF CloseReturn, Silenced, OInv, SupervisorTypeOK, Turns
<1>21. CASE Exit
  BY <1>21 DEF Exit, OInv, SupervisorTypeOK, Turns
<1>22. CASE UNCHANGED supervisorVars
  BY <1>22 DEF supervisorVars, OInv, SupervisorTypeOK, Turns
<1> QED BY <1>1, <1>2, <1>3, <1>4, <1>5, <1>6, <1>7, <1>8, <1>9, <1>10, <1>11, <1>12, <1>13, <1>14,
           <1>15, <1>16, <1>17, <1>18, <1>19, <1>20, <1>21, <1>22 DEF SupervisorNext, Ensure, Close

LEMMA TurnsKept == ASSUME OInv, [SupervisorNext]_supervisorVars PROVE Turns'
<1> USE SupervisorAssumption, Indices DEF Alive, Steps
<1>1. ASSUME NEW s \in Service, Probe(s) PROVE Turns'
  BY <1>1 DEF Probe, At, Settle, Healthy, Signaled, Silenced, OInv, SupervisorTypeOK, Turns, ChildrenAreOwned
<1>2. ASSUME NEW s \in Service, Launch(s) PROVE Turns'
  BY <1>2 DEF Launch, At, Settle, Healthy, Signaled, Silenced, OInv, SupervisorTypeOK, Turns, ChildrenAreOwned
<1>3. ASSUME NEW s \in Service, Enter(s) PROVE Turns'
  BY <1>3 DEF Enter, At, Settle, Healthy, Signaled, Silenced, OInv, SupervisorTypeOK, Turns, ChildrenAreOwned
<1>4. ASSUME NEW s \in Service, Announce(s) PROVE Turns'
  BY <1>4 DEF Announce, At, Settle, Healthy, Signaled, Silenced, OInv, SupervisorTypeOK, Turns,
     ChildrenAreOwned
<1>5. ASSUME NEW s \in Service, WaitHealthy(s) PROVE Turns'
  BY <1>5 DEF WaitHealthy, At, Settle, Healthy, Signaled, Silenced, OInv, SupervisorTypeOK, Turns,
     ChildrenAreOwned
<1>6. ASSUME NEW s \in Service, WaitExited(s) PROVE Turns'
  BY <1>6 DEF WaitExited, At, Settle, Healthy, Signaled, Silenced, OInv, SupervisorTypeOK, Turns,
     ChildrenAreOwned
<1>7. ASSUME NEW s \in Service, ReportGone(s) PROVE Turns'
  BY <1>7 DEF ReportGone, At, Settle, Healthy, Signaled, Silenced, OInv, SupervisorTypeOK, Turns,
     ChildrenAreOwned
<1>8. ASSUME NEW s \in Service, WaitDeadline(s) PROVE Turns'
  BY <1>8 DEF WaitDeadline, At, Settle, Healthy, Signaled, Silenced, OInv, SupervisorTypeOK, Turns,
     ChildrenAreOwned
<1>9. ASSUME NEW s \in Service, ReapKill(s) PROVE Turns'
  BY <1>9 DEF ReapKill, At, Settle, Healthy, Signaled, Silenced, OInv, SupervisorTypeOK, Turns,
     ChildrenAreOwned
<1>10. ASSUME NEW s \in Service, Reap(s) PROVE Turns'
  BY <1>10 DEF Reap, At, Settle, Healthy, Signaled, Silenced, OInv, SupervisorTypeOK, Turns, ChildrenAreOwned
<1>11. ASSUME NEW s \in Service, ReportFailed(s) PROVE Turns'
  BY <1>11 DEF ReportFailed, At, Settle, Healthy, Signaled, Silenced, OInv, SupervisorTypeOK, Turns,
     ChildrenAreOwned
<1>12. ASSUME NEW s \in Service, ContextKill(s) PROVE Turns'
  BY <1>12 DEF ContextKill, At, Settle, Healthy, Signaled, Silenced, OInv, SupervisorTypeOK, Turns,
     ChildrenAreOwned
<1>13. ASSUME NEW s \in Service, ChildExit(s) PROVE Turns'
  BY <1>13 DEF ChildExit, At, Settle, Healthy, Signaled, Silenced, OInv, SupervisorTypeOK, Turns,
     ChildrenAreOwned
<1>14. ASSUME NEW s \in Service, ChildListens(s) PROVE Turns'
  BY <1>14 DEF ChildListens, At, Settle, Healthy, Signaled, Silenced, OInv, SupervisorTypeOK, Turns,
     ChildrenAreOwned
<1>15. ASSUME NEW s \in Service, OtherListens(s) PROVE Turns'
  BY <1>15 DEF OtherListens, At, Settle, Healthy, Signaled, Silenced, OInv, SupervisorTypeOK, Turns,
     ChildrenAreOwned
<1>16. CASE Signal
  BY <1>16 DEF Signal, OInv, SupervisorTypeOK, Turns, ChildrenAreOwned
<1>17. CASE Shutdown
  BY <1>17 DEF Shutdown, OInv, SupervisorTypeOK, Turns, ChildrenAreOwned
<1>18. CASE CloseCopy
  BY <1>18 DEF CloseCopy, OInv, SupervisorTypeOK, Turns, ChildrenAreOwned
<1>19. CASE CloseInterrupt
  BY <1>19 DEF CloseInterrupt, Signaled, OInv, SupervisorTypeOK, Turns, ChildrenAreOwned
<1>20. CASE CloseReturn
  BY <1>20 DEF CloseReturn, Silenced, OInv, SupervisorTypeOK, Turns, ChildrenAreOwned
<1>21. CASE Exit
  BY <1>21 DEF Exit, OInv, SupervisorTypeOK, Turns, ChildrenAreOwned
<1>22. CASE UNCHANGED supervisorVars
  BY <1>22 DEF supervisorVars, OInv, SupervisorTypeOK, Turns, ChildrenAreOwned
<1> QED BY <1>1, <1>2, <1>3, <1>4, <1>5, <1>6, <1>7, <1>8, <1>9, <1>10, <1>11, <1>12, <1>13, <1>14,
           <1>15, <1>16, <1>17, <1>18, <1>19, <1>20, <1>21, <1>22 DEF SupervisorNext, Ensure, Close

LEMMA OwnersKept == ASSUME OInv, [SupervisorNext]_supervisorVars PROVE ChildrenAreOwned'
<1> USE SupervisorAssumption, Indices DEF Alive
<1>1. ASSUME NEW s \in Service, Probe(s) PROVE ChildrenAreOwned'
  BY <1>1 DEF Probe, At, Settle, Healthy, Signaled, Silenced, OInv, SupervisorTypeOK, Turns, ChildrenAreOwned
<1>2. ASSUME NEW s \in Service, Launch(s) PROVE ChildrenAreOwned'
  BY <1>2 DEF Launch, At, Settle, Healthy, Signaled, Silenced, OInv, SupervisorTypeOK, Turns, ChildrenAreOwned
<1>3. ASSUME NEW s \in Service, Enter(s) PROVE ChildrenAreOwned'
  BY <1>3 DEF Enter, At, Settle, Healthy, Signaled, Silenced, OInv, SupervisorTypeOK, Turns, ChildrenAreOwned
<1>4. ASSUME NEW s \in Service, Announce(s) PROVE ChildrenAreOwned'
  BY <1>4 DEF Announce, At, Settle, Healthy, Signaled, Silenced, OInv, SupervisorTypeOK, Turns,
     ChildrenAreOwned
<1>5. ASSUME NEW s \in Service, WaitHealthy(s) PROVE ChildrenAreOwned'
  BY <1>5 DEF WaitHealthy, At, Settle, Healthy, Signaled, Silenced, OInv, SupervisorTypeOK, Turns,
     ChildrenAreOwned
<1>6. ASSUME NEW s \in Service, WaitExited(s) PROVE ChildrenAreOwned'
  BY <1>6 DEF WaitExited, At, Settle, Healthy, Signaled, Silenced, OInv, SupervisorTypeOK, Turns,
     ChildrenAreOwned
<1>7. ASSUME NEW s \in Service, ReportGone(s) PROVE ChildrenAreOwned'
  BY <1>7 DEF ReportGone, At, Settle, Healthy, Signaled, Silenced, OInv, SupervisorTypeOK, Turns,
     ChildrenAreOwned
<1>8. ASSUME NEW s \in Service, WaitDeadline(s) PROVE ChildrenAreOwned'
  BY <1>8 DEF WaitDeadline, At, Settle, Healthy, Signaled, Silenced, OInv, SupervisorTypeOK, Turns,
     ChildrenAreOwned
<1>9. ASSUME NEW s \in Service, ReapKill(s) PROVE ChildrenAreOwned'
  BY <1>9 DEF ReapKill, At, Settle, Healthy, Signaled, Silenced, OInv, SupervisorTypeOK, Turns,
     ChildrenAreOwned
<1>10. ASSUME NEW s \in Service, Reap(s) PROVE ChildrenAreOwned'
  BY <1>10 DEF Reap, At, Settle, Healthy, Signaled, Silenced, OInv, SupervisorTypeOK, Turns, ChildrenAreOwned
<1>11. ASSUME NEW s \in Service, ReportFailed(s) PROVE ChildrenAreOwned'
  BY <1>11 DEF ReportFailed, At, Settle, Healthy, Signaled, Silenced, OInv, SupervisorTypeOK, Turns,
     ChildrenAreOwned
<1>12. ASSUME NEW s \in Service, ContextKill(s) PROVE ChildrenAreOwned'
  BY <1>12 DEF ContextKill, At, Settle, Healthy, Signaled, Silenced, OInv, SupervisorTypeOK, Turns,
     ChildrenAreOwned
<1>13. ASSUME NEW s \in Service, ChildExit(s) PROVE ChildrenAreOwned'
  BY <1>13 DEF ChildExit, At, Settle, Healthy, Signaled, Silenced, OInv, SupervisorTypeOK, Turns,
     ChildrenAreOwned
<1>14. ASSUME NEW s \in Service, ChildListens(s) PROVE ChildrenAreOwned'
  BY <1>14 DEF ChildListens, At, Settle, Healthy, Signaled, Silenced, OInv, SupervisorTypeOK, Turns,
     ChildrenAreOwned
<1>15. ASSUME NEW s \in Service, OtherListens(s) PROVE ChildrenAreOwned'
  BY <1>15 DEF OtherListens, At, Settle, Healthy, Signaled, Silenced, OInv, SupervisorTypeOK, Turns,
     ChildrenAreOwned
<1>16. CASE Signal
  BY <1>16 DEF Signal, OInv, SupervisorTypeOK, Turns, ChildrenAreOwned
<1>17. CASE Shutdown
  BY <1>17 DEF Shutdown, OInv, SupervisorTypeOK, Turns, ChildrenAreOwned
<1>18. CASE CloseCopy
  BY <1>18 DEF CloseCopy, OInv, SupervisorTypeOK, Turns, ChildrenAreOwned
<1>19. CASE CloseInterrupt
  BY <1>19 DEF CloseInterrupt, Signaled, OInv, SupervisorTypeOK, Turns, ChildrenAreOwned
<1>20. CASE CloseReturn
  BY <1>20 DEF CloseReturn, Silenced, OInv, SupervisorTypeOK, Turns, ChildrenAreOwned
<1>21. CASE Exit
  BY <1>21 DEF Exit, OInv, SupervisorTypeOK, Turns, ChildrenAreOwned
<1>22. CASE UNCHANGED supervisorVars
  BY <1>22 DEF supervisorVars, OInv, SupervisorTypeOK, Turns, ChildrenAreOwned
<1> QED BY <1>1, <1>2, <1>3, <1>4, <1>5, <1>6, <1>7, <1>8, <1>9, <1>10, <1>11, <1>12, <1>13, <1>14,
           <1>15, <1>16, <1>17, <1>18, <1>19, <1>20, <1>21, <1>22 DEF SupervisorNext, Ensure, Close

\* What Ensure, waitForHealth, Close and the children keep between any two of their steps.
LEMMA OInvStep == ASSUME OInv, [SupervisorNext]_supervisorVars PROVE OInv'
  BY ServicesTyped, TurnsKept, OwnersKept DEF OInv

LEMMA OInvInductive == SupervisorSpec => []OInv
  BY InitOInv, OInvStep, PTL DEF SupervisorSpec

\* Ensure, Close and the deaths of children leave tables and states well typed, and a
\* service gets its final state when ensureServices is done with it.
THEOREM SupervisorTypeCorrect == SupervisorSpec => []SupervisorTypeOK
<1>1. OInv => SupervisorTypeOK
  BY DEF OInv
<1> QED BY OInvInductive, <1>1, PTL

\* cmd.Start, forgetProcess and terminateFailedStartup lose no living child, for any number
\* of dependencies: each is in the table Close goes over, but for the moment before its entry.
THEOREM NoChildIsLost == SupervisorSpec => []ChildrenAreOwned
<1>1. OInv => ChildrenAreOwned
  BY DEF OInv
<1> QED BY OInvInductive, <1>1, PTL

-----------------------------------------------------------------------------
(* Both parts together.                                                     *)

LEMMA GatewayStarts == GatewayInit => DInv /\ OInv
  BY InitDInv, InitOInv DEF GatewayInit

LEMMA GatewaySteps ==
  ASSUME [GatewayNext]_gatewayVars
  PROVE  [SlackNext]_slackVars /\ [SupervisorNext]_supervisorVars
  BY DEF GatewayNext, Slack, Services, gatewayVars

\* Each step of the gateway is one of a part, and leaves the state of both well typed.
THEOREM GatewayTypeCorrect == GatewaySpec => []GatewayTypeOK
<1>1. ASSUME DInv, [SlackNext]_slackVars PROVE DInv'
  BY <1>1, DInvStep
<1>2. ASSUME OInv, [SupervisorNext]_supervisorVars PROVE OInv'
  BY <1>2, OInvStep
<1> DEFINE Both == DInv /\ OInv
<1>3. ASSUME Both, [GatewayNext]_gatewayVars PROVE Both'
  BY <1>1, <1>2, <1>3, GatewaySteps
<1>4. Both => GatewayTypeOK
  BY DEF DInv, OInv, GatewayTypeOK
<1> QED BY <1>3, <1>4, GatewayStarts, PTL DEF GatewaySpec
=============================================================================
