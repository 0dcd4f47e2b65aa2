---------------------------- MODULE SlackAdapter ----------------------------
(***************************************************************************)
(* gateway/internal/slack: how a Slack event becomes one agent turn and    *)
(* one reply.  A delivery is one attempt of Slack to hand over an event,   *)
(* as an HTTP request (many at once) or over the Socket Mode connection    *)
(* (one at a time).  An admitted delivery goes on as the goroutine that    *)
(* talks to the agent through the gateway and posts the answer.            *)
(*                                                                         *)
(* The deduper and the limiter have a mutex each; an action is one such    *)
(* critical section, one channel operation, one reading of the clock or    *)
(* one HTTP exchange.  Slack and the agent behind the gateway are          *)
(* external: Slack delivers what it likes, and the agent may fail, ask for *)
(* a confirmation, or not be ready yet.                                    *)
(***************************************************************************)
EXTENDS Naturals, Sequences, FiniteSets

CONSTANTS
    Event,          \* events: type, subtype, bot, complete, team, channel, user, root
    Delivery,       \* delivery attempts
    Socket,         \* those made over the Socket Mode connection
    Bindings,       \* Config.ProfileBindings: team, channel, users, profile
    Allowed,        \* Config.Allowed{Team,User,Channel}ID, "" allows any
    Limits,         \* values of Config.MaxConcurrentDispatches, defaults filled in
    TTL,            \* EventDedupTTL
    MaxDenials,     \* maxSlackConfirmationDenials
    NoEvent,
    MaxClock        \* bound on the clock

ASSUME SlackAssumption ==
    /\ Socket \subseteq Delivery /\ IsFiniteSet(Delivery)
    /\ NoEvent \notin Event
    /\ Limits \subseteq Nat \ {0} /\ TTL \in Nat \ {0}
    /\ MaxDenials \in Nat /\ MaxClock \in Nat

VARIABLES
    pc,        \* delivery |-> its next step
    what,      \* delivery |-> the event it carries
    verdict,   \* delivery |-> what Slack was told
    now,       \* delivery |-> its last reading of the clock
    seen,      \* the deduper: event |-> when its window ends, 0 if absent
    slots,     \* the limiter: tokens in the channel
    active,    \*    and senders with a dispatch
    clock,
    link,      \* the Socket Mode connection
    limit,     \* Config.MaxConcurrentDispatches, fixed at the start
    ready,     \* the agent's dependencies are connected (external)
    sessions,  \* sessions the agent has (external)
    denials,   \* delivery |-> confirmations denied in its turn
    admitted   \* delivery |-> when the agent got it and with which reading

slackVars == <<pc, what, verdict, now, seen, slots, active, clock, link, limit, ready,
               sessions, denials, admitted>>

SenderOf(e) == <<e.channel, e.user>>
SessionOf(e) == <<e.team, e.channel, e.root>>

NotAdmitted == [at |-> 0, stamp |-> 0, done |-> FALSE]

SlackInit ==
    /\ pc = [d \in Delivery |-> "new"]
    /\ what = [d \in Delivery |-> NoEvent]
    /\ verdict = [d \in Delivery |-> "none"]
    /\ now = [d \in Delivery |-> 0]
    /\ seen = [e \in Event |-> 0]
    /\ slots = 0 /\ active = {} /\ clock = 0
    /\ link = "closed"
    /\ limit \in Limits /\ ready \in BOOLEAN /\ sessions = {}
    /\ denials = [d \in Delivery |-> 0]
    /\ admitted = [d \in Delivery |-> NotAdmitted]

-----------------------------------------------------------------------------
(* What is accepted.                                                        *)

Matches(b, e) == b.team = e.team /\ b.channel = e.channel /\ e.user \in b.users

\* The first binding that matches decides, also when it names no profile.
BoundToProfile(e) ==
    \E i \in DOMAIN Bindings :
       /\ Matches(Bindings[i], e) /\ Bindings[i].profile # ""
       /\ \A j \in 1..(i - 1) : ~Matches(Bindings[j], e)

AllowListed(e) ==
    /\ Allowed.team \in {"", e.team}
    /\ Allowed.user \in {"", e.user}
    /\ Allowed.channel \in {"", e.channel}

AcceptedMessage(e) ==
    /\ e.type \in {"message", "app_mention"}
    /\ ~e.subtype /\ ~e.bot /\ e.complete
    /\ IF Bindings # <<>> THEN BoundToProfile(e) ELSE AllowListed(e)

-----------------------------------------------------------------------------
(* The Socket Mode connection.                                              *)

\* Its loop is in AcceptEnvelope.
Reading == \E d \in Socket : pc[d] # "new" /\ verdict[d] = "none"

\* RunSocketMode, after its backoff.
SocketOpen ==
    /\ link = "closed" /\ ~Reading
    /\ link' = "open"
    /\ UNCHANGED <<pc, what, verdict, now, seen, slots, active, clock, limit, ready,
                   sessions, denials, admitted>>

\* A failed read, or a "disconnect" envelope.
SocketDrop ==
    /\ link = "open" /\ ~Reading
    /\ link' = "closed"
    /\ UNCHANGED <<pc, what, verdict, now, seen, slots, active, clock, limit, ready,
                   sessions, denials, admitted>>

\* Delivery d is answered: 200 or an ack; 429 or, on the socket, no ack and
\* the end of the connection.
Answer(d, v) ==
    /\ verdict' = [verdict EXCEPT ![d] = v]
    /\ link' = IF d \in Socket /\ v = "throttled" THEN "closed" ELSE link

NoAnswer == UNCHANGED <<verdict, link>>

-----------------------------------------------------------------------------
(* AcceptEnvelopeWithDelivery.                                              *)

Receive(d) ==
    /\ pc[d] = "new"
    /\ d \in Socket => link = "open" /\ ~Reading
    /\ \E e \in Event :
          /\ what' = [what EXCEPT ![d] = e]
          /\ IF AcceptedMessage(e)
             THEN /\ pc' = [pc EXCEPT ![d] = "look"]
                  /\ NoAnswer
             ELSE pc' = [pc EXCEPT ![d] = "done"] /\ Answer(d, "ok")
    /\ UNCHANGED <<now, seen, slots, active, clock, limit, ready, sessions, denials, admitted>>

\* The deduper reads the clock before it takes its mutex.
ReadNow(d) ==
    /\ pc[d] \in {"look", "stamp"}
    /\ now' = [now EXCEPT ![d] = clock]
    /\ pc' = [pc EXCEPT ![d] = IF @ = "look" THEN "contains" ELSE "accept"]
    /\ NoAnswer
    /\ UNCHANGED <<what, seen, slots, active, clock, limit, ready, sessions, denials, admitted>>

\* The table without what has expired at time t.
Pruned(t) == [e \in Event |-> IF seen[e] > t THEN seen[e] ELSE 0]

\* Fault: an event is remembered before the limiter let it in.
Contains_Remembers(d) ==
    /\ pc[d] = "contains"
    /\ now' = [now EXCEPT ![d] = 0]
    /\ LET table == Pruned(now[d]) IN
       IF table[what[d]] > 0
       THEN pc' = [pc EXCEPT ![d] = "done"] /\ Answer(d, "ok") /\ seen' = table
       ELSE /\ pc' = [pc EXCEPT ![d] = "slot"] /\ NoAnswer
            /\ seen' = [table EXCEPT ![what[d]] = now[d] + TTL]
    /\ UNCHANGED <<what, slots, active, clock, limit, ready, sessions, denials, admitted>>

Contains(d) ==
    /\ pc[d] = "contains"
    /\ now' = [now EXCEPT ![d] = 0]
    /\ seen' = Pruned(now[d])
    /\ IF seen'[what[d]] > 0
       THEN pc' = [pc EXCEPT ![d] = "done"] /\ Answer(d, "ok")
       ELSE pc' = [pc EXCEPT ![d] = "slot"] /\ NoAnswer
    /\ UNCHANGED <<what, slots, active, clock, limit, ready, sessions, denials, admitted>>

\* dispatchLimiter.begin: the slot, then the sender.
TakeSlot(d) ==
    /\ pc[d] = "slot"
    /\ IF slots < limit
       THEN slots' = slots + 1 /\ pc' = [pc EXCEPT ![d] = "scope"] /\ NoAnswer
       ELSE /\ pc' = [pc EXCEPT ![d] = "done"] /\ Answer(d, "throttled")
            /\ UNCHANGED slots
    /\ UNCHANGED <<what, now, seen, active, clock, limit, ready, sessions, denials, admitted>>

TakeScope(d) ==
    /\ pc[d] = "scope"
    /\ IF SenderOf(what[d]) \in active
       THEN pc' = [pc EXCEPT ![d] = "full"] /\ UNCHANGED active
       ELSE /\ pc' = [pc EXCEPT ![d] = "stamp"]
            /\ active' = active \cup {SenderOf(what[d])}
    /\ NoAnswer
    /\ UNCHANGED <<what, now, seen, slots, clock, limit, ready, sessions, denials, admitted>>

\* Fault: a rejected delivery is acknowledged.
GiveBack_Acked(d) ==
    /\ pc[d] = "full"
    /\ slots' = slots - 1
    /\ pc' = [pc EXCEPT ![d] = "done"] /\ Answer(d, "ok")
    /\ UNCHANGED <<what, now, seen, active, clock, limit, ready, sessions, denials, admitted>>

GiveBack(d) ==
    /\ pc[d] = "full"
    /\ slots' = slots - 1
    /\ pc' = [pc EXCEPT ![d] = "done"] /\ Answer(d, "throttled")
    /\ UNCHANGED <<what, now, seen, active, clock, limit, ready, sessions, denials, admitted>>

\* Fault: the table is not consulted again after admission by the limiter.
Accept_Unchecked(d) ==
    /\ pc[d] = "accept"
    /\ now' = [now EXCEPT ![d] = 0]
    /\ seen' = [Pruned(now[d]) EXCEPT ![what[d]] = now[d] + TTL]
    /\ admitted' = [admitted EXCEPT ![d] = [at |-> clock, stamp |-> now[d], done |-> TRUE]]
    /\ pc' = [pc EXCEPT ![d] = "ensure"] /\ Answer(d, "ok")
    /\ UNCHANGED <<what, slots, active, clock, limit, ready, sessions, denials>>

\* eventDeduper.accept, and the goroutine it leads to.  A duplicate is
\* answered once release() has returned.
Accept(d) ==
    /\ pc[d] = "accept"
    /\ now' = [now EXCEPT ![d] = 0]
    /\ IF Pruned(now[d])[what[d]] > 0
       THEN /\ seen' = Pruned(now[d])
            /\ pc' = [pc EXCEPT ![d] = "leave"] /\ NoAnswer
            /\ UNCHANGED admitted
       ELSE /\ seen' = [Pruned(now[d]) EXCEPT ![what[d]] = now[d] + TTL]
            /\ admitted' = [admitted EXCEPT ![d] =
                               [at |-> clock, stamp |-> now[d], done |-> TRUE]]
            /\ pc' = [pc EXCEPT ![d] = "ensure"] /\ Answer(d, "ok")
    /\ UNCHANGED <<what, slots, active, clock, limit, ready, sessions, denials>>

\* release(), run when the goroutine ends or for a duplicate.
Leave(d) ==
    /\ pc[d] = "leave"
    /\ active' = active \ {SenderOf(what[d])}
    /\ pc' = [pc EXCEPT ![d] = "unslot"]
    /\ NoAnswer
    /\ UNCHANGED <<what, now, seen, slots, clock, limit, ready, sessions, denials, admitted>>

Unslot(d) ==
    /\ pc[d] = "unslot"
    /\ slots' = slots - 1
    /\ pc' = [pc EXCEPT ![d] = "done"]
    /\ IF admitted[d].done THEN NoAnswer ELSE Answer(d, "ok")
    /\ UNCHANGED <<what, now, seen, active, clock, limit, ready, sessions, denials, admitted>>

-----------------------------------------------------------------------------
(* dispatch: EnsureSession, RunText, PostMessage.  While the gateway        *)
(* answers "dependency not ready" the requests below are repeated, which    *)
(* changes nothing and is left out; the turn's deadline is in Fail.         *)

\* Delivery d goes on with step s of its dispatch.
Goto(d, s) ==
    /\ pc' = [pc EXCEPT ![d] = s]
    /\ NoAnswer
    /\ UNCHANGED <<what, now, seen, slots, active, clock, limit, ready, admitted>>

Lookup(d) ==
    /\ pc[d] = "ensure" /\ ready
    /\ Goto(d, IF SessionOf(what[d]) \in sessions THEN "run" ELSE "create")
    /\ UNCHANGED <<sessions, denials>>

\* The agent refuses to create a session twice, and may refuse for reasons of its own.
Create(d) ==
    /\ pc[d] = "create"
    /\ \/ /\ SessionOf(what[d]) \notin sessions
          /\ Goto(d, "run") /\ sessions' = sessions \cup {SessionOf(what[d])}
       \/ Goto(d, "recheck") /\ UNCHANGED sessions
    /\ UNCHANGED denials

Recheck(d) ==
    /\ pc[d] = "recheck"
    /\ Goto(d, IF SessionOf(what[d]) \in sessions THEN "run" ELSE "apology")
    /\ UNCHANGED <<sessions, denials>>

\* A turn or the denial of a confirmation ends with text, or with a tool that
\* wants a confirmation, with or without a call id to deny it by.
TurnEnds(d) ==
    /\ \E next \in {"post", "deny", "apology"} : Goto(d, next)
    /\ UNCHANGED sessions

Run(d) ==
    /\ pc[d] = "run" /\ ready
    /\ TurnEnds(d)
    /\ UNCHANGED denials

Deny(d) ==
    /\ pc[d] = "deny"
    /\ \/ /\ denials[d] >= MaxDenials /\ Goto(d, "post")
          /\ UNCHANGED <<sessions, denials>>
       \/ /\ denials[d] < MaxDenials
          /\ denials' = [denials EXCEPT ![d] = @ + 1]
          /\ TurnEnds(d)

\* Fault: a turn that waits for the agent's dependencies has no deadline.
Fail_NoDeadline(d) ==
    /\ pc[d] \in {"ensure", "create", "recheck", "run", "deny"} /\ ready
    /\ Goto(d, "apology")
    /\ UNCHANGED <<sessions, denials>>

\* A transport error, an error status or event, or the deadline of the turn.
Fail(d) ==
    /\ pc[d] \in {"ensure", "create", "recheck", "run", "deny"}
    /\ Goto(d, "apology")
    /\ UNCHANGED <<sessions, denials>>

\* PostMessage of the reply or of the failure message; an error of it is only
\* logged.  The locals of the turn end here.
Post(d) ==
    /\ pc[d] \in {"post", "apology"}
    /\ denials' = [denials EXCEPT ![d] = 0]
    /\ Goto(d, "leave")
    /\ UNCHANGED sessions

-----------------------------------------------------------------------------
Tick ==
    /\ clock < MaxClock
    /\ clock' = clock + 1
    /\ UNCHANGED <<pc, what, verdict, now, seen, slots, active, link, limit, ready,
                   sessions, denials, admitted>>

\* The supervisor reports the agent's dependencies connected; it never takes
\* that back.
BecomeReady ==
    /\ ~ready
    /\ ready' = TRUE
    /\ UNCHANGED <<pc, what, verdict, now, seen, slots, active, clock, link, limit,
                   sessions, denials, admitted>>

\* A step of the goroutine of d.
Handle(d) ==
    \/ ReadNow(d) \/ Contains(d) \/ TakeSlot(d) \/ TakeScope(d) \/ GiveBack(d)
    \/ Accept(d) \/ Leave(d) \/ Unslot(d)
    \/ Lookup(d) \/ Create(d) \/ Recheck(d) \/ Run(d) \/ Deny(d) \/ Fail(d) \/ Post(d)

SlackNext ==
    \/ Tick \/ BecomeReady \/ SocketOpen \/ SocketDrop
    \/ \E d \in Delivery : Receive(d) \/ Handle(d)

\* Goroutines run on; a turn that waits for the agent ends at its deadline.
\* Nobody has to deliver, to become ready or to reconnect.
SlackFairness == \A d \in Delivery : WF_slackVars(Handle(d))

SlackSpec == SlackInit /\ [][SlackNext]_slackVars /\ SlackFairness
-----------------------------------------------------------------------------
(* Properties.                                                              *)

\* A delivery that holds a token of the limiter, its sender's entry, the agent.
HoldsSlot == {"scope", "full", "stamp", "accept", "ensure", "create", "recheck", "run",
              "deny", "apology", "post", "leave", "unslot"}
HoldsSender == HoldsSlot \ {"scope", "full", "unslot"}
Dispatching == {"ensure", "create", "recheck", "run", "deny", "apology", "post"}

Pc == {"new", "look", "contains", "slot", "done"} \cup HoldsSlot

\* The state is well typed; a delivery past the filter carries an event.
SlackTypeOK ==
    /\ pc \in [Delivery -> Pc]
    /\ what \in [Delivery -> Event \cup {NoEvent}]
    /\ \A d \in Delivery : pc[d] # "new" => what[d] \in Event
    /\ verdict \in [Delivery -> {"none", "ok", "throttled"}]
    /\ now \in [Delivery -> Nat] /\ seen \in [Event -> Nat]
    /\ slots \in Nat /\ limit \in Limits /\ active \subseteq {SenderOf(e) : e \in Event} /\ clock \in Nat
    /\ link \in {"open", "closed"}
    /\ ready \in BOOLEAN /\ sessions \subseteq {SessionOf(e) : e \in Event}
    /\ denials \in [Delivery -> 0..MaxDenials]
    /\ admitted \in [Delivery -> [at : Nat, stamp : Nat, done : BOOLEAN]]

\* dispatchLimiter "enforces beta-friendly Slack fan-out limits" (adapter.go:44): however
\* admissions, rejections and releases interleave, one channel and user have at most one
\* dispatch, and the tokens in the channel are those of the deliveries that hold one: none
\* is leaked, none is returned twice.
DispatchesAreLimited ==
    /\ \A d, f \in Delivery :
          /\ d # f /\ pc[d] \in HoldsSender /\ pc[f] \in HoldsSender
          => SenderOf(what[d]) # SenderOf(what[f])
    /\ slots = Cardinality({d \in Delivery : pc[d] \in HoldsSlot})
    /\ slots <= limit

\* Two deliveries of one event are both dispatched only a full window apart, counted
\* from the clock the first one read before it was remembered: the second lookup in
\* accept closes the gap between contains and the limiter, and a reading that is old
\* by the time the mutex is held never opens the window early.
WindowKept ==
    \A d, f \in Delivery :
       /\ d # f /\ what[d] = what[f] /\ admitted[d].done /\ admitted[f].done
       => \/ admitted[d].at >= admitted[f].stamp + TTL
          \/ admitted[f].at >= admitted[d].stamp + TTL

\* What limits hold of dispatches: the fan-out limiter and the deduplication window.
LimitsHold == DispatchesAreLimited /\ WindowKept

\* Slack is told that an event arrived only when some delivery of it is with the agent
\* or has been: an event that was turned away is never acknowledged, on the socket
\* neither ("validates dispatch admission before requiring an ack", socket.go:86).
AcknowledgedIsAdmitted ==
    \A d \in Delivery :
       verdict[d] = "ok" /\ AcceptedMessage(what[d])
       => \E f \in Delivery : what[f] = what[d] /\ admitted[f].done

\* A delivery that got a slot returns it, also while the agent is never ready.
SlotsReturn == \A d \in Delivery : pc[d] = "scope" ~> pc[d] = "done"

\* The adapter implements EventDelivery.
Delivered ==
    INSTANCE EventDelivery WITH
        Sender <- [e \in Event |-> SenderOf(e)],
        remembered <- {e \in Event : seen[e] > clock},
        working <- {what[d] : d \in {f \in Delivery : pc[f] \in Dispatching}}
DeliveredOnce == Delivered!Spec
=============================================================================
