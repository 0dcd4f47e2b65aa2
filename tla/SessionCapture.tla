--------------------------- MODULE SessionCapture ---------------------------
(***************************************************************************)
(* How chats become memories (harness adkmemory): every turn of a chat     *)
(* searches memory domains and adds events to its session, and when it is  *)
(* over a plugin saves the session's events from a cursor on, leaving out  *)
(* answers that may not flow to the domain that is written.  Cursor and    *)
(* sources are kept in memory.  The agent runtime, which stores sessions   *)
(* and gives each turn its own copy, and the memory service, which knows   *)
(* an event it has by its idempotency key, are external.                   *)
(***************************************************************************)
EXTENDS FiniteSets, Naturals, Sequences

CONSTANTS
    Turn,
    Session,
    SessionOf,    \* turn |-> session; all sessions are of one app and user
    Domain,       \* Service.domains
    WriteDomain,  \* defaultWriteDomain, one of writeDomains
    Confirming,   \* turns that end with a call for a confirmation, not an answer
    Flows,        \* domains with an allowed flow to WriteDomain
    Unjudged,     \* no turn
    MaxTurns,    \* bound: turns under way
    MaxFailures,  \* bound: captures that fail
    MaxReboots   \* bound: ends of the process

\* What a turn adds: the text of the user, a call of a tool, the text of the answer.
Kind == {"user", "call", "answer"}
Event == [turn : Turn, kind : Kind]

ASSUME SessionAssumption ==
    /\ SessionOf \in [Turn -> Session]
    /\ Confirming \subseteq Turn
    /\ WriteDomain \in Domain /\ Flows \subseteq Domain /\ IsFiniteSet(Domain)
    /\ Unjudged \notin Turn
    /\ MaxTurns \in Nat /\ MaxFailures \in Nat /\ MaxReboots \in Nat

VARIABLES
    stored,    \* session |-> its events in the session store
    view,      \* turn |-> the events of its copy of the session
    phase,     \* turn |-> "idle", "run", "answered", "capture", "over"
    at,        \* turn |-> events its capture has dealt with
    cursor,    \* sessionEventCursor: session |-> events captured
    marked,    \* turnSourceDomains of the user
    saved,     \* events the memory service has stored
    failures, reboots,
    reads,     \* history: turn |-> domains that gave it memories
    judge,     \* history: event |-> the turn whose capture decided on it
    crossed,   \* history: sessions whose turns have overlapped
    unmarked   \* history: turns under way when another one cleared the sources

sessionVars == <<stored, view, phase, at, cursor, marked, saved, failures, reboots,
                 reads, judge, crossed, unmarked>>

SessionInit ==
    /\ stored = [s \in Session |-> <<>>] /\ view = [t \in Turn |-> <<>>]
    /\ phase = [t \in Turn |-> "idle"] /\ at = [t \in Turn |-> 0]
    /\ cursor = [s \in Session |-> 0] /\ marked = {} /\ saved = {}
    /\ failures = 0 /\ reboots = 0
    /\ reads = [t \in Turn |-> {}] /\ judge = [e \in Event |-> Unjudged]
    /\ crossed = {} /\ unmarked = {}

Enters(t, p) == phase' = [phase EXCEPT ![t] = p]
Over(t) == Enters(t, "over") /\ view' = [view EXCEPT ![t] = <<>>] /\ at' = [at EXCEPT ![t] = 0]
OpenTurns == {t \in Turn : phase[t] \in {"run", "answered", "capture"}}
Adding(s) == {t \in Turn : phase[t] = "run" /\ SessionOf[t] = s}

Add(t, kind) ==
    LET e == [turn |-> t, kind |-> kind] IN
    /\ view' = [view EXCEPT ![t] = Append(@, e)]
    /\ stored' = [stored EXCEPT ![SessionOf[t]] = Append(@, e)]

-----------------------------------------------------------------------------
(* A turn.                                                                  *)

\* The runtime reads the session, and adds the text of the user.
Begin(t) ==
    /\ phase[t] = "idle" /\ Cardinality(OpenTurns) < MaxTurns
    /\ LET s == SessionOf[t] e == [turn |-> t, kind |-> "user"] IN
       /\ view' = [view EXCEPT ![t] = Append(stored[s], e)]
       /\ stored' = [stored EXCEPT ![s] = Append(@, e)]
       /\ crossed' = IF Adding(s) = {} THEN crossed ELSE crossed \cup {s}
    /\ Enters(t, "run")
    /\ UNCHANGED <<at, cursor, marked, saved, failures, reboots, reads, judge, unmarked>>

\* SearchMemory: one domain after the other; one that gives memories is marked as a
\* source.  A domain that fails or has none is passed over.
SearchMemory(t) ==
    /\ phase[t] = "run"
    /\ \E d \in Domain :
          /\ reads' = [reads EXCEPT ![t] = @ \cup {d}]
          /\ marked' = marked \cup {d}
    /\ UNCHANGED <<stored, view, phase, at, cursor, saved, failures, reboots, judge, crossed, unmarked>>

Answer(t) ==
    /\ phase[t] = "run"
    /\ Add(t, IF t \in Confirming THEN "call" ELSE "answer")
    /\ Enters(t, "answered")
    /\ UNCHANGED <<at, cursor, marked, saved, failures, reboots, reads, judge, crossed, unmarked>>

-----------------------------------------------------------------------------
(* captureSessionAfterRun and AddSessionToMemory.                           *)

\* nextCaptureStart: a session that is shorter than its cursor starts anew.
NextCaptureStart(t) ==
    /\ phase[t] = "answered"
    /\ LET s == SessionOf[t]
           start == IF cursor[s] > Len(view[t]) THEN 0 ELSE cursor[s] IN
       /\ cursor' = [cursor EXCEPT ![s] = start]
       /\ at' = [at EXCEPT ![t] = start]
    /\ Enters(t, "capture")
    /\ UNCHANGED <<stored, view, marked, saved, failures, reboots, reads, judge, crossed, unmarked>>

\* sourceDomainsForEvent: what informed an answer; unknown when several domains could have.
SourcesOf(e) ==
    IF e.kind = "user" THEN {{}}
    ELSE IF marked # {} THEN {marked}
    ELSE IF Cardinality(Domain) = 1 THEN {Domain} ELSE {}

\* Fault: one source that may flow there is enough.
CanWriteFromSources_Any(sources) ==
    sources = {} \/ \E d \in sources : d = WriteDomain \/ d \in Flows

CanWriteFromSources(sources) ==
    \A d \in sources : d = WriteDomain \/ d \in Flows

MayBeSaved(e) == \E sources \in SourcesOf(e) : CanWriteFromSources(sources)

NextEvent(t) == view[t][at[t] + 1]
Capturing(t) == phase[t] = "capture" /\ at[t] < Len(view[t])

\* markCapturedThrough.
MarkCaptured(t) ==
    /\ at' = [at EXCEPT ![t] = @ + 1]
    /\ cursor' = [cursor EXCEPT ![SessionOf[t]] = IF at[t] + 1 > @ THEN at[t] + 1 ELSE @]

\* An event without text, or one that may not flow, is passed over.
PassOver(t) ==
    /\ Capturing(t)
    /\ NextEvent(t).kind = "call" \/ ~MayBeSaved(NextEvent(t))
    /\ MarkCaptured(t)
    /\ judge' = [judge EXCEPT ![NextEvent(t)] = IF @ = Unjudged THEN t ELSE @]
    /\ UNCHANGED <<stored, view, phase, marked, saved, failures, reboots, reads, crossed, unmarked>>

\* save_memory_candidate; the memory service has an event once.
SaveEvent(t) ==
    /\ Capturing(t)
    /\ NextEvent(t).kind # "call" /\ MayBeSaved(NextEvent(t))
    /\ saved' = saved \cup {NextEvent(t)}
    /\ judge' = [judge EXCEPT ![NextEvent(t)] = IF NextEvent(t) \in saved THEN @ ELSE t]
    /\ MarkCaptured(t)
    /\ UNCHANGED <<stored, view, phase, marked, failures, reboots, reads, crossed, unmarked>>

\* Fault: the event that could not be saved counts as captured.
Fail_Marked(t) ==
    /\ Capturing(t) /\ failures < MaxFailures
    /\ NextEvent(t).kind # "call" /\ MayBeSaved(NextEvent(t))
    /\ failures' = failures + 1
    /\ cursor' = [cursor EXCEPT ![SessionOf[t]] = IF at[t] + 1 > @ THEN at[t] + 1 ELSE @]
    /\ Over(t)
    /\ UNCHANGED <<stored, marked, saved, judge, reboots, reads, crossed, unmarked>>

\* The call fails or ten seconds are over: the rest is left to the next turn, and so are
\* the sources.  The event may have been stored.
Fail(t) ==
    /\ Capturing(t) /\ failures < MaxFailures
    /\ NextEvent(t).kind # "call" /\ MayBeSaved(NextEvent(t))
    /\ failures' = failures + 1
    /\ \/ UNCHANGED <<saved, judge>>
       \/ /\ saved' = saved \cup {NextEvent(t)}
          /\ judge' = [judge EXCEPT ![NextEvent(t)] = IF NextEvent(t) \in saved THEN @ ELSE t]
    /\ Over(t)
    /\ UNCHANGED <<stored, cursor, marked, reboots, reads, crossed, unmarked>>

\* clearTurnSourceDomains.
Finish(t) ==
    /\ phase[t] = "capture" /\ at[t] = Len(view[t])
    /\ marked' = {}
    /\ unmarked' = unmarked \cup (OpenTurns \ {t})
    /\ Over(t)
    /\ UNCHANGED <<stored, cursor, saved, failures, reboots, reads, judge, crossed>>

-----------------------------------------------------------------------------
\* The process ends and is started again; a turn that was under way is lost.
Reboot ==
    /\ reboots < MaxReboots
    /\ reboots' = reboots + 1
    /\ phase' = [t \in Turn |-> IF phase[t] = "idle" THEN "idle" ELSE "over"]
    /\ view' = [t \in Turn |-> <<>>] /\ at' = [t \in Turn |-> 0]
    /\ cursor' = [s \in Session |-> 0] /\ marked' = {}
    /\ UNCHANGED <<stored, saved, failures, reads, judge, crossed, unmarked>>

SessionNext ==
    \/ \E t \in Turn :
          \/ Begin(t) \/ SearchMemory(t) \/ Answer(t)
          \/ NextCaptureStart(t) \/ PassOver(t) \/ SaveEvent(t) \/ Fail(t) \/ Finish(t)
    \/ Reboot

SessionSpec == SessionInit /\ [][SessionNext]_sessionVars

-----------------------------------------------------------------------------
(* Properties.                                                              *)

\* The state is well typed.
SessionTypeOK ==
    /\ stored \in [Session -> Seq(Event)] /\ view \in [Turn -> Seq(Event)]
    /\ phase \in [Turn -> {"idle", "run", "answered", "capture", "over"}]
    /\ at \in [Turn -> Nat] /\ cursor \in [Session -> Nat]
    /\ marked \subseteq Domain /\ saved \subseteq Event
    /\ failures \in 0..MaxFailures /\ reboots \in 0..MaxReboots
    /\ reads \in [Turn -> SUBSET Domain] /\ judge \in [Event -> Turn \cup {Unjudged}]
    /\ crossed \subseteq Session /\ unmarked \subseteq Turn

\* The cursor is the "first uncaptured event index for one runtime session"
\* (service.go:105): whatever captures fail, are cut short or run at the same time, no
\* event before it was left out, as long as the turns of a session follow one another.
NoEventSkipped ==
    \A s \in Session \ crossed : \A i \in 1..cursor[s] :
       i <= Len(stored[s]) /\ (judge[stored[s][i]] # Unjudged)

\* canWriteFromSources "enforces default-deny cross-domain memory writes" (service.go:224):
\* an answer its own turn saves was informed by domains alone that may flow to the one
\* written, unless another turn cleared the sources of the user meanwhile.
AnswersKeepToFlows ==
    \A t \in Turn \ unmarked :
       LET e == [turn |-> t, kind |-> "answer"] IN
       e \in saved /\ judge[e] = t => reads[t] \subseteq Flows \cup {WriteDomain}
=============================================================================
