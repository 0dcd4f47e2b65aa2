----------------------------- MODULE Supervisor -----------------------------
(***************************************************************************)
(* gateway/internal/supervisor and the goroutines of cmd/agent-gateway     *)
(* around it: ensureServices brings the dependencies up one after the      *)
(* other, the shutdown goroutine drains HTTP and closes the manager, main  *)
(* returns when its HTTP server does, and os/exec kills the children when  *)
(* the context is canceled.  Children and whoever else answers on a health *)
(* URL are external.                                                       *)
(***************************************************************************)
EXTENDS Naturals, FiniteSets

CONSTANTS
    Service,    \* dependencies, 1..n in the order of dependencyServices
    AutoStart   \* those the gateway may start

ASSUME SupervisorAssumption ==
    /\ IsFiniteSet(Service) /\ Service = 1..Cardinality(Service)
    /\ AutoStart \subseteq Service

VARIABLES
    status,     \* Manager.statuses: service |-> State
    table,      \* Manager.processes: services with a handle
    child,      \* service |-> the process started for it
    endpoint,   \* service |-> who answers on its health URL
    turn,       \* ensureServices: the service it is at
    step,       \*    and the step of its Ensure
    context,    \* the context of signal.NotifyContext
    stop,       \* step of the shutdown goroutine
    closing,    \* handles Close has copied
    gateway     \* whether the gateway process runs

supervisorVars == <<status, table, child, endpoint, turn, step, context, stop, closing, gateway>>

Alive == {"running", "interrupted"}

\* Expect has listed every dependency before ensureServices starts.
SupervisorInit ==
    /\ status = [s \in Service |-> "checking"]
    /\ table = {}
    /\ child = [s \in Service |-> "none"]
    /\ endpoint \in [Service -> {"down", "other"}]
    /\ turn = 1 /\ step = "probe"
    /\ context = "live" /\ stop = "waiting" /\ closing = {}
    /\ gateway = "up"

-----------------------------------------------------------------------------
(* Ensure, for the service whose turn it is.                                *)

At(s, x) == gateway = "up" /\ turn = s /\ step = x

\* remember; Ensure returns and the next service is checked.
Settle(s, state) ==
    /\ status' = [status EXCEPT ![s] = state]
    /\ turn' = turn + 1 /\ step' = "probe"

\* isHealthy: a request under a canceled context fails.
Healthy(s) == context = "live" /\ endpoint[s] # "down"

Probe(s) ==
    /\ At(s, "probe")
    /\ IF Healthy(s) THEN Settle(s, "connected")
       ELSE IF s \notin AutoStart THEN Settle(s, "disconnected")
       ELSE step' = "launch" /\ UNCHANGED <<status, turn>>
    /\ UNCHANGED <<table, child, endpoint, context, stop, closing, gateway>>

\* cmd.Start, which fails under a canceled context, or for reasons of its own.
Launch(s) ==
    /\ At(s, "launch")
    /\ \/ /\ context = "live"
          /\ child' = [child EXCEPT ![s] = "running"]
          /\ step' = "enter"
          /\ UNCHANGED <<status, turn>>
       \/ Settle(s, "disconnected") /\ UNCHANGED child
    /\ UNCHANGED <<table, endpoint, context, stop, closing, gateway>>

\* Fault: the handle is not entered.
Enter_Lost(s) ==
    /\ At(s, "enter")
    /\ step' = "announce"
    /\ UNCHANGED <<status, table, child, endpoint, turn, context, stop, closing, gateway>>

Enter(s) ==
    /\ At(s, "enter")
    /\ table' = table \cup {s}
    /\ step' = "announce"
    /\ UNCHANGED <<status, child, endpoint, turn, context, stop, closing, gateway>>

Announce(s) ==
    /\ At(s, "announce")
    /\ status' = [status EXCEPT ![s] = "starting"]
    /\ step' = "wait"
    /\ UNCHANGED <<table, child, endpoint, turn, context, stop, closing, gateway>>

\* waitForHealth: the ready cases of its select.
WaitHealthy(s) ==
    /\ At(s, "wait") /\ Healthy(s)
    /\ Settle(s, "connected")
    /\ UNCHANGED <<table, child, endpoint, context, stop, closing, gateway>>

WaitExited(s) ==
    /\ At(s, "wait") /\ child[s] = "exited"
    /\ table' = table \ {s}
    /\ step' = "gone"
    /\ UNCHANGED <<status, child, endpoint, turn, context, stop, closing, gateway>>

\* Fault: the next service is looked at without a word on this one.
ReportGone_Silent(s) ==
    /\ At(s, "gone")
    /\ turn' = turn + 1 /\ step' = "probe"
    /\ UNCHANGED <<status, table, child, endpoint, context, stop, closing, gateway>>

ReportGone(s) ==
    /\ At(s, "gone")
    /\ Settle(s, "disconnected")
    /\ UNCHANGED <<table, child, endpoint, context, stop, closing, gateway>>

\* A signal to the child's group.
Signaled(s) == IF child[s] = "running" THEN "interrupted" ELSE child[s]

\* The start timeout has passed or the context is canceled.
WaitDeadline(s) ==
    /\ At(s, "wait")
    /\ child' = [child EXCEPT ![s] = Signaled(s)]
    /\ step' = "reap"
    /\ UNCHANGED <<status, table, endpoint, turn, context, stop, closing, gateway>>

\* Fault: a child that ignores the interrupt is not killed.
ReapKill_Never(s) ==
    /\ At(s, "reap") /\ child[s] = "exited"
    /\ UNCHANGED supervisorVars

\* Whatever answers on the URL of s is no longer its child.
Silenced(s) == IF endpoint[s] = "child" THEN "down" ELSE endpoint[s]

\* terminateFailedStartup: startupTerminationTimeout has passed.
ReapKill(s) ==
    /\ At(s, "reap") /\ child[s] \in Alive
    /\ child' = [child EXCEPT ![s] = "exited"]
    /\ endpoint' = [endpoint EXCEPT ![s] = Silenced(s)]
    /\ UNCHANGED <<status, table, turn, step, context, stop, closing, gateway>>

Reap(s) ==
    /\ At(s, "reap") /\ child[s] = "exited"
    /\ table' = table \ {s}
    /\ step' = "failed"
    /\ UNCHANGED <<status, child, endpoint, turn, context, stop, closing, gateway>>

ReportFailed(s) ==
    /\ At(s, "failed")
    /\ Settle(s, "failed_startup")
    /\ UNCHANGED <<table, child, endpoint, context, stop, closing, gateway>>

-----------------------------------------------------------------------------
(* The end of the gateway.                                                  *)

\* SIGINT or SIGTERM.
Signal ==
    /\ gateway = "up" /\ context = "live"
    /\ context' = "canceled"
    /\ UNCHANGED <<status, table, child, endpoint, turn, step, stop, closing, gateway>>

\* exec.CommandContext kills the child of a canceled context.
ContextKill(s) ==
    /\ gateway = "up" /\ context = "canceled" /\ child[s] \in Alive
    /\ child' = [child EXCEPT ![s] = "exited"]
    /\ endpoint' = [endpoint EXCEPT ![s] = Silenced(s)]
    /\ UNCHANGED <<status, table, turn, step, context, stop, closing, gateway>>

\* HTTPServer().Shutdown is called, which makes ListenAndServe return.
Shutdown ==
    /\ gateway = "up" /\ context = "canceled" /\ stop = "waiting"
    /\ stop' = "draining"
    /\ UNCHANGED <<status, table, child, endpoint, turn, step, context, closing, gateway>>

\* Close copies the table.
CloseCopy ==
    /\ gateway = "up" /\ stop = "draining"
    /\ closing' = table
    /\ stop' = "interrupting"
    /\ UNCHANGED <<status, table, child, endpoint, turn, step, context, gateway>>

\* Its loop of interrupts.
CloseInterrupt ==
    /\ gateway = "up" /\ stop = "interrupting"
    /\ child' = [s \in Service |-> IF s \in closing THEN Signaled(s) ELSE child[s]]
    /\ stop' = "awaiting"
    /\ UNCHANGED <<status, table, endpoint, turn, step, context, closing, gateway>>

\* All copied children are done, or serviceShutdownTimeout has passed and they
\* are killed.
CloseReturn ==
    /\ gateway = "up" /\ stop = "awaiting"
    /\ child' = [s \in Service |-> IF s \in closing THEN "exited" ELSE child[s]]
    /\ endpoint' = [s \in Service |-> IF s \in closing THEN Silenced(s) ELSE endpoint[s]]
    /\ stop' = "closed"
    /\ UNCHANGED <<status, table, turn, step, context, closing, gateway>>

\* main returns as soon as ListenAndServe does; it waits for no goroutine.
Exit ==
    /\ gateway = "up" /\ stop # "waiting"
    /\ gateway' = "exited"
    /\ UNCHANGED <<status, table, child, endpoint, turn, step, context, stop, closing>>

-----------------------------------------------------------------------------
(* Children and other processes.                                            *)

\* A child exits, by itself or because it was interrupted.
ChildExit(s) ==
    /\ child[s] \in Alive
    /\ child' = [child EXCEPT ![s] = "exited"]
    /\ endpoint' = [endpoint EXCEPT ![s] = Silenced(s)]
    /\ UNCHANGED <<status, table, turn, step, context, stop, closing, gateway>>

ChildListens(s) ==
    /\ child[s] = "running" /\ endpoint[s] = "down"
    /\ endpoint' = [endpoint EXCEPT ![s] = "child"]
    /\ UNCHANGED <<status, table, child, turn, step, context, stop, closing, gateway>>

\* Somebody else starts the service.
OtherListens(s) ==
    /\ endpoint[s] = "down"
    /\ endpoint' = [endpoint EXCEPT ![s] = "other"]
    /\ UNCHANGED <<status, table, child, turn, step, context, stop, closing, gateway>>

-----------------------------------------------------------------------------
Ensure(s) ==
    \/ Probe(s) \/ Launch(s) \/ Enter(s) \/ Announce(s)
    \/ WaitHealthy(s) \/ WaitExited(s) \/ ReportGone(s) \/ WaitDeadline(s)
    \/ ReapKill(s) \/ Reap(s) \/ ReportFailed(s)

Close == CloseCopy \/ CloseInterrupt \/ CloseReturn

SupervisorNext ==
    \/ Signal \/ Shutdown \/ Close \/ Exit
    \/ \E s \in Service :
          \/ Ensure(s) \/ ContextKill(s)
          \/ ChildExit(s) \/ ChildListens(s) \/ OtherListens(s)

\* The gateway's goroutines run on and its timers fire.  Nothing is assumed of
\* children, which may ignore an interrupt, or of the operator.
SupervisorFairness ==
    /\ \A s \in Service : WF_supervisorVars(Ensure(s)) /\ WF_supervisorVars(ContextKill(s))
    /\ WF_supervisorVars(Shutdown) /\ WF_supervisorVars(Close)

SupervisorSpec == SupervisorInit /\ [][SupervisorNext]_supervisorVars /\ SupervisorFairness

-----------------------------------------------------------------------------
(* Properties.                                                              *)

Steps == {"probe", "launch", "enter", "announce", "wait", "gone", "reap", "failed"}

\* The state is well typed, and a service gets its final state in its turn.
SupervisorTypeOK ==
    /\ status \in [Service -> {"checking", "starting", "connected", "disconnected",
                               "failed_startup"}]
    /\ table \subseteq AutoStart /\ closing \subseteq AutoStart
    /\ child \in [Service -> {"none", "running", "interrupted", "exited"}]
    /\ endpoint \in [Service -> {"down", "child", "other"}]
    /\ turn \in 1..(Cardinality(Service) + 1) /\ step \in Steps
    /\ context \in {"live", "canceled"}
    /\ stop \in {"waiting", "draining", "interrupting", "awaiting", "closed"}
    /\ gateway \in {"up", "exited"}
    /\ \A s \in Service : (s < turn) = (status[s] \notin {"checking", "starting"})

\* "forgetProcess removes process ownership once the child has exited" (supervisor.go:312):
\* a living child is in the table, so that Close can find it, except between cmd.Start
\* and the entry; and a service reported as failed or disconnected has no child left
\* behind that would hold its port.
ChildrenAreOwned ==
    \A s \in Service : child[s] \in Alive =>
       /\ s \in table \/ (turn = s /\ step = "enter")
       /\ status[s] \notin {"failed_startup", "disconnected"}

\* Start-up ends: a dependency that never answers, or ignores its interrupt, does not
\* keep the ones after it from being checked.
StartupSettles ==
    \A s \in Service :
       status[s] = "starting" ~> status[s] # "starting" \/ gateway = "exited"
=============================================================================
