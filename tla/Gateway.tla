------------------------------ MODULE Gateway ------------------------------
(* Two parts of the gateway process.  They share no state: a behaviour of   *)
(* both is one in which one of them moves at a time, and `part` picks the   *)
(* one to look at.                                                          *)
EXTENDS SlackAdapter, Supervisor

VARIABLE part

gatewayVars == <<part, slackVars, supervisorVars>>

GatewayInit == SlackInit /\ SupervisorInit /\ part \in {"slack", "supervisor"}

Slack == part = "slack" /\ UNCHANGED <<part, supervisorVars>>
Services == part = "supervisor" /\ UNCHANGED <<part, slackVars>>

GatewayNext ==
    \/ Slack /\ SlackNext
    \/ Services /\ SupervisorNext

\* Nothing of the Slack adapter is enabled while it stands still.
GatewayFairness ==
    /\ SlackFairness
    /\ \A s \in Service :
          WF_gatewayVars(Services /\ Ensure(s)) /\ WF_gatewayVars(Services /\ ContextKill(s))
    /\ WF_gatewayVars(Services /\ Shutdown) /\ WF_gatewayVars(Services /\ Close)

GatewaySpec == GatewayInit /\ [][GatewayNext]_gatewayVars /\ GatewayFairness

\* The state of both parts is well typed: tokens, senders and remembered events, children
\* and the states of services.
GatewayTypeOK == SlackTypeOK /\ SupervisorTypeOK
=============================================================================
