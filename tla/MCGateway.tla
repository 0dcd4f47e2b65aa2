----------------------------- MODULE MCGateway -----------------------------
(* The parts of the gateway process on small instances.                    *)
EXTENDS Gateway

CONSTANTS d1, d2

Mention(user, root) ==
    [type |-> "app_mention", subtype |-> FALSE, bot |-> FALSE, complete |-> TRUE,
     team |-> "T", channel |-> "C", user |-> user, root |-> root]

\* Two users who write in one thread, and one whose profile nobody named.
MCEvent == {Mention("ann", "t"), Mention("bob", "t"), Mention("eve", "u")}
MCBindings == <<[team |-> "T", channel |-> "C", users |-> {"eve"}, profile |-> ""],
                [team |-> "T", channel |-> "C", users |-> {"ann", "bob", "eve"}, profile |-> "p"]>>
MCAllowed == [team |-> "", user |-> "", channel |-> ""]
MCLimits == {1, 2}
MCService == {1, 2}

Init ==
    /\ GatewayInit
    /\ part = "slack" => endpoint = [s \in Service |-> "down"]
    /\ part = "supervisor" => limit = 1 /\ ready

Spec == Init /\ [][GatewayNext]_gatewayVars /\ GatewayFairness
=============================================================================
