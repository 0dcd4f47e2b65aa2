--------------------------- MODULE EventDelivery ---------------------------
(* What the Slack adapter promises about events, whatever is delivered how   *)
(* often: an event is handed to the agent only while it is not remembered,   *)
(* no two events of one sender are with the agent at once, and only being    *)
(* handed over makes an event remembered.                                    *)
EXTENDS Naturals

CONSTANTS
    Event,
    Sender  \* event |-> its channel and user

VARIABLES
    remembered,  \* events handed over within the duplicate window
    working      \* events the agent works on

vars == <<remembered, working>>

Init == remembered = {} /\ working = {}

Admit(e) ==
    /\ e \notin remembered
    /\ \A f \in working : Sender[f] # Sender[e]
    /\ working' = working \cup {e}
    /\ remembered' \in SUBSET (remembered \cup {e})

Finish(e) ==
    /\ e \in working
    /\ working' = working \ {e}
    /\ UNCHANGED remembered

Forget ==
    /\ remembered' \in SUBSET remembered
    /\ UNCHANGED working

Next == Forget \/ \E e \in Event : Admit(e) \/ Finish(e)

Spec == Init /\ [][Next]_vars
=============================================================================
