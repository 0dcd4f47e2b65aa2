\* Two deliveries of three events, one of them over the socket; two services.
CONSTANTS
    d1 = d1    d2 = d2
    Event <- MCEvent    Delivery = {d1, d2}    Socket = {d2}
    Bindings <- MCBindings    Allowed <- MCAllowed    Limits <- MCLimits
    TTL = 1    MaxDenials = 1    NoEvent = NoEvent    MaxClock = 2
    Service <- MCService    AutoStart <- MCService
SPECIFICATION Spec
INVARIANTS GatewayTypeOK LimitsHold AcknowledgedIsAdmitted ChildrenAreOwned
PROPERTIES DeliveredOnce SlotsReturn StartupSettles
\* Every delivery may be over, and the gateway may have ended.
CHECK_DEADLOCK FALSE
