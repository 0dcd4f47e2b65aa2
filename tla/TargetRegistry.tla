--------------------------- MODULE TargetRegistry ---------------------------
(***************************************************************************)
(* The inventory of runtime targets (harness services targets): the local  *)
(* computer registers when the service opens, others with a signed invite, *)
(* users edit what they see.  Every request reads rows and writes them     *)
(* back in separate statements; SQLite, the clock and the key generator    *)
(* are external.                                                           *)
(***************************************************************************)
EXTENDS Naturals

CONSTANTS
    Inviting,     \* requests for an invite, each for a new target
    Registering,  \* requests of paired targets
    Updating,     \* requests of users
    With,         \* Registering request |-> the invite it presents
    Edits,        \* Updating request |-> the target it edits
    Local,        \* LocalTargetID
    Unsaid,       \* no name, no secret, no row, no invite
    Life,         \* how long an invite lasts
    MaxTime,      \* bound: readings of the clock
    MaxOpens      \* bound: starts of the service

Caller == Inviting \cup Registering \cup Updating \cup {Local}
Target == Inviting \cup {Local}
Names == Target \cup Updating

Row == [name : Names, status : {"healthy"}, allowed : Names]
Invite == [key : Inviting \cup Registering, until : Nat]

ASSUME RegistryAssumption ==
    /\ With \in [Registering -> Inviting] /\ Edits \in [Updating -> Target]
    /\ Inviting \cap Registering = {} /\ Updating \cap (Inviting \cup Registering) = {}
    /\ Local \notin Inviting \cup Registering \cup Updating
    /\ Unsaid \notin Caller \cup Row \cup Invite
    /\ Life \in Nat /\ MaxTime \in Nat /\ MaxOpens \in Nat \ {0}

VARIABLES
    doing,     \* caller |-> its next statement
    time,
    opens,     \* starts of the service so far
    secret,    \* the row of runtime_target_pairing_secret
    keyOf,     \* caller |-> the secret PairingSecret returned to it
    expiry,    \* Inviting request |-> until when its invite will be good
    invites,   \* Inviting request |-> the invite it was answered with
    targets,   \* target |-> its row of runtime_targets
    seenRow,   \* caller |-> the row it has read
    wish,      \* history: target |-> the last answered edit of its name
    mixed      \* history: targets edited while a request held an older row

registryVars == <<doing, time, opens, secret, keyOf, expiry, invites, targets, seenRow, wish, mixed>>

RegistryInit ==
    /\ doing = [c \in Caller |-> IF c = Local THEN "get" ELSE "idle"]
    /\ time = 0 /\ opens = 1
    /\ secret = Unsaid
    /\ keyOf = [c \in Caller |-> Unsaid]
    /\ expiry = [i \in Inviting |-> 0]
    /\ invites = [i \in Inviting |-> Unsaid]
    /\ targets = [t \in Target |-> Unsaid]
    /\ seenRow = [c \in Caller |-> Unsaid]
    /\ wish = [t \in Target |-> Unsaid] /\ mixed = {}

Does(c, s) == doing' = [doing EXCEPT ![c] = s]
TargetOf(c) == IF c \in Registering THEN With[c]
               ELSE IF c \in Updating THEN Edits[c] ELSE c

\* A registration may be repeated: it is the heartbeat of its target.
Call(c) ==
    /\ doing[Local] = "over"
    /\ \/ doing[c] = "idle"
       \/ c \in Registering /\ doing[c] \in {"over", "refused"}
    /\ c \in Registering => invites[With[c]] # Unsaid
    /\ Does(c, IF c \in Updating THEN "get" ELSE "select")
    /\ expiry' = IF c \in Inviting THEN [expiry EXCEPT ![c] = time + Life] ELSE expiry
    /\ UNCHANGED <<time, opens, secret, keyOf, invites, targets, seenRow, wish, mixed>>

-----------------------------------------------------------------------------
(* PairingSecret.                                                           *)

KeyKnown(c, k) ==
    /\ keyOf' = [keyOf EXCEPT ![c] = k]
    /\ Does(c, IF c \in Inviting THEN "sign" ELSE "check")

SelectSecret(c) ==
    /\ doing[c] = "select"
    /\ IF secret = Unsaid THEN Does(c, "insert") /\ UNCHANGED keyOf
       ELSE KeyKnown(c, secret)
    /\ UNCHANGED <<time, expiry, opens, secret, invites, targets, seenRow, wish, mixed>>

\* Fault: the secret that was generated is used whether or not it was stored.
InsertSecret_Own(c) ==
    /\ doing[c] = "insert"
    /\ secret' = IF secret = Unsaid THEN c ELSE secret
    /\ KeyKnown(c, c)
    /\ UNCHANGED <<time, expiry, opens, invites, targets, seenRow, wish, mixed>>

\* INSERT OR IGNORE of a fresh secret; when another was first, that one is read.
InsertSecret(c) ==
    /\ doing[c] = "insert"
    /\ IF secret = Unsaid THEN secret' = c /\ KeyKnown(c, c)
       ELSE Does(c, "select") /\ UNCHANGED <<secret, keyOf>>
    /\ UNCHANGED <<time, expiry, opens, invites, targets, seenRow, wish, mixed>>

-----------------------------------------------------------------------------
Sign(c) ==
    /\ doing[c] = "sign"
    /\ invites' = [invites EXCEPT ![c] = [key |-> keyOf[c], until |-> expiry[c]]]
    /\ Does(c, "over")
    /\ UNCHANGED <<time, opens, secret, keyOf, expiry, targets, seenRow, wish, mixed>>

Valid(c) == invites[With[c]].key = keyOf[c] /\ time <= invites[With[c]].until

\* validatePairingToken: the signature, then the expiry.
CheckInvite(c) ==
    /\ doing[c] = "check"
    /\ Does(c, IF Valid(c) THEN "get" ELSE "refused")
    /\ UNCHANGED <<time, expiry, opens, secret, keyOf, invites, targets, seenRow, wish, mixed>>

\* A registration also goes on without a row, an update does not.
Get(c) ==
    /\ doing[c] = "get"
    /\ seenRow' = [seenRow EXCEPT ![c] = targets[TargetOf(c)]]
    /\ Does(c, IF c \in Updating /\ targets[TargetOf(c)] = Unsaid THEN "refused" ELSE "put")
    /\ UNCHANGED <<time, expiry, opens, secret, keyOf, invites, targets, wish, mixed>>

\* Fault: the name in the registration comes before the one in the row.
Registered_Renamed(c) ==
    [name |-> TargetOf(c), status |-> "healthy",
     allowed |-> IF c = Local /\ seenRow[c] # Unsaid THEN seenRow[c].allowed ELSE TargetOf(c)]

\* The row a registration writes: the name a user gave stays; the codebases stay
\* for the local target, and are those of the invite for a paired one.
Registered(c) ==
    [name |-> IF seenRow[c] # Unsaid THEN seenRow[c].name ELSE TargetOf(c),
     status |-> "healthy",
     allowed |-> IF c = Local /\ seenRow[c] # Unsaid THEN seenRow[c].allowed ELSE TargetOf(c)]

Edited(c) == [name |-> c, status |-> seenRow[c].status, allowed |-> c]

Holding(t) == {c \in Caller : doing[c] = "put" /\ TargetOf(c) = t}

\* UpsertTarget, which writes every column.
Put(c) ==
    /\ doing[c] = "put"
    /\ LET t == TargetOf(c) IN
       /\ targets' = [targets EXCEPT ![t] = IF c \in Updating THEN Edited(c) ELSE Registered(c)]
       /\ IF c \in Updating
          THEN /\ wish' = [wish EXCEPT ![t] = c]
               /\ mixed' = IF Holding(t) = {c} THEN mixed ELSE mixed \cup {t}
          ELSE UNCHANGED <<wish, mixed>>
    /\ seenRow' = [seenRow EXCEPT ![c] = Unsaid]
    /\ Does(c, "over")
    /\ UNCHANGED <<time, expiry, opens, secret, keyOf, invites>>

-----------------------------------------------------------------------------
Pass ==
    /\ time < MaxTime
    /\ time' = time + 1
    /\ UNCHANGED <<expiry, doing, opens, secret, keyOf, invites, targets, seenRow, wish, mixed>>

\* The process ends and the service opens again: what was under way is gone, and
\* callers who got no answer may ask again.
Reopen ==
    /\ opens < MaxOpens
    /\ opens' = opens + 1
    /\ doing' = [c \in Caller |->
          IF c = Local THEN "get"
          ELSE IF doing[c] \in {"over", "refused"} THEN doing[c] ELSE "idle"]
    /\ seenRow' = [c \in Caller |-> Unsaid] /\ keyOf' = [c \in Caller |-> Unsaid]
    /\ UNCHANGED <<time, expiry, secret, invites, targets, wish, mixed>>

RegistryNext ==
    \/ \E c \in Caller :
          \/ Call(c) \/ SelectSecret(c) \/ InsertSecret(c) \/ Get(c) \/ Put(c)
          \/ Sign(c) \/ CheckInvite(c)
    \/ Pass \/ Reopen

RegistrySpec == RegistryInit /\ [][RegistryNext]_registryVars

-----------------------------------------------------------------------------
(* Properties.                                                              *)

\* The state is well typed.
RegistryTypeOK ==
    /\ doing \in [Caller -> {"idle", "select", "insert", "sign", "check", "get", "put", "over", "refused"}]
    /\ time \in 0..MaxTime /\ opens \in 1..MaxOpens
    /\ secret \in Inviting \cup Registering \cup {Unsaid}
    /\ keyOf \in [Caller -> Inviting \cup Registering \cup {Unsaid}]
    /\ expiry \in [Inviting -> Nat]
    /\ invites \in [Inviting -> Invite \cup {Unsaid}]
    /\ targets \in [Target -> Row \cup {Unsaid}]
    /\ seenRow \in [Caller -> Row \cup {Unsaid}]
    /\ wish \in [Target -> Updating \cup {Unsaid}] /\ mixed \subseteq Target

\* PairingSecret is "the durable HMAC secret used for invite tokens" (store.go:157): two
\* first requests that race to create it agree on one, so that an invite is refused only
\* after it has expired.
InvitesAreAccepted ==
    /\ \A i \in Inviting : invites[i] # Unsaid => invites[i].key = secret
    /\ \A c \in Registering : doing[c] = "refused" => time > invites[With[c]].until

\* The name a user gives a target outlives its heartbeats and every start of the service,
\* and so do the codebases of the local one, unless a request held an older row.
EditsOutliveHeartbeats ==
    \A t \in Target \ mixed : wish[t] # Unsaid =>
       targets[t].name = wish[t] /\ (t = Local => targets[t].allowed = wish[t])
=============================================================================
