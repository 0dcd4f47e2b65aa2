------------------------------- MODULE Harness -------------------------------
(* Three services of the harness.  They share no state in these modules: a  *)
(* behaviour of the three is one in which one of them moves at a time, and  *)
(* `part` picks the one to look at.                                         *)
EXTENDS RunbookAuthoring, TargetRegistry, SessionCapture

VARIABLE part

harnessVars == <<part, authoringVars, registryVars, sessionVars>>

HarnessInit ==
    /\ AuthoringInit /\ RegistryInit /\ SessionInit
    /\ part \in {"authoring", "targets", "chats"}

HarnessNext ==
    /\ UNCHANGED part
    /\ \/ part = "authoring" /\ AuthoringNext /\ UNCHANGED <<registryVars, sessionVars>>
       \/ part = "targets" /\ RegistryNext /\ UNCHANGED <<authoringVars, sessionVars>>
       \/ part = "chats" /\ SessionNext /\ UNCHANGED <<authoringVars, registryVars>>

HarnessSpec == HarnessInit /\ [][HarnessNext]_harnessVars

\* The state of all parts is well typed: draft rows, readings and the mutex of reloads,
\* rows of targets and invites, cursors and marks of chats.
HarnessTypeOK == AuthoringTypeOK /\ RegistryTypeOK /\ SessionTypeOK
=============================================================================
