------------------------------ MODULE MCHarness ------------------------------
(* The services of the harness on small instances.                          *)
EXTENDS Harness, TLC

CONSTANTS d1, d2, own, p1, v1, x1, e1, f1, f2, i1, i2, g1, g2, u1, u2, a, b, c, s1, s2

\* The requests are about the mirror of d2; another draft is the user's own.
MCAbout == (p1 :> d2) @@ (v1 :> d2) @@ (x1 :> d2) @@ (e1 :> d2) @@ (f1 :> d2) @@ (f2 :> d2)
MCBodyId == (e1 :> d2)
\* Each paired target has an invite; one user edits a paired target, one the local one.
MCWith == (g1 :> i1) @@ (g2 :> i2)
MCEdits == (u1 :> i1) @@ (u2 :> Local)
\* Two turns of one chat, and a chat of the same user beside it.
MCSessionOf == (a :> s1) @@ (b :> s1) @@ (c :> s2)

\* Both definitions are deployed at first.
Init == HarnessInit /\ deployed = [d \in Definition |-> "base"]

Spec == Init /\ [][HarnessNext]_harnessVars
=============================================================================
