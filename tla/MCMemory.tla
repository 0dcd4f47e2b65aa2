------------------------------ MODULE MCMemory ------------------------------
(* The parts of memoryd on small instances.                                  *)
EXTENDS Memory, TLC

CONSTANTS a, b, c, p1, p2, p3, n1, n2, m1, c1, o1

\* A machine with no database of its own yet, and one with a database.
MCShapes == {{"data"}, {"db", "data"}}
\* Three captures with one idempotency key, and one of them of another content.
MCAsked == (a :> [key |-> "k", content |-> "x"]) @@ (b :> [key |-> "k", content |-> "x"])
           @@ (c :> [key |-> "k", content |-> "y"])
\* The projects the requests put a task into.
MCProjectOf == (m1 :> "p") @@ (n1 :> "r") @@ (n2 :> "r")
\* A task is created open or canceled, completed and reopened.
MCStatusOf == (n1 :> "open") @@ (n2 :> "canceled") @@ (c1 :> "done") @@ (o1 :> "open")

\* Two ways to a node, a way back, a node on its own edge; one node and one edge of
\* seven may be gone at first.
MCFrom == (1 :> 1) @@ (2 :> 1) @@ (3 :> 2) @@ (4 :> 3) @@ (5 :> 4) @@ (6 :> 2) @@ (7 :> 3)
MCTo == (1 :> 2) @@ (2 :> 3) @@ (3 :> 4) @@ (4 :> 4) @@ (5 :> 1) @@ (6 :> 2) @@ (7 :> 2)
MCRank == (1 :> 2) @@ (2 :> 1) @@ (3 :> 1) @@ (4 :> 0)
\* FIND, MATCH of one edge, of one to three, and of exactly two.
MCAsks == {[least |-> 0, most |-> 0, limit |-> 2], [least |-> 1, most |-> 1, limit |-> 2],
           [least |-> 1, most |-> 3, limit |-> 8], [least |-> 2, most |-> 2, limit |-> 1]}
MCReadable == {1..4, {1, 2, 4}, {1, 3, 4}}
MCActive == {L \in SUBSET (1..7) : Cardinality(L) >= 6}
MCNodePlace == (2 :> 1) @@ (1 :> 2) @@ (4 :> 3) @@ (3 :> 4)
MCEdgePlace == [e \in 1..7 |-> e]

\* The query stands still.
NoQuery == readable = 1..4 /\ active = 1..7 /\ ask.most = 0

\* The captures of the daemon are alike.
MCSymmetry == Permutations(Write)

Init ==
    /\ MemoryInit
    /\ part # "daemon" => live = Files({"data"}, "old") /\ snapshot = NoSnapshot
    /\ part # "query" => NoQuery

Spec == Init /\ [][MemoryNext]_memoryVars
=============================================================================
