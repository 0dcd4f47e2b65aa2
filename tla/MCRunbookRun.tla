---------------------------- MODULE MCRunbookRun ----------------------------
(* A release runbook.  "main" fetches and has the child "review", which asks *)
(* a person; its success leads to "release", whose only action needs a       *)
(* policy approval and may be sent back to the review ("again", a loop that  *)
(* only the depth limit ends); when it fails, "repair" runs.                 *)
EXTENDS RunbookRun, TLC

MCNodes == {"fetch", "ask", "deploy", "undo"}
MCStates == {"main", "review", "release", "repair"}
MCEntry == [main |-> <<"fetch">>, review |-> <<"ask">>, release |-> <<"deploy">>,
            repair |-> <<"undo">>]
MCChild == [main |-> "review", review |-> "", release |-> "", repair |-> ""]
MCTriggers == {"succeeded", "failed", "again"}
MCGoto ==
    [main    |-> [succeeded |-> "",        failed |-> "",       again |-> ""],
     review  |-> [succeeded |-> "release", failed |-> "",       again |-> ""],
     release |-> [succeeded |-> "",        failed |-> "repair", again |-> "review"],
     repair  |-> [succeeded |-> "",        failed |-> "",       again |-> ""]]
MCKind == [fetch |-> "effect", ask |-> "human", deploy |-> "gated", undo |-> "effect"]
MCRetry == [fetch |-> 0, ask |-> 0, deploy |-> 1, undo |-> 0]
MCSuggests == [n \in MCNodes |-> IF n = "deploy" THEN {"", "again"} ELSE {""}]
MCSymmetry == Permutations(Exec) \cup Permutations(Sig)
=============================================================================
