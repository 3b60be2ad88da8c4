---------------------------- MODULE GrantPromise ----------------------------
(* What a grant of authority promises: it begins once, ends once, and nothing  *)
(* brings it back.                                                             *)
CONSTANT Grantees
VARIABLE stage      \* [Grantees -> {"none", "live", "over"}]

PromiseInit == stage = [g \in Grantees |-> "none"]

After == [none |-> {"none", "live", "over"}, live |-> {"live", "over"}, over |-> {"over"}]

PromiseNext ==
    /\ DOMAIN stage' = Grantees
    /\ \A g \in Grantees : stage'[g] \in After[stage[g]]

PromiseSpec == PromiseInit /\ [][PromiseNext]_stage
=============================================================================
