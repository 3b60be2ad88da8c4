--------------------------- MODULE MCArbitration ---------------------------
(* Small instances of Arbitration: services sold to a buyer or two.        *)
EXTENDS Arbitration, TLC

CONSTANTS o1, o2, seller, alice, bob, l1, a1, a2, a3, x1, x2

MCOwner == [l \in Listings |-> seller]
MCMode == [l \in Listings |-> "service"]
MCPrice == [l \in Listings |-> 1]
MCEndowment == [s \in Subjects |-> IF s = seller THEN 0 ELSE 1]
MCSymmetry == Permutations(Candidates \ Subjects)

(* One candidate may be granted its role again, the others not.            *)
MCNext ==
    \/ Grant(a1)
    \/ Next /\ \A a \in Candidates : roles'[a].epoch = roles[a].epoch
MCFairSpec == Init /\ [][MCNext]_vars
                 /\ WF_vars(ResolveCases) /\ WF_vars(MarketStep /\ Escrow!Tick)
=============================================================================
