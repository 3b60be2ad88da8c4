--------------------------- MODULE MCOrderEscrow ---------------------------
(* Small instances of OrderEscrow: a seller, two buyers, one listing of    *)
(* each delivery mode the run asks for.                                    *)
EXTENDS OrderEscrow, TLC

CONSTANTS o1, o2, managed, sealed, offer, seller, root, alice, bob

MCOwner == [l \in Listings |-> IF l = offer /\ root \in Subjects THEN root ELSE seller]
MCMode ==
    [l \in Listings |-> CASE l = managed -> "managed_instant"
                          [] l = sealed  -> "sealed_manual"
                          [] OTHER       -> "entitlement"]
MCPrice == [l \in Listings |-> 2]
MCSymmetry == Permutations(Orders) \cup Permutations({alice, bob})
MCEndowment == [s \in Subjects |-> IF s \in {seller, root} THEN 0 ELSE 3]

(* The offer, which is never edited, can be sold once.                     *)
MCInit == Init /\ \A l \in Listings : l = offer => listings[l].quantity = 1
MCFairSpec == MCInit /\ [][Next]_vars /\ Fairness
=============================================================================
