--------------------------- MODULE MCEffectWorker ---------------------------
(* Small instances of EffectWorker: a few jobs of chosen kinds.            *)
EXTENDS EffectWorker, TLC

CONSTANTS m1, t1, t2, g1, h1, h2, h3, s1, w1, w2

MCKind == [j \in Jobs |-> CASE j = m1 -> "mail" [] j \in {t1, t2} -> "tool"
                            [] j = g1 -> "git" [] j \in {h1, h2, h3} -> "webhook"
                            [] j = s1 -> "websub"]
MCSymmetry == Permutations(Workers) \cup Permutations(Jobs \cap {t1, t2})
                 \cup Permutations(Jobs \cap {h1, h2, h3})

(* One of the jobs is over, as a worker left it after its only attempt: a    *)
(* run beside two deliveries, or a delivery, deleted since, beside two runs. *)
(* Its owner has lost the right by now.                                      *)
MCInit ==
    /\ worker = [w \in Workers |-> Idle]
    /\ \E past \in Jobs \cap {t2, h2} :
          /\ allowed = [j \in Jobs |-> j # past]
          /\ jobs = [j \in Jobs |->
                        IF j # past THEN [Pending EXCEPT !.state = "none"]
                        ELSE [Pending EXCEPT !.attempts = 1,
                                             !.state = IF Kind[j] = "tool" THEN "done" ELSE "pruned"]]
          /\ effects = [j \in Jobs |-> IF j = past THEN 1 ELSE 0]
MCFairSpec == MCInit /\ [][Next]_vars /\ Fairness
=============================================================================
