------------------------------ MODULE MCExecutor ------------------------------
(* Values for the executor's runs.  Two contents share the key kb, and     *)
(* three the key ki: two independent batches and a single operation.  The  *)
(* atomic batch has the children of the first independent one, signed      *)
(* otherwise, so that each can find the other's children done.             *)
EXTENDS Executor, TLC

CONSTANTS a1, b1, b2, ind, ind2, take, atom, ka, kb, ki, kt, s1, s2

MCPayload == {a1, b1, b2, ind, ind2, take, atom}
MCId      == {ka, kb, ki, kt}
MCIdOf    == (a1 :> ka) @@ (b1 :> kb) @@ (b2 :> kb)
               @@ (ind :> ki) @@ (ind2 :> ki) @@ (take :> ki) @@ (atom :> kt)
MCKind    == [p \in MCPayload |-> CASE p \in {ind, ind2} -> "independent"
                                    [] p = atom -> "atomic"
                                    [] OTHER -> "single"]

By(p, who)  == [pay |-> p, by |-> who]
MCChildren  == [p \in MCPayload |->
                  CASE p = ind  -> <<By(a1, "owner"), By(b1, "delegate")>>
                    [] p = ind2 -> <<By(b2, "owner")>>
                    [] p = atom -> <<By(a1, "delegate"), By(b1, "delegate")>>
                    [] OTHER    -> <<>>]
MCServer  == {s1, s2}
MCGuarded == {a1, ind}
Symmetry  == Permutations(MCServer)
=============================================================================
