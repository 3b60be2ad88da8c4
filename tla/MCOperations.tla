---------------------------- MODULE MCOperations ----------------------------
(* The executor, and operations it runs, in small instances that share no    *)
(* state.  A behaviour is one of the component the variable active names;    *)
(* the others stay in one initial state.                                     *)
EXTENDS MCExecutor, Groups, Topics, Hosting, Custody, Sync

CONSTANTS ann, ben, cat, eve, w1, w2, p1, p2

VARIABLE active

MCQuotes == {[price |-> 1, lasts |-> 1], [price |-> 2, lasts |-> 0]}

MCInit ==
    /\ active \in {"executor", "groups", "topics", "hosting", "custody", "sync"}
    /\ Init /\ InitGroups /\ InitTopics /\ InitHosting /\ InitCustody /\ InitSync
    /\ active # "hosting" => quote.terms.price = 1

(* One thing at a time has changed for a request of the executor: a signer    *)
(* is revoked, a batch has aged, or an access is closed and may open again.  *)
OneChange == Cardinality(Signer \ live) + Cardinality(aged) + Cardinality(Payload \ open) <= 1

(* Everything but the one component stays as it is.                          *)
Only(name) ==
    /\ active = name /\ UNCHANGED active
    /\ name # "executor" => UNCHANGED vars
    /\ name # "groups" => UNCHANGED groups_vars
    /\ name # "topics" => UNCHANGED topics_vars
    /\ name # "hosting" => UNCHANGED hosting_vars
    /\ name # "custody" => UNCHANGED custody_vars
    /\ name # "sync" => UNCHANGED sync_vars

MCNext ==
    \/ Only("executor") /\ Next /\ OneChange'
    \/ Only("groups") /\ NextGroups
    \/ Only("topics") /\ NextTopics
    \/ Only("hosting") /\ NextHosting
    \/ Only("custody") /\ NextCustody
    \/ Only("sync") /\ NextSync
    \/ Only("custody") /\ UNCHANGED custody_vars    \* an exit may come to rest

(* Processes, purchases and sites are interchangeable; Custody takes the     *)
(* sites for its sealed entries.                                             *)
MCSymmetry == Symmetry \cup Permutations(Sites) \cup Permutations(Purchases)

MCVars == <<active, vars, groups_vars, topics_vars, hosting_vars, custody_vars, sync_vars>>

MCSpec == MCInit /\ [][MCNext]_MCVars
=============================================================================
