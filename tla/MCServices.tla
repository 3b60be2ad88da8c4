----------------------------- MODULE MCServices -----------------------------
(* Small instances of the components that share no state with one another.   *)
(* A behaviour is one of the component the variable service names; the other *)
(* components stay in one initial state.                                     *)
EXTENDS Contents, Grants, RootRotation, Recovery, TokenDelivery, Bounty, Documents, Authority, TLC

CONSTANTS t1, t2, t3, j1, b1, d1, c1, p1, p2, k1, k2, ann, ben, cat, pub

VARIABLE service

MCWhole == <<"a", "b", "b">>
MCParts ==
    [t \in Transfers |->
        CASE t = t1 -> {[offset |-> 0, data |-> MCWhole], [offset |-> 1, data |-> <<"b">>]}
          [] t = t2 -> {[offset |-> 0, data |-> MCWhole]}
          [] t = t3 -> {[offset |-> 0, data |-> <<"a", "b">>], [offset |-> 1, data |-> <<"b">>],
                        [offset |-> 2, data |-> <<"b">>]}]
MCMedia == [f \in Transfers \cup Jobs |-> IF f = t2 THEN "git" ELSE "binary"]
MCPayloads == {MCWhole, <<"a", "b">>}
MCOutputs == {MCWhole}

MCTerms ==
    {[reward |-> 1, max |-> 2, limit |-> 1, for |-> {ann, ben}, expires |-> 2],
     [reward |-> 2, max |-> 2, limit |-> 2, for |-> {ann, pub}, expires |-> 1]}

MCText == <<"a", "a", "b">>
MCEdits ==
    {[kind |-> "whole", text |-> <<"a", "a", "a", "b">>], [kind |-> "rollback"], [kind |-> "touch"],
     [kind |-> "exact", before |-> <<>>, exact |-> <<"a">>, after |-> <<"b">>, replacement |-> <<"b">>],
     [kind |-> "unified", hunks |-> <<[at |-> 1, to |-> 1, old |-> <<>>, new |-> <<"b">>]>>],
     [kind |-> "unified",
      hunks |-> <<[at |-> 0, to |-> 0, old |-> <<"a", "a">>, new |-> <<"b">>],
                  [at |-> 2, to |-> 1, old |-> <<"b">>, new |-> <<"b", "a">>]>>]}

MCHolder == [k \in Signers |-> CASE k = "ben1" -> ben [] k = "cat1" -> cat [] OTHER -> ann]

Fresh(these) == \A t \in Transfers : db.transfers[t].state = IF t \in these THEN "none" ELSE "expired"
Tools(step) == \A j \in Jobs : tool[j].step = step

(* Two transfers of one body without a fault; a transfer beside a tool job,  *)
(* with one fault; a transfer in pieces, with one fault.                     *)
QuietContents == Fresh({t1, t2}) /\ Tools("over") /\ interruptions = MaxInterruptions
BusyContents ==
    \/ QuietContents
    \/ Fresh({t2}) /\ Tools("running") /\ interruptions = 0
    \/ Fresh({t3}) /\ Tools("over") /\ interruptions = 0

MCInit ==
    /\ service \in {"contents", "grants", "rotation", "recovery", "delivery", "bounty", "documents",
                 "authority"}
    /\ InitContents /\ InitGrants /\ InitRotation /\ InitRecovery /\ InitDelivery /\ InitBounty
    /\ InitDocuments /\ InitAuthority
    /\ IF service = "contents" THEN BusyContents ELSE QuietContents
    /\ service # "rotation" => past.held /\ Published = Aliases

(* Everything but the one service stays as it is.                            *)
Only(name) ==
    /\ service = name /\ UNCHANGED service
    /\ name # "contents" => UNCHANGED contents_vars
    /\ name # "grants" => UNCHANGED grants_vars
    /\ name # "rotation" => UNCHANGED rotation_vars
    /\ name # "recovery" => UNCHANGED recovery_vars
    /\ name # "delivery" => UNCHANGED delivery_vars
    /\ name # "bounty" => UNCHANGED bounty_vars
    /\ name # "documents" => UNCHANGED documents_vars
    /\ name # "authority" => UNCHANGED authority_vars

MCNext ==
    \/ Only("contents") /\ NextContents
    \/ Only("grants") /\ NextGrants
    \/ Only("rotation") /\ NextRotation
    \/ Only("recovery") /\ NextRecovery
    \/ Only("delivery") /\ NextDelivery
    \/ Only("bounty") /\ NextBounty
    \/ Only("documents") /\ NextDocuments
    \/ Only("authority") /\ NextAuthority

MCVars == <<service, contents_vars, grants_vars, rotation_vars, recovery_vars,
            delivery_vars, bounty_vars, documents_vars, authority_vars>>

MCSpec == MCInit /\ [][MCNext]_MCVars /\ ContentsFairness

(* The contents alone.                                                       *)
ContentsOnly == MCInit /\ service = "contents"
MCContentsSpec == ContentsOnly /\ [][MCNext]_MCVars /\ ContentsFairness

(* The component that runs is well typed.                                    *)
ServicesTyped ==
    /\ service = "contents" => ContentsTyped
    /\ service = "grants" => GrantsTyped
    /\ service = "rotation" => RotationTyped
    /\ service = "recovery" => RecoveryTyped
    /\ service = "delivery" => DeliveryTyped
    /\ service = "bounty" => BountyTyped
=============================================================================
