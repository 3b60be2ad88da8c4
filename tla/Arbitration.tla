---------------------------- MODULE Arbitration ----------------------------
(***************************************************************************)
(* Disputes (src/msg/market: arbitration, rationale, policy; the grants of *)
(* admin/market).  The orders are those of module OrderEscrow, whose two   *)
(* abstract dispute steps are replaced by the cases, panels, votes and     *)
(* decisions that lead to them; everything else the market does goes on    *)
(* around them.  An order has at most one case, so a case is named by its  *)
(* order.  A decision, unique per case and round, is named by the two.     *)
(***************************************************************************)
EXTENDS Integers, FiniteSetsExt

CONSTANTS
    Orders, Listings, Subjects, Owner, Mode, Price, Endowment,
    FundingTimeout, DeliveryTimeout, Faults, Limit, MaxQuantity, Horizon,
    Candidates,         \* policy.candidates; a party may be among them
    PanelSize, Quorum,  \* policy.panel_size, policy.quorum
    AllowAppeal,        \* policy.allow_appeal
    CaseTimeout,        \* policy.case_timeout_seconds
    DecisionLifetime,   \* policy.decision_lifetime_seconds
    AppealSeconds,      \* policy.appeal_seconds
    Rationales,         \* files an arbitrator may pin as the reason
    MaxEpoch,           \* bound: how often a role is granted
    MaxKey,             \* bound: how often a member's key is replaced
    MaxConflicts        \* bound: how many conflicts are declared

(* policy.validate(): a strict majority, and a decision that outlives the  *)
(* window of its appeal.                                                   *)
ASSUME PolicyAssumption ==
    /\ PanelSize \in Nat \ {0} /\ Quorum \in 1 .. PanelSize
    /\ 2 * Quorum > PanelSize
    /\ AllowAppeal \in BOOLEAN
    /\ CaseTimeout \in Nat \ {0}
    /\ DecisionLifetime \in Nat \ {0} /\ AppealSeconds \in Nat \ {0}
    /\ AllowAppeal => DecisionLifetime > AppealSeconds
    /\ MaxEpoch \in Nat \ {0} /\ MaxKey \in Nat /\ MaxConflicts \in Nat

VARIABLES
    now, listings, orders, damage,      \* as in OrderEscrow
    epochs,     \* contract: the grant each candidate held at checkout
    roles,      \* arbitrator_roles: [epoch, active]
    keys,       \* the current signing key of every candidate
    conflicts,  \* arbitrator_conflicts: <<arbitrator, party>>
    cases,      \* arbitration_cases: [state, round, panels, deadlines, deadline]
    reasons,    \* pinned rationales: <<order, round, rationale>>
    lost,       \* those whose bytes are gone or no longer match
    votes,      \* arbitration_votes
    decisions   \* arbitration_decisions, with their revoked flag

market == <<now, listings, orders, damage>>
panelState == <<roles, keys, conflicts>>
caseState == <<cases, reasons, lost, votes, decisions>>
vars == <<market, epochs, panelState, caseState>>

(* The market of module OrderEscrow, with what is proved about it.         *)
Escrow == INSTANCE OrderEscrowProofs

ASSUME EscrowAssumption == Escrow!ConstantsAssumption

Rounds == {0, 1}
CaseStates == {"open", "decided", "held", "executed"}

TypeOK ==
    /\ epochs \in [DOMAIN orders -> [Candidates -> 0 .. MaxEpoch]]
    /\ roles \in [Candidates -> [epoch : 0 .. MaxEpoch, active : BOOLEAN]]
    /\ keys \in [Candidates -> 0 .. MaxKey]
    /\ conflicts \subseteq Candidates \X Subjects
    /\ DOMAIN cases \subseteq DOMAIN orders
    /\ \A o \in DOMAIN cases :
          cases[o] \in [state : CaseStates, round : Rounds, deadline : Nat,
                        panels : [Rounds -> SUBSET Candidates],
                        deadlines : [Rounds -> Nat]]
    /\ lost \subseteq reasons
    /\ reasons \subseteq Orders \X Rounds \X Rationales
    /\ votes \subseteq [order : Orders, round : Rounds, arbitrator : Candidates,
                        refund : Nat, rationale : Rationales,
                        key : 0 .. MaxKey, cast_at : Nat]
    /\ decisions \subseteq [order : Orders, round : Rounds, refund : Nat,
                            rationale : Rationales, voters : SUBSET Candidates,
                            not_before : Nat, expires_at : Nat, revoked : BOOLEAN]

-----------------------------------------------------------------------------
(* Who may judge.                                                          *)

Parties(o) == {orders[o].buyer, Owner[orders[o].listing]}

MemberValid_AnyEpoch(a, o) ==    \* mutant: a regrant counts as the grant
    /\ epochs[o][a] # 0 /\ roles[a].active
    /\ a \notin Parties(o)
    /\ \A party \in Parties(o) : <<a, party>> \notin conflicts

MemberValid_Party(a, o) ==    \* mutant: a party counts as a member
    /\ epochs[o][a] # 0
    /\ roles[a].active /\ roles[a].epoch = epochs[o][a]
    /\ \A party \in Parties(o) : <<a, party>> \notin conflicts

(* member_valid(): the very grant the order's contract froze, still held,  *)
(* and no conflict with a party.                                           *)
MemberValid(a, o) ==
    /\ epochs[o][a] # 0
    /\ roles[a].active /\ roles[a].epoch = epochs[o][a]
    /\ a \notin Parties(o)
    /\ \A party \in Parties(o) : <<a, party>> \notin conflicts

Panels_Again(o, excluded) ==    \* mutant: the first panel is not excluded
    LET eligible == {a \in Candidates : MemberValid(a, o)}
    IN  {p \in SUBSET eligible :
            Cardinality(p) = Min({PanelSize, Cardinality(eligible)})}

(* panel_for(): the first members of the eligible candidates in the order  *)
(* of a hash of order, policy and round, which may be any order.           *)
Panels(o, excluded) ==
    LET eligible == {a \in Candidates \ excluded : MemberValid(a, o)}
    IN  {p \in SUBSET eligible :
            Cardinality(p) = Min({PanelSize, Cardinality(eligible)})}

AllValid(o, panel) ==
    Cardinality(panel) = PanelSize /\ \A a \in panel : MemberValid(a, o)

(* panel_valid(): hold-no-replacement.                                     *)
PanelValid(o) == AllValid(o, cases[o].panels[cases[o].round])

(* owned_case() for a member of the current panel.                         *)
OnPanel(a, o) == a \in cases[o].panels[cases[o].round] /\ MemberValid(a, o)

(* verify_vote(): the key that signed is the one in force.                 *)
VoteVerified(v) == MemberValid(v.arbitrator, v.order) /\ v.key = keys[v.arbitrator]

VotesIn(o, k) == {v \in votes : v.order = o /\ v.round = k}

Intact(o, k, x) == <<o, k, x>> \in reasons \ lost

AppealDelay(k) == IF k = 0 /\ AllowAppeal THEN AppealSeconds ELSE 0

DecisionOf(o) == {d \in decisions : d.order = o /\ d.round = cases[o].round}

(* validate_decision(): everything is checked again before money moves.    *)
DecisionValid(o, d) ==
    LET c == cases[o]
    IN  /\ ~d.revoked
        /\ d.round = c.round /\ c.state = "decided" /\ orders[o].state = "disputed"
        /\ d.expires_at > now /\ d.not_before <= now
        /\ PanelValid(o)
        /\ Intact(o, d.round, d.rationale)
        /\ Cardinality(d.voters) = Quorum /\ d.voters \subseteq c.panels[c.round]
        /\ \A a \in d.voters : \E v \in VotesIn(o, d.round) :
              /\ v.arbitrator = a
              /\ v.refund = d.refund /\ v.rationale = d.rationale
              /\ VoteVerified(v)

-----------------------------------------------------------------------------
(* The market around the cases.  An order's contract freezes the epochs of *)
(* the active grants when it is created (policy.snapshot).                 *)
Snapshot == [a \in Candidates |-> IF roles[a].active THEN roles[a].epoch ELSE 0]

MarketStep ==
    /\ Escrow!MarketStep
    /\ epochs' = [o \in DOMAIN orders' |->
                    IF o \in DOMAIN orders THEN epochs[o] ELSE Snapshot]
    /\ UNCHANGED <<panelState, caseState>>

-----------------------------------------------------------------------------
(* Cases.                                                                  *)

(* orders.dispute_open@1 when there is no objective fault.                 *)
OpenCase(o) ==
    /\ o \notin DOMAIN cases
    /\ Escrow!OpenCase(o)
    /\ now + 2 * CaseTimeout + DecisionLifetime + AppealSeconds <= Horizon    \* bound
    /\ \E panel \in Panels(o, {}) :
          cases' = [x \in DOMAIN cases \cup {o} |->
                      IF x # o THEN cases[x]
                      ELSE [state |-> IF AllValid(o, panel) THEN "open" ELSE "held",
                            round |-> 0,
                            deadline |-> now + CaseTimeout,
                            panels |-> [k \in Rounds |-> IF k = 0 THEN panel ELSE {}],
                            deadlines |-> [k \in Rounds |-> IF k = 0 THEN now + CaseTimeout ELSE 0]]]
    /\ UNCHANGED <<epochs, panelState, reasons, lost, votes, decisions>>

Voting(o) == LET c == cases[o]
             IN  c.state = "open" /\ now < c.deadlines[c.round]

(* orders.dispute_rationale@1                                              *)
PinReason(o, a, x) ==
    /\ OnPanel(a, o) /\ PanelValid(o) /\ Voting(o)
    /\ <<o, cases[o].round, x>> \notin reasons
    /\ reasons' = reasons \cup {<<o, cases[o].round, x>>}
    /\ UNCHANGED <<market, epochs, panelState, cases, lost, votes, decisions>>

(* proposal_base(): expires_at, the same for every vote of a round.        *)
Expiry(o) == cases[o].deadlines[cases[o].round] + DecisionLifetime

(* orders.dispute_vote@1: record the member's one vote of the round, check *)
(* every vote for the same proposal again, and decide at the quorum.       *)
Vote(o, a, refund, x) ==
    LET c        == cases[o]
        earlier  == {v \in VotesIn(o, c.round) : v.arbitrator = a}
        mine     == [order |-> o, round |-> c.round, arbitrator |-> a,
                     refund |-> refund, rationale |-> x,
                     key |-> keys[a], cast_at |-> now]
        cast     == IF earlier = {} THEN votes \cup {mine} ELSE votes
        matching == {v \in cast : /\ v.order = o /\ v.round = c.round
                                  /\ v.refund = refund /\ v.rationale = x}
    IN  /\ OnPanel(a, o) /\ PanelValid(o) /\ Voting(o)
        /\ Intact(o, c.round, x)
        /\ \A v \in earlier : v.refund = refund /\ v.rationale = x
        /\ \A v \in matching : VoteVerified(v)
        /\ votes' = cast
        /\ \/ /\ Cardinality(matching) < Quorum
              /\ UNCHANGED <<cases, decisions>>
           \/ \E voters \in kSubset(Quorum, matching) :
                LET from == Max({v.cast_at : v \in voters}) + AppealDelay(c.round)
                IN  /\ decisions' = decisions \cup
                          {[order |-> o, round |-> c.round, refund |-> refund,
                            rationale |-> x, voters |-> {v.arbitrator : v \in voters},
                            not_before |-> from,
                            expires_at |-> Expiry(o),
                            revoked |-> FALSE]}
                    /\ cases' = [cases EXCEPT ![o].state = "decided", ![o].deadline = from]
        /\ UNCHANGED <<market, epochs, panelState, reasons, lost>>

Execute_Swapped(o) ==    \* mutant: the shares change sides
    /\ \E d \in DecisionOf(o) :
          /\ DecisionValid(o, d)
          /\ Escrow!ExecuteDecisions([x \in {o} |-> orders[o].total - d.refund])
    /\ cases' = [cases EXCEPT ![o].state = "executed"]
    /\ UNCHANGED <<epochs, panelState, reasons, lost, votes, decisions>>

(* orders.dispute_execute@1, by a party or a member of the panel.          *)
Execute(o) ==
    /\ \E d \in DecisionOf(o) :
          /\ DecisionValid(o, d)
          /\ Escrow!ExecuteDecisions([x \in {o} |-> d.refund])
    /\ cases' = [cases EXCEPT ![o].state = "executed"]
    /\ UNCHANGED <<epochs, panelState, reasons, lost, votes, decisions>>

(* orders.dispute_appeal@1, by a party: one second round, before a panel   *)
(* disjoint from the first.                                                *)
AppealUntil(o) ==
    IF DecisionOf(o) # {} THEN (CHOOSE d \in DecisionOf(o) : TRUE).not_before
    ELSE cases[o].deadlines[0] + AppealSeconds

Appeal(o) ==
    LET c == cases[o]
    IN  /\ AllowAppeal /\ c.round = 0 /\ c.state \in {"decided", "held"}
        /\ now < AppealUntil(o)
        /\ \E panel \in Panels(o, c.panels[0]) :
              cases' = [cases EXCEPT
                          ![o].state = IF AllValid(o, panel) THEN "open" ELSE "held",
                          ![o].round = 1,
                          ![o].deadline = now + CaseTimeout,
                          ![o].panels[1] = panel,
                          ![o].deadlines[1] = now + CaseTimeout]
        /\ UNCHANGED <<market, epochs, panelState, reasons, lost, votes, decisions>>

(* orders.dispute_revoke@1, by one of the decision's voters.               *)
Revoke(o, a) ==
    /\ OnPanel(a, o)
    /\ cases[o].state \in {"decided", "held"}
    /\ \E d \in DecisionOf(o) :
          /\ a \in d.voters
          /\ decisions' = (decisions \ {d}) \cup {[d EXCEPT !.revoked = TRUE]}
    /\ cases' = [cases EXCEPT ![o].state = "held"]
    /\ UNCHANGED <<market, epochs, panelState, reasons, lost, votes>>

-----------------------------------------------------------------------------
(* The worker.  resolve_cases() takes the earliest overdue cases: it holds *)
(* those without a decision and those whose decision is no longer valid,   *)
(* and executes the others, all in one transaction.                        *)

DueCases_Open == {o \in DOMAIN cases :    \* mutant: decided cases wait for a party
                      cases[o].state = "open" /\ cases[o].deadline <= now}
DueCases_All == {o \in DOMAIN cases : cases[o].deadline <= now}    \* mutant

DueCases == {o \in DOMAIN cases : /\ cases[o].state \in {"open", "decided"}
                                  /\ cases[o].deadline <= now}

ResolveCases ==
    \E batch \in (SUBSET DueCases) \ {{}} :
        LET valid    == {d \in decisions : /\ d.order \in batch
                                           /\ cases[d.order].state = "decided"
                                           /\ DecisionValid(d.order, d)}
            executed == {d.order : d \in valid}
        IN  /\ Cardinality(batch) = Limit \/ (batch = DueCases /\ Cardinality(batch) < Limit)
            /\ \A o \in batch, x \in DueCases \ batch : cases[o].deadline <= cases[x].deadline
            /\ \/ executed = {} /\ UNCHANGED market
               \/ /\ executed # {}
                  /\ Escrow!ExecuteDecisions(
                        [o \in executed |-> (CHOOSE d \in valid : d.order = o).refund])
            /\ cases' = [o \in DOMAIN cases |->
                            IF o \notin batch THEN cases[o]
                            ELSE [cases[o] EXCEPT !.state =
                                    IF o \in executed THEN "executed" ELSE "held"]]
            /\ UNCHANGED <<epochs, panelState, reasons, lost, votes, decisions>>

-----------------------------------------------------------------------------
(* Grants, conflicts, keys and storage change under a running case.        *)

(* The operator's console: a regrant is a new epoch.                       *)
Grant(a) ==
    /\ ~roles[a].active /\ roles[a].epoch < MaxEpoch    \* bound
    /\ roles' = [roles EXCEPT ![a] = [epoch |-> @.epoch + 1, active |-> TRUE]]
    /\ UNCHANGED <<market, epochs, keys, conflicts, caseState>>

Withdraw(a) ==
    /\ roles[a].active
    /\ roles' = [roles EXCEPT ![a].active = FALSE]
    /\ UNCHANGED <<market, epochs, keys, conflicts, caseState>>

(* orders.arbitrator_conflict@1                                            *)
DeclareConflict(a, party) ==
    /\ roles[a].active /\ <<a, party>> \notin conflicts
    /\ Cardinality(conflicts) < MaxConflicts    \* bound
    /\ conflicts' = conflicts \cup {<<a, party>>}
    /\ UNCHANGED <<market, epochs, roles, keys, caseState>>

(* The member's credential is revoked and another one issued.              *)
ReplaceKey(a) ==
    /\ keys[a] < MaxKey    \* bound
    /\ keys' = [keys EXCEPT ![a] = @ + 1]
    /\ UNCHANGED <<market, epochs, roles, conflicts, caseState>>

LoseReason(r) ==
    /\ lost' = lost \cup {r}
    /\ UNCHANGED <<market, epochs, panelState, cases, reasons, votes, decisions>>

-----------------------------------------------------------------------------
Init ==
    /\ Escrow!Init
    /\ epochs = <<>> /\ cases = <<>>
    /\ roles = [a \in Candidates |-> [epoch |-> 1, active |-> TRUE]]
    /\ keys = [a \in Candidates |-> 0]
    /\ conflicts = {} /\ reasons = {} /\ lost = {} /\ votes = {} /\ decisions = {}

CaseStep(o) ==
    \/ Execute(o)
    \/ Appeal(o)
    \/ \E a \in Candidates :
        \/ Revoke(o, a)
        \/ \E x \in Rationales :
            \/ PinReason(o, a, x)
            \/ \E refund \in 0 .. orders[o].total : Vote(o, a, refund, x)

PanelStep ==
    \/ \E a \in Candidates :
        \/ Grant(a) \/ Withdraw(a) \/ ReplaceKey(a)
        \/ \E party \in Subjects : DeclareConflict(a, party)
    \/ \E r \in reasons \ lost : LoseReason(r)

Next ==
    \/ MarketStep
    \/ \E o \in DOMAIN orders : OpenCase(o)
    \/ \E o \in DOMAIN cases : CaseStep(o)
    \/ ResolveCases
    \/ PanelStep

Spec == Init /\ [][Next]_vars

(* The worker's loop and the clock, as in OrderEscrow.                     *)
FairSpec == Spec /\ WF_vars(ResolveCases) /\ WF_vars(MarketStep /\ Escrow!Tick)

-----------------------------------------------------------------------------
(* Properties.                                                             *)

(* The market with arbitration is the market of OrderEscrow: a case never  *)
(* moves money except as one settlement of a disputed order.               *)
ImplementsEscrow == Escrow!Spec

(* A case is alive exactly while its order is disputed, and executed only  *)
(* when the order was settled by arbitration: neither the worker nor an    *)
(* appeal can leave the two disagreeing.                                   *)
CaseMatchesOrder ==
    \A o \in DOMAIN orders :
        /\ orders[o].state = "disputed" <=>
              o \in DOMAIN cases /\ cases[o].state # "executed"
        /\ orders[o].reason = "arbitration_decision" <=>
              o \in DOMAIN cases /\ cases[o].state = "executed"

(* A round has at most one decision, taken by exactly the quorum that      *)
(* first agreed, however late or doubled the votes arrive; and no member   *)
(* has two votes in it.                                                    *)
OneDecision ==
    /\ \A d, e \in decisions : d.order = e.order /\ d.round = e.round => d = e
    /\ \A v, w \in votes :
          (v.order = w.order /\ v.round = w.round /\ v.arbitrator = w.arbitrator) => v = w

(* Every decision can be executed: the window between the end of its       *)
(* appeal and its expiry is never empty.                                   *)
DecisionWindow == \A d \in decisions : d.not_before < d.expires_at

(* The panel of an appeal shares nobody with the first, whoever was        *)
(* withdrawn, granted again or in conflict meanwhile.                      *)
PanelsDisjoint ==
    \A o \in DOMAIN cases : cases[o].panels[0] \cap cases[o].panels[1] = {}

(* A candidate may be the buyer of one order and the judge of another; it  *)
(* neither sits on the panel of its own order nor votes on it.             *)
NoPartyJudges ==
    /\ \A o \in DOMAIN cases, k \in Rounds : cases[o].panels[k] \cap Parties(o) = {}
    /\ \A v \in votes : v.arbitrator \notin Parties(v.order)

(* What arbitration paid is what the decision of the case's last round     *)
(* says, signed by a quorum of that round's panel: a decision that was     *)
(* appealed or revoked never pays.                                         *)
PaidAsDecided ==
    \A o \in DOMAIN cases :
        cases[o].state = "executed" =>
            \E d \in DecisionOf(o) :
                /\ ~d.revoked
                /\ orders[o].refund = d.refund
                /\ Cardinality({v \in VotesIn(o, d.round) :
                        /\ v.arbitrator \in d.voters
                        /\ v.refund = d.refund /\ v.rationale = d.rationale}) >= Quorum
                /\ d.voters \subseteq cases[o].panels[d.round]

(* The money of a case moves only on the word of members who at that       *)
(* moment still hold the grant frozen at checkout and the key they signed  *)
(* with, and never while an appeal is still possible.                      *)
ExecutedUnderAuthority ==
    [][\A o \in DOMAIN cases :
          (cases[o].state # "executed" /\ cases'[o].state = "executed") =>
              \E d \in DecisionOf(o) :
                  /\ \A a \in cases[o].panels[d.round] :
                        /\ roles[a].active /\ roles[a].epoch = epochs[o][a]
                        /\ \A party \in Parties(o) : <<a, party>> \notin conflicts
                  /\ \E signed \in SUBSET VotesIn(o, d.round) :
                        /\ {v.arbitrator : v \in signed} = d.voters
                        /\ \A v \in signed : v.key = keys[v.arbitrator]
                  /\ AllowAppeal /\ cases[o].round = 0 => now >= AppealUntil(o)]_vars

(* No case stays open or decided for ever: the worker holds or executes it *)
CaseConcludes ==
    \A o \in Orders :
        (o \in DOMAIN cases /\ cases[o].state \in {"open", "decided"})
        ~> (o \in DOMAIN cases /\ cases[o].state \in {"held", "executed"})

(* A round has one decision, and nobody who has an interest in it voted.   *)
PanelSound == OneDecision /\ NoPartyJudges

(* Panels of one case share no member, and a decision is in force only     *)
(* inside its window.                                                      *)
CasesSound == TypeOK /\ PanelsDisjoint /\ DecisionWindow
=============================================================================
