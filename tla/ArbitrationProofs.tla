------------------------- MODULE ArbitrationProofs -------------------------
(***************************************************************************)
(* Proofs about Arbitration, for any candidates, panel size, quorum (a     *)
(* strict majority), policy, timeouts and batch limit.  What the market    *)
(* does around a case is taken from OrderEscrowProofs.  The invariant says *)
(* of every case who sits on its panels, of every vote who cast it and     *)
(* when, and of every decision which votes it counts.  At the end: Bounty, *)
(* for any claimants, challenges and terms.                                *)
(***************************************************************************)
EXTENDS Arbitration, Bounty, FiniteSetTheorems, WellFoundedInduction, TLAPS

-----------------------------------------------------------------------------
(* Greatest elements.                                                      *)

LEMMA LeastExists ==
    ASSUME NEW S \in SUBSET Nat, S # {}
    PROVE  \E x \in S : \A y \in S : x <= y
  <1> DEFINE R == OpToRel(<, Nat)
  <1>1. IsWellFoundedOn(R, Nat)
    BY NatLessThanWellFounded
  <1>2. R = {ss \in Nat \X Nat : ss[1] < ss[2]}
    BY DEF OpToRel
  <1> HIDE DEF R
  <1>3. PICK x \in S : \A y \in S : <<y, x>> \notin R
    BY <1>1, WFMin
  <1>4. \A y \in S : ~(y < x)
    BY <1>2, <1>3
  <1> QED  BY <1>4

LEMMA GreatestExists ==
    ASSUME NEW S \in SUBSET Nat, S # {}, NEW n \in Nat, \A x \in S : x <= n
    PROVE  Max(S) \in S /\ \A x \in S : x <= Max(S)
  <1> DEFINE T == {n - x : x \in S}
  <1>1. T \in SUBSET Nat
    OBVIOUS
  <1>0. T # {}
    OBVIOUS
  <1>2. PICK y \in T : \A z \in T : y <= z
    BY <1>0, <1>1, LeastExists
  <1>3. PICK x \in S : y = n - x
    BY <1>2
  <1>4. \A z \in S : z <= x
    BY <1>2, <1>3
  <1>5. \E m \in S : \A z \in S : m >= z
    BY <1>4
  <1> QED  BY <1>5 DEF Max

-----------------------------------------------------------------------------
(* The invariant.                                                          *)

(* Nobody sits on the panel of its own order, or on both panels.           *)
PanelsInv ==
    \A o \in DOMAIN cases :
        /\ \A k \in Rounds : cases[o].panels[k] \cap Parties(o) = {}
        /\ cases[o].panels[0] \cap cases[o].panels[1] = {}
        /\ cases[o].round = 0 => cases[o].panels[1] = {}

(* A vote is cast in time by a member of the panel of its round, once.     *)
VotesInv ==
    /\ IsFiniteSet(votes)
    /\ \A v \in votes :
          /\ v.order \in DOMAIN cases
          /\ v.round <= cases[v.order].round
          /\ v.arbitrator \in cases[v.order].panels[v.round]
          /\ v.cast_at < cases[v.order].deadlines[v.round]
    /\ \A v, w \in votes :
          (v.order = w.order /\ v.round = w.round /\ v.arbitrator = w.arbitrator) => v = w

(* The votes decision d counts: a quorum of the panel of its round.        *)
Signed(d) ==
    /\ d.voters \subseteq cases[d.order].panels[d.round]
    /\ Cardinality(d.voters) = Quorum
    /\ \A a \in d.voters : \E v \in VotesIn(d.order, d.round) :
          v.arbitrator = a /\ v.refund = d.refund /\ v.rationale = d.rationale

(* An open round has no decision yet, any other at most one.               *)
DecisionsInv ==
    /\ \A d \in decisions :
          /\ d.order \in DOMAIN cases
          /\ d.round <= cases[d.order].round
          /\ d.round = cases[d.order].round => cases[d.order].state # "open"
          /\ Signed(d)
          /\ d.not_before < d.expires_at
    /\ \A d, e \in decisions : d.order = e.order /\ d.round = e.round => d = e

(* An executed case paid what a decision of its last round says that was   *)
(* not revoked.                                                            *)
PaidInv ==
    \A o \in DOMAIN cases : cases[o].state = "executed" =>
        \E d \in DecisionOf(o) : ~d.revoked /\ orders[o].refund = d.refund

CasesInv ==
    /\ Escrow!IInv
    /\ TypeOK
    /\ CaseMatchesOrder
    /\ PanelsInv
    /\ VotesInv
    /\ DecisionsInv
    /\ PaidInv

-----------------------------------------------------------------------------
(* Steps that leave the panels, votes and decisions of every case alone.   *)

(* The parties to an order are fixed at checkout.                          *)
SameParties ==
    /\ DOMAIN orders \subseteq DOMAIN orders'
    /\ \A o \in DOMAIN orders : orders'[o].buyer = orders[o].buyer
                                /\ orders'[o].listing = orders[o].listing

(* Round and panels stay, and a case is open only if it was.               *)
SameCases ==
    /\ DOMAIN cases' = DOMAIN cases
    /\ \A o \in DOMAIN cases :
          /\ cases'[o].round = cases[o].round
          /\ cases'[o].panels = cases[o].panels
          /\ cases'[o].deadlines = cases[o].deadlines
          /\ cases'[o].state = "open" => cases[o].state = "open"

LEMMA PartiesStay ==
    ASSUME SameParties, NEW o \in DOMAIN orders
    PROVE  Parties(o)' = Parties(o)
  BY DEF SameParties, Parties

LEMMA PanelsStay ==
    ASSUME TypeOK, PanelsInv, SameParties, SameCases
    PROVE  PanelsInv'
  <1> SUFFICES ASSUME NEW o \in DOMAIN cases
               PROVE  /\ \A k \in Rounds : cases'[o].panels[k] \cap Parties(o)' = {}
                      /\ cases'[o].panels[0] \cap cases'[o].panels[1] = {}
                      /\ cases'[o].round = 0 => cases'[o].panels[1] = {}
    BY DEF PanelsInv, SameCases
  <1>1. Parties(o)' = Parties(o)
    BY PartiesStay DEF TypeOK
  <1> QED  BY <1>1 DEF PanelsInv, SameCases

LEMMA VotesStay ==
    ASSUME VotesInv, SameCases, UNCHANGED votes
    PROVE  VotesInv'
  BY DEF VotesInv, SameCases

LEMMA SignedStays ==
    ASSUME NEW d, Signed(d), d.order \in DOMAIN cases, SameCases, votes \subseteq votes'
    PROVE  Signed(d)'
  <1>1. cases'[d.order].panels = cases[d.order].panels
    BY DEF SameCases
  <1>2. VotesIn(d.order, d.round) \subseteq VotesIn(d.order, d.round)'
    BY DEF VotesIn
  <1> QED  BY <1>1, <1>2 DEF Signed

LEMMA DecisionsStay ==
    ASSUME DecisionsInv, SameCases, UNCHANGED <<votes, decisions>>
    PROVE  DecisionsInv'
  <1>1. ASSUME NEW d \in decisions
        PROVE  Signed(d)'
    BY SignedStays DEF DecisionsInv
  <1> QED  BY <1>1 DEF DecisionsInv, SameCases

(* A round and its decision stay, and what was paid stays paid.            *)
LEMMA PaidStays ==
    ASSUME PaidInv, SameCases, UNCHANGED decisions,
           \A o \in DOMAIN cases : cases'[o].state = "executed" =>
              cases[o].state = "executed" /\ orders'[o].refund = orders[o].refund
    PROVE  PaidInv'
  <1> SUFFICES ASSUME NEW o \in DOMAIN cases, cases'[o].state = "executed"
               PROVE  \E d \in DecisionOf(o)' : ~d.revoked /\ orders'[o].refund = d.refund
    BY DEF PaidInv, SameCases
  <1>1. DecisionOf(o)' = DecisionOf(o)
    BY DEF DecisionOf, SameCases
  <1> QED  BY <1>1 DEF PaidInv

LEMMA OrderTyped ==
    ASSUME Escrow!IInv, NEW o \in DOMAIN orders
    PROVE  /\ o \in Orders /\ orders[o].total \in Nat \ {0} /\ orders[o].refund \in Nat
           /\ now \in Nat
  BY EscrowAssumption, Escrow!IInvGood
     DEF Escrow!IInv, Escrow!TypeOK, Escrow!OrderRecord, Escrow!Time, Escrow!ConstantsAssumption

-----------------------------------------------------------------------------
(* The market.                                                             *)

LEMMA MarketEscrow ==
    ASSUME Escrow!IInv, Escrow!MarketStep
    PROVE  /\ Escrow!IInv' /\ Escrow!CasesKept /\ SameParties
           /\ \A o \in DOMAIN orders : orders[o].reason # "none" =>
                 orders'[o].refund = orders[o].refund
  <1>1. Escrow!MarketKept
    BY EscrowAssumption, Escrow!StepKeeps DEF Escrow!Next
  <1>2. Escrow!CasesKept
    BY EscrowAssumption, Escrow!MarketCases
  <1>3. Escrow!IInv' /\ DOMAIN orders \subseteq DOMAIN orders'
    BY <1>1 DEF Escrow!MarketKept, Escrow!IInv
  <1>4. SameParties
    BY <1>2, <1>3 DEF Escrow!CasesKept, Escrow!CaseKept, Escrow!TermsKept, SameParties
  <1> QED  BY <1>1, <1>2, <1>3, <1>4 DEF Escrow!MarketKept, Escrow!Kept

LEMMA MarketKeeps ==
    ASSUME CasesInv, MarketStep
    PROVE  CasesInv'
  <1>1. /\ Escrow!IInv' /\ Escrow!CasesKept /\ SameParties
        /\ \A o \in DOMAIN orders : orders[o].reason # "none" =>
              orders'[o].refund = orders[o].refund
    BY MarketEscrow DEF CasesInv, MarketStep
  <1>2. UNCHANGED <<panelState, caseState>>
    BY DEF MarketStep
  <1>3. SameCases
    BY <1>2 DEF caseState, SameCases
  <1>4. DOMAIN cases \subseteq DOMAIN orders /\ DOMAIN orders \subseteq DOMAIN orders'
    BY <1>1 DEF CasesInv, TypeOK, SameParties
  <1>5. TypeOK'
    <2>1. Snapshot \in [Candidates -> 0 .. MaxEpoch]
      BY PolicyAssumption DEF Snapshot, CasesInv, TypeOK, PolicyAssumption
    <2>2. epochs' \in [DOMAIN orders' -> [Candidates -> 0 .. MaxEpoch]]
      BY <2>1 DEF MarketStep, CasesInv, TypeOK
    <2> QED  BY <1>2, <1>4, <2>2 DEF CasesInv, TypeOK, panelState, caseState
  <1>6. CaseMatchesOrder'
    <2> SUFFICES ASSUME NEW o \in DOMAIN orders'
                 PROVE  /\ orders'[o].state = "disputed" <=>
                              o \in DOMAIN cases /\ cases[o].state # "executed"
                        /\ orders'[o].reason = "arbitration_decision" <=>
                              o \in DOMAIN cases /\ cases[o].state = "executed"
      BY <1>2 DEF CaseMatchesOrder, caseState
    <2>1. CASE o \in DOMAIN orders
      BY <1>1, <2>1 DEF Escrow!CasesKept, Escrow!CaseKept, CasesInv, CaseMatchesOrder
    <2>2. CASE o \notin DOMAIN orders
      BY <1>1, <1>4, <2>2 DEF Escrow!CasesKept, Escrow!NoCase
    <2> QED  BY <2>1, <2>2
  <1>7. PanelsInv' /\ VotesInv' /\ DecisionsInv'
    BY <1>1, <1>2, <1>3, PanelsStay, VotesStay, DecisionsStay DEF CasesInv, caseState
  <1>8. PaidInv'
    <2>1. ASSUME NEW o \in DOMAIN cases, cases'[o].state = "executed"
          PROVE  cases[o].state = "executed" /\ orders'[o].refund = orders[o].refund
      <3>1. cases[o].state = "executed" /\ o \in DOMAIN orders
        BY <1>2, <1>4, <2>1 DEF caseState
      <3>2. orders[o].reason = "arbitration_decision"
        BY <3>1 DEF CasesInv, CaseMatchesOrder
      <3> QED  BY <1>1, <3>1, <3>2
    <2> QED  BY <1>2, <1>3, <2>1, PaidStays DEF CasesInv, caseState
  <1> QED  BY <1>1, <1>5, <1>6, <1>7, <1>8 DEF CasesInv

-----------------------------------------------------------------------------
(* The steps of a case.                                                    *)

(* Members of a panel are no parties: panel_for() asks member_valid().     *)
LEMMA PanelHasNoParty ==
    ASSUME NEW o, NEW excluded, NEW panel \in Panels(o, excluded)
    PROVE  /\ panel \subseteq Candidates /\ panel \cap excluded = {}
           /\ panel \cap Parties(o) = {}
  BY DEF Panels, MemberValid

CaseRecord ==
    [state : CaseStates, round : Rounds, deadline : Nat,
     panels : [Rounds -> SUBSET Candidates], deadlines : [Rounds -> Nat]]

LEMMA CaseTyped ==
    ASSUME TypeOK, NEW o \in DOMAIN cases
    PROVE  cases[o] \in CaseRecord /\ o \in DOMAIN orders
  BY DEF TypeOK, CaseRecord

LEMMA OpenCaseKeeps ==
    ASSUME CasesInv, NEW o \in DOMAIN orders, OpenCase(o)
    PROVE  CasesInv'
  <1> USE DEF CasesInv
  <1>1. Escrow!OpenCase(o)
    BY DEF OpenCase
  <1>2. Escrow!IInv'
    BY <1>1, EscrowAssumption, Escrow!OpenCaseKeeps DEF Escrow!MarketKept, Escrow!IInv
  <1>3. /\ DOMAIN orders' = DOMAIN orders
        /\ \A x \in DOMAIN orders \ {o} : orders'[x] = orders[x]
        /\ orders'[o].buyer = orders[o].buyer /\ orders'[o].listing = orders[o].listing
        /\ orders'[o].state = "disputed" /\ orders'[o].reason = orders[o].reason
        /\ orders[o].state # "disputed" /\ orders[o].reason # "arbitration_decision"
    BY <1>1, EscrowAssumption, Escrow!OpenCaseCases DEF Escrow!TermsKept
  <1>4. SameParties
    BY <1>3 DEF SameParties
  <1>5. UNCHANGED <<epochs, panelState, reasons, lost, votes, decisions>> /\ o \notin DOMAIN cases
    BY DEF OpenCase
  <1>6. PICK panel \in Panels(o, {}) :
          cases' = [x \in DOMAIN cases \cup {o} |->
                      IF x # o THEN cases[x]
                      ELSE [state |-> IF AllValid(o, panel) THEN "open" ELSE "held",
                            round |-> 0,
                            deadline |-> now + CaseTimeout,
                            panels |-> [k \in Rounds |-> IF k = 0 THEN panel ELSE {}],
                            deadlines |-> [k \in Rounds |-> IF k = 0 THEN now + CaseTimeout ELSE 0]]]
    BY DEF OpenCase
  <1>7. /\ panel \subseteq Candidates /\ panel \cap Parties(o) = {}
    BY PanelHasNoParty
  <1>8. now + CaseTimeout \in Nat
    BY OrderTyped, PolicyAssumption DEF PolicyAssumption
  <1>9. /\ DOMAIN cases' = DOMAIN cases \cup {o}
        /\ \A x \in DOMAIN cases : cases'[x] = cases[x]
        /\ cases'[o] \in CaseRecord
        /\ cases'[o].state \in {"open", "held"} /\ cases'[o].round = 0
        /\ cases'[o].panels[0] = panel /\ cases'[o].panels[1] = {}
    BY <1>5, <1>6, <1>7, <1>8 DEF CaseRecord, CaseStates, Rounds
  <1> HIDE DEF CasesInv
  <1>10. TypeOK'
    BY <1>3, <1>5, <1>9 DEF CasesInv, TypeOK, CaseRecord, panelState
  <1>11. CaseMatchesOrder'
    BY <1>3, <1>5, <1>9 DEF CasesInv, CaseMatchesOrder
  <1>12. PanelsInv'
    <2>1. ASSUME NEW x \in DOMAIN cases
          PROVE  /\ \A k \in Rounds : cases'[x].panels[k] \cap Parties(x)' = {}
                 /\ cases'[x].panels[0] \cap cases'[x].panels[1] = {}
                 /\ cases'[x].round = 0 => cases'[x].panels[1] = {}
      <3>1. Parties(x)' = Parties(x)
        BY <1>4, PartiesStay, CaseTyped DEF CasesInv
      <3> QED  BY <1>9, <3>1 DEF CasesInv, PanelsInv
    <2>2. Parties(o)' = Parties(o)
      BY <1>4, PartiesStay
    <2> QED  BY <1>7, <1>9, <2>1, <2>2 DEF PanelsInv, Rounds
  <1>13. VotesInv'
    BY <1>5, <1>9 DEF CasesInv, VotesInv
  <1>14. DecisionsInv'
    <2>1. ASSUME NEW d \in decisions
          PROVE  Signed(d)'
      BY <1>5, <1>9 DEF CasesInv, DecisionsInv, Signed, VotesIn
    <2> QED  BY <1>5, <1>9, <2>1 DEF CasesInv, DecisionsInv
  <1>15. PaidInv'
    <2> SUFFICES ASSUME NEW x \in DOMAIN cases', cases'[x].state = "executed"
                 PROVE  \E d \in DecisionOf(x)' : ~d.revoked /\ orders'[x].refund = d.refund
      BY DEF PaidInv
    <2>1. x \in DOMAIN cases /\ x \in DOMAIN orders \ {o} /\ cases'[x] = cases[x]
      BY <1>5, <1>9, CaseTyped DEF CasesInv
    <2>2. DecisionOf(x)' = DecisionOf(x)
      BY <1>5, <2>1 DEF DecisionOf
    <2> QED  BY <1>3, <2>1, <2>2 DEF CasesInv, PaidInv
  <1> QED  BY <1>2, <1>10, <1>11, <1>12, <1>13, <1>14, <1>15 DEF CasesInv

(* Nothing that leaves the market and the cases alone disturbs the         *)
(* invariant, but for the types of what it does change.                    *)
LEMMA AsideKeeps ==
    ASSUME CasesInv, UNCHANGED <<market, cases, votes, decisions>>, TypeOK'
    PROVE  CasesInv'
  <1>1. SameParties /\ SameCases
    BY DEF market, SameParties, SameCases
  <1>2. Escrow!IInv'
    BY DEF CasesInv, market, Escrow!IInv, Escrow!TypeOK, Escrow!OrdersConsistent
  <1>3. CaseMatchesOrder'
    BY DEF CasesInv, CaseMatchesOrder, market
  <1>4. PaidInv'
    BY <1>1, PaidStays DEF CasesInv, market
  <1> QED
    BY <1>1, <1>2, <1>3, <1>4, PanelsStay, VotesStay, DecisionsStay DEF CasesInv

LEMMA PinReasonKeeps ==
    ASSUME CasesInv, NEW o \in DOMAIN cases, NEW a \in Candidates, NEW x \in Rationales,
           PinReason(o, a, x)
    PROVE  CasesInv'
  <1>1. o \in Orders /\ cases[o].round \in Rounds
    BY CaseTyped, OrderTyped DEF CasesInv, CaseRecord
  <1>2. TypeOK'
    BY <1>1 DEF CasesInv, TypeOK, PinReason, market, panelState
  <1> QED  BY <1>2, AsideKeeps DEF PinReason

LEMMA PanelStepKeeps ==
    ASSUME CasesInv, PanelStep
    PROVE  CasesInv'
  <1>1. UNCHANGED <<market, cases, votes, decisions>>
    BY DEF PanelStep, Grant, Withdraw, DeclareConflict, ReplaceKey, LoseReason, caseState
  <1>2. ASSUME NEW a \in Candidates, Grant(a)
        PROVE  TypeOK'
    <2>1. roles[a].epoch + 1 \in 0 .. MaxEpoch
      BY <1>2, PolicyAssumption DEF Grant, CasesInv, TypeOK, PolicyAssumption
    <2>2. roles' \in [Candidates -> [epoch : 0 .. MaxEpoch, active : BOOLEAN]]
      BY <1>2, <2>1 DEF Grant, CasesInv, TypeOK
    <2> QED  BY <1>2, <2>2 DEF CasesInv, TypeOK, Grant, market, caseState
  <1>3. ASSUME NEW a \in Candidates, Withdraw(a)
        PROVE  TypeOK'
    <2>1. roles' \in [Candidates -> [epoch : 0 .. MaxEpoch, active : BOOLEAN]]
      BY <1>3 DEF Withdraw, CasesInv, TypeOK
    <2> QED  BY <1>3, <2>1 DEF CasesInv, TypeOK, Withdraw, market, caseState
  <1>4. ASSUME NEW a \in Candidates, ReplaceKey(a)
        PROVE  TypeOK'
    <2>1. keys[a] + 1 \in 0 .. MaxKey
      BY <1>4, PolicyAssumption DEF ReplaceKey, CasesInv, TypeOK, PolicyAssumption
    <2>2. keys' \in [Candidates -> 0 .. MaxKey]
      BY <1>4, <2>1 DEF ReplaceKey, CasesInv, TypeOK
    <2> QED  BY <1>4, <2>2 DEF CasesInv, TypeOK, ReplaceKey, market, caseState
  <1>5. ASSUME NEW a \in Candidates, NEW party \in Subjects, DeclareConflict(a, party)
        PROVE  TypeOK'
    BY <1>5 DEF CasesInv, TypeOK, DeclareConflict, market, caseState
  <1>6. ASSUME NEW r \in reasons \ lost, LoseReason(r)
        PROVE  TypeOK'
    BY <1>6 DEF CasesInv, TypeOK, LoseReason, market, panelState
  <1>7. TypeOK'
    BY <1>2, <1>3, <1>4, <1>5, <1>6 DEF PanelStep
  <1> QED  BY <1>1, <1>7, AsideKeeps

-----------------------------------------------------------------------------
(* Execution, of one case by a party or of a batch by the worker.          *)

(* The cases of S are executed with the refunds a decision of their last   *)
(* round allots; no other case becomes executed.                           *)
Executes(S, refund) ==
    /\ S \subseteq DOMAIN cases /\ refund = [o \in S |-> refund[o]]
    /\ \A o \in S : \E d \in DecisionOf(o) : ~d.revoked /\ refund[o] = d.refund
    /\ \/ S = {} /\ UNCHANGED market
       \/ S # {} /\ Escrow!ExecuteDecisions(refund)
    /\ SameCases
    /\ \A o \in DOMAIN cases :
          /\ cases'[o] \in CaseRecord
          /\ cases'[o].state = "executed" <=> (cases[o].state = "executed" \/ o \in S)
    /\ UNCHANGED <<epochs, panelState, reasons, lost, votes, decisions>>

LEMMA ExecutionMarket ==
    ASSUME CasesInv, NEW S, NEW refund, Executes(S, refund)
    PROVE  /\ Escrow!IInv'
           /\ DOMAIN orders' = DOMAIN orders
           /\ \A o \in DOMAIN orders \ S : orders'[o] = orders[o]
           /\ \A o \in S : /\ o \in DOMAIN orders
                           /\ orders'[o].buyer = orders[o].buyer
                           /\ orders'[o].listing = orders[o].listing
                           /\ orders[o].state = "disputed" /\ orders'[o].state # "disputed"
                           /\ orders'[o].reason = "arbitration_decision"
                           /\ orders'[o].refund = refund[o]
                           /\ refund[o] \in 0 .. orders[o].total
  <1>1. S \subseteq DOMAIN orders /\ DOMAIN refund = S
    BY DEF Executes, CasesInv, TypeOK
  <1>2. CASE S = {} /\ UNCHANGED market
    BY <1>2 DEF CasesInv, market, Escrow!IInv, Escrow!TypeOK, Escrow!OrdersConsistent
  <1>3. CASE Escrow!ExecuteDecisions(refund)
    <2>1. Escrow!IInv'
      BY <1>1, <1>3, EscrowAssumption, Escrow!ExecuteKeeps
         DEF CasesInv, Escrow!MarketKept, Escrow!IInv
    <2> QED
      BY <1>1, <1>3, <2>1, EscrowAssumption, Escrow!ExecuteCases DEF CasesInv, Escrow!TermsKept
  <1> QED  BY <1>2, <1>3 DEF Executes

LEMMA ExecutionKeeps ==
    ASSUME CasesInv, NEW S, NEW refund, Executes(S, refund)
    PROVE  CasesInv'
  <1>1. /\ Escrow!IInv'
        /\ DOMAIN orders' = DOMAIN orders
        /\ \A o \in DOMAIN orders \ S : orders'[o] = orders[o]
        /\ \A o \in S : /\ o \in DOMAIN orders
                        /\ orders'[o].buyer = orders[o].buyer
                        /\ orders'[o].listing = orders[o].listing
                        /\ orders[o].state = "disputed" /\ orders'[o].state # "disputed"
                        /\ orders'[o].reason = "arbitration_decision"
                        /\ orders'[o].refund = refund[o]
    BY ExecutionMarket
  <1>2. SameCases /\ UNCHANGED <<epochs, panelState, reasons, lost, votes, decisions>>
    BY DEF Executes
  <1>3. SameParties
    BY <1>1 DEF SameParties
  <1>4. TypeOK'
    BY <1>1, <1>2 DEF Executes, CasesInv, TypeOK, SameCases, CaseRecord, panelState
  <1>5. CaseMatchesOrder'
    <2> SUFFICES ASSUME NEW o \in DOMAIN orders
                 PROVE  /\ orders'[o].state = "disputed" <=>
                              o \in DOMAIN cases' /\ cases'[o].state # "executed"
                        /\ orders'[o].reason = "arbitration_decision" <=>
                              o \in DOMAIN cases' /\ cases'[o].state = "executed"
      BY <1>1 DEF CaseMatchesOrder
    <2>1. CASE o \in S
      BY <1>1, <1>2, <2>1 DEF Executes, SameCases
    <2>2. CASE o \notin S
      BY <1>1, <1>2, <2>2 DEF Executes, SameCases, CasesInv, CaseMatchesOrder
    <2> QED  BY <2>1, <2>2
  <1>6. PanelsInv' /\ VotesInv' /\ DecisionsInv'
    BY <1>2, <1>3, PanelsStay, VotesStay, DecisionsStay DEF CasesInv
  <1>7. PaidInv'
    <2> SUFFICES ASSUME NEW o \in DOMAIN cases, cases'[o].state = "executed"
                 PROVE  \E d \in DecisionOf(o)' : ~d.revoked /\ orders'[o].refund = d.refund
      BY <1>2 DEF PaidInv, SameCases
    <2>1. DecisionOf(o)' = DecisionOf(o)
      BY <1>2 DEF DecisionOf, SameCases
    <2>2. CASE o \in S
      BY <1>1, <2>1, <2>2 DEF Executes
    <2>3. CASE o \notin S
      <3>1. cases[o].state = "executed" /\ o \in DOMAIN orders \ S
        BY <2>3, CaseTyped DEF Executes, CasesInv
      <3> QED  BY <1>1, <2>1, <3>1 DEF CasesInv, PaidInv
    <2> QED  BY <2>2, <2>3
  <1> QED  BY <1>1, <1>4, <1>5, <1>6, <1>7 DEF CasesInv

LEMMA ExecuteExecutes ==
    ASSUME CasesInv, NEW o \in DOMAIN cases, Execute(o)
    PROVE  \E d \in DecisionOf(o) : DecisionValid(o, d) /\ Executes({o}, [x \in {o} |-> d.refund])
  <1>1. PICK d \in DecisionOf(o) :
          DecisionValid(o, d) /\ Escrow!ExecuteDecisions([x \in {o} |-> d.refund])
    BY DEF Execute
  <1>2. UNCHANGED <<epochs, panelState, reasons, lost, votes, decisions>>
    BY DEF Execute
  <1>3. cases' = [cases EXCEPT ![o].state = "executed"]
    BY DEF Execute
  <1>4. ASSUME NEW x \in DOMAIN cases
        PROVE  /\ cases'[x] \in CaseRecord /\ cases'[x].round = cases[x].round
               /\ cases'[x].panels = cases[x].panels /\ cases'[x].deadlines = cases[x].deadlines
               /\ cases'[x].state = IF x = o THEN "executed" ELSE cases[x].state
    BY <1>3, CaseTyped DEF CasesInv, CaseRecord, CaseStates
  <1>5. SameCases
    BY <1>3, <1>4 DEF SameCases
  <1>6. ~d.revoked
    BY <1>1 DEF DecisionValid
  <1>7. Executes({o}, [x \in {o} |-> d.refund])
    BY <1>1, <1>2, <1>4, <1>5, <1>6 DEF Executes
  <1> QED  BY <1>1, <1>7

LEMMA ResolveExecutes ==
    ASSUME CasesInv, ResolveCases
    PROVE  \E S : \E refund :
              /\ Executes(S, refund)
              /\ \A o \in S : \E d \in DecisionOf(o) : DecisionValid(o, d)
  <1>1. PICK batch \in (SUBSET DueCases) \ {{}} :
        LET valid    == {d \in decisions : /\ d.order \in batch
                                           /\ cases[d.order].state = "decided"
                                           /\ DecisionValid(d.order, d)}
            executed == {d.order : d \in valid}
        IN  /\ \/ executed = {} /\ UNCHANGED market
               \/ /\ executed # {}
                  /\ Escrow!ExecuteDecisions(
                        [o \in executed |-> (CHOOSE d \in valid : d.order = o).refund])
            /\ cases' = [o \in DOMAIN cases |->
                            IF o \notin batch THEN cases[o]
                            ELSE [cases[o] EXCEPT !.state =
                                    IF o \in executed THEN "executed" ELSE "held"]]
            /\ UNCHANGED <<epochs, panelState, reasons, lost, votes, decisions>>
    BY DEF ResolveCases
  <1> DEFINE valid == {d \in decisions : /\ d.order \in batch
                                         /\ cases[d.order].state = "decided"
                                         /\ DecisionValid(d.order, d)}
             S == {d.order : d \in valid}
             refund == [o \in S |-> (CHOOSE d \in valid : d.order = o).refund]
  <1>2. /\ (S = {} /\ UNCHANGED market) \/ (S # {} /\ Escrow!ExecuteDecisions(refund))
        /\ cases' = [o \in DOMAIN cases |->
                        IF o \notin batch THEN cases[o]
                        ELSE [cases[o] EXCEPT !.state = IF o \in S THEN "executed" ELSE "held"]]
        /\ UNCHANGED <<epochs, panelState, reasons, lost, votes, decisions>>
    BY <1>1
  <1>3. S \subseteq batch /\ batch \subseteq DOMAIN cases
        /\ \A o \in batch : cases[o].state \in {"open", "decided"}
    BY DEF DueCases
  <1>4. ASSUME NEW o \in S
        PROVE  \E d \in DecisionOf(o) : ~d.revoked /\ refund[o] = d.refund /\ DecisionValid(o, d)
    <2> DEFINE d == CHOOSE d \in valid : d.order = o
    <2>1. d \in valid /\ d.order = o
      OBVIOUS
    <2>2. d \in decisions /\ DecisionValid(o, d)
      BY <2>1
    <2>3. d \in DecisionOf(o) /\ ~d.revoked
      BY <2>1, <2>2 DEF DecisionValid, DecisionOf
    <2> QED  BY <2>2, <2>3
  <1> HIDE DEF S, refund
  <1>5. ASSUME NEW x \in DOMAIN cases
        PROVE  /\ cases'[x] \in CaseRecord /\ cases'[x].round = cases[x].round
               /\ cases'[x].panels = cases[x].panels /\ cases'[x].deadlines = cases[x].deadlines
               /\ cases'[x].state = IF x \in batch
                                    THEN IF x \in S THEN "executed" ELSE "held"
                                    ELSE cases[x].state
    BY <1>2, CaseTyped DEF CasesInv, CaseRecord, CaseStates
  <1>6. DOMAIN cases' = DOMAIN cases
    BY <1>2
  <1>7. SameCases
    BY <1>5, <1>6 DEF SameCases
  <1>8. refund = [o \in S |-> refund[o]]
    BY DEF refund
  <1>9. Executes(S, refund)
    BY <1>2, <1>3, <1>4, <1>5, <1>7, <1>8 DEF Executes
  <1> QED  BY <1>4, <1>9

-----------------------------------------------------------------------------
(* Votes.                                                                  *)

(* As many voters as votes, because nobody has two votes in a round.       *)
LEMMA VotersCounted ==
    ASSUME NEW ballot, IsFiniteSet(ballot),
           \A v, w \in ballot : v.arbitrator = w.arbitrator => v = w
    PROVE  Cardinality({v.arbitrator : v \in ballot}) = Cardinality(ballot)
  <1> DEFINE T == {v.arbitrator : v \in ballot}
             f == [v \in ballot |-> v.arbitrator]
  <1>1. f \in Surjection(ballot, T)
    BY DEF Surjection
  <1>2. f \in Injection(ballot, T)
    BY DEF Injection, IsInjective
  <1> QED  BY <1>1, <1>2, FS_Surjection

(* The vote recorded by Vote, or the one already there, keeps the roll.    *)
LEMMA CastKeepsVotes ==
    ASSUME CasesInv, NEW o \in DOMAIN cases, NEW a \in Candidates,
           NEW refund \in 0 .. orders[o].total, NEW x \in Rationales, Vote(o, a, refund, x)
    PROVE  /\ VotesInv' /\ votes \subseteq votes'
           /\ votes' \subseteq [order : Orders, round : Rounds, arbitrator : Candidates,
                                refund : Nat, rationale : Rationales,
                                key : 0 .. MaxKey, cast_at : Nat]
           /\ UNCHANGED <<market, epochs, panelState, reasons, lost>>
           /\ SameCases
  <1> DEFINE c    == cases[o]
             mine == [order |-> o, round |-> c.round, arbitrator |-> a,
                      refund |-> refund, rationale |-> x, key |-> keys[a], cast_at |-> now]
             earlier == {v \in VotesIn(o, c.round) : v.arbitrator = a}
  <1>1. /\ OnPanel(a, o) /\ Voting(o)
        /\ votes' = IF earlier = {} THEN votes \cup {mine} ELSE votes
        /\ UNCHANGED <<market, epochs, panelState, reasons, lost>>
    BY DEF Vote
  <1>2. c \in CaseRecord /\ o \in Orders /\ now \in Nat /\ orders[o].total \in Nat
    BY CaseTyped, OrderTyped DEF CasesInv
  <1>3. SameCases
    <2>1. CASE UNCHANGED cases
      BY <2>1 DEF SameCases
    <2>2. ASSUME NEW from, cases' = [cases EXCEPT ![o].state = "decided", ![o].deadline = from]
          PROVE  SameCases
      <3>1. \A y \in DOMAIN cases : cases[y] \in CaseRecord
        BY CaseTyped DEF CasesInv
      <3> QED  BY <2>2, <3>1 DEF SameCases, CaseRecord
    <2> QED  BY <2>1, <2>2 DEF Vote
  <1>4. mine \in [order : Orders, round : Rounds, arbitrator : Candidates,
                  refund : Nat, rationale : Rationales, key : 0 .. MaxKey, cast_at : Nat]
    BY <1>2 DEF CaseRecord, CasesInv, TypeOK
  <1>5. /\ mine.order = o /\ mine.round = c.round /\ mine.arbitrator = a /\ mine.cast_at = now
        /\ a \in c.panels[c.round] /\ now < c.deadlines[c.round]
    BY <1>1 DEF OnPanel, Voting
  <1>6. earlier = {} => \A v \in votes : ~(v.order = o /\ v.round = c.round /\ v.arbitrator = a)
    BY DEF VotesIn
  <1> HIDE DEF mine, earlier
  <1>7. votes \subseteq votes' /\ votes' \subseteq votes \cup {mine}
    BY <1>1
  <1>8. IsFiniteSet(votes')
    BY <1>1, FS_AddElement DEF CasesInv, VotesInv
  <1>9. ASSUME NEW v \in votes'
        PROVE  /\ v.order \in DOMAIN cases'
               /\ v.round <= cases'[v.order].round
               /\ v.arbitrator \in cases'[v.order].panels[v.round]
               /\ v.cast_at < cases'[v.order].deadlines[v.round]
    <2>1. CASE v \in votes
      BY <1>3, <2>1 DEF SameCases, CasesInv, VotesInv
    <2>2. CASE v = mine
      BY <1>2, <1>3, <1>5, <2>2 DEF SameCases, CaseRecord, Rounds
    <2> QED  BY <1>7, <2>1, <2>2
  <1>10. ASSUME NEW v \in votes', NEW w \in votes',
                v.order = w.order, v.round = w.round, v.arbitrator = w.arbitrator
         PROVE  v = w
    BY <1>1, <1>5, <1>6, <1>10 DEF CasesInv, VotesInv
  <1>11. VotesInv'
    BY <1>8, <1>9, <1>10 DEF VotesInv
  <1>12. votes' \subseteq [order : Orders, round : Rounds, arbitrator : Candidates,
                           refund : Nat, rationale : Rationales,
                           key : 0 .. MaxKey, cast_at : Nat]
    BY <1>4, <1>7 DEF CasesInv, TypeOK
  <1> QED  BY <1>1, <1>3, <1>7, <1>11, <1>12

LEMMA SumsBelow ==
    ASSUME NEW m \in Nat, NEW n \in Nat, NEW delay \in Nat, NEW life \in Nat,
           m < n, delay < life
    PROVE  m + delay < n + life /\ m + delay \in Nat /\ n + life \in Nat
  OBVIOUS

(* The decision a quorum of matching votes makes counts them, and its      *)
(* window is not empty.                                                    *)
LEMMA QuorumDecides ==
    ASSUME TypeOK, NEW o \in DOMAIN cases,
           NEW roll, IsFiniteSet(roll),
           \A v \in roll : v.order = o /\ v.round = cases[o].round =>
               /\ v.arbitrator \in cases[o].panels[cases[o].round]
               /\ v.cast_at \in Nat /\ v.cast_at < cases[o].deadlines[cases[o].round]
               /\ v.arbitrator \in Candidates,
           \A v, w \in roll :
               (v.order = w.order /\ v.round = w.round /\ v.arbitrator = w.arbitrator) => v = w,
           NEW voters \in SUBSET roll, Cardinality(voters) = Quorum,
           \A v \in voters : v.order = o /\ v.round = cases[o].round,
           NEW from, from = Max({v.cast_at : v \in voters}) + AppealDelay(cases[o].round)
    PROVE  /\ Cardinality({v.arbitrator : v \in voters}) = Quorum
           /\ from < Expiry(o) /\ from \in Nat /\ Expiry(o) \in Nat
           /\ \A v \in voters : /\ v.arbitrator \in cases[o].panels[cases[o].round]
                                /\ v.arbitrator \in Candidates
  <1> DEFINE k == cases[o].round
             D == cases[o].deadlines[k]
             casts == {v.cast_at : v \in voters}
  <1>1. k \in Rounds /\ D \in Nat
    BY CaseTyped DEF CaseRecord
  <1>2. /\ voters \subseteq roll /\ Cardinality(voters) = Quorum
        /\ \A v \in voters : v.order = o /\ v.round = k
    OBVIOUS
  <1>3. IsFiniteSet(voters)
    BY <1>2, FS_Subset
  <1>4. voters # {}
    <2>1. Quorum # 0
      BY PolicyAssumption DEF PolicyAssumption
    <2> QED  BY <1>2, <2>1, FS_EmptySet
  <1>5. \A v \in voters : /\ v.cast_at \in Nat /\ v.cast_at < D
                          /\ v.arbitrator \in cases[o].panels[k] /\ v.arbitrator \in Candidates
    BY <1>2
  <1>6. casts \in SUBSET Nat /\ casts # {} /\ \A t \in casts : t <= D /\ t < D
    BY <1>1, <1>4, <1>5
  <1>7. Max(casts) \in casts
    <2> HIDE DEF casts
    <2> QED  BY <1>1, <1>6, GreatestExists
  <1>8. Max(casts) \in Nat /\ Max(casts) < D
    BY <1>6, <1>7
  <1>9. Cardinality({v.arbitrator : v \in voters}) = Quorum
    <2>1. \A v, w \in voters : v.arbitrator = w.arbitrator => v = w
      BY <1>2
    <2> QED  BY <1>2, <1>3, <2>1, VotersCounted
  <1>11. Expiry(o) = D + DecisionLifetime /\ from = Max(casts) + AppealDelay(k)
    BY DEF Expiry
  <1> HIDE DEF casts, D, k
  <1>12. DecisionLifetime \in Nat \ {0}
    BY PolicyAssumption DEF PolicyAssumption
  <1>14. AppealDelay(k) \in Nat
    BY PolicyAssumption DEF AppealDelay, PolicyAssumption
  <1>15. AppealDelay(k) < DecisionLifetime
    BY <1>12, PolicyAssumption DEF AppealDelay, PolicyAssumption
  <1>16. from < Expiry(o) /\ from \in Nat /\ Expiry(o) \in Nat
    BY <1>1, <1>8, <1>11, <1>12, <1>14, <1>15, SumsBelow
  <1> QED  BY <1>5, <1>9, <1>16 DEF k

LEMMA VoteKeeps ==
    ASSUME CasesInv, NEW o \in DOMAIN cases, NEW a \in Candidates,
           NEW refund \in 0 .. orders[o].total, NEW x \in Rationales, Vote(o, a, refund, x)
    PROVE  CasesInv'
  <1> DEFINE c == cases[o]
             matching == {v \in votes' : /\ v.order = o /\ v.round = c.round
                                         /\ v.refund = refund /\ v.rationale = x}
  <1>1. /\ VotesInv' /\ votes \subseteq votes'
        /\ votes' \subseteq [order : Orders, round : Rounds, arbitrator : Candidates,
                             refund : Nat, rationale : Rationales,
                             key : 0 .. MaxKey, cast_at : Nat]
        /\ UNCHANGED <<market, epochs, panelState, reasons, lost>>
        /\ SameCases
    BY CastKeepsVotes
  <1>2. c \in CaseRecord /\ o \in Orders /\ o \in DOMAIN orders /\ c.state = "open"
    BY CaseTyped, OrderTyped DEF CasesInv, Vote, Voting
  <1>3. SameParties /\ Escrow!IInv'
    BY <1>1 DEF market, SameParties, CasesInv, Escrow!IInv, Escrow!TypeOK, Escrow!OrdersConsistent
  <1>4. PanelsInv'
    BY <1>1, <1>3, PanelsStay DEF CasesInv
  <1>5. ASSUME NEW d \in decisions
        PROVE  Signed(d)'
    BY <1>1, SignedStays DEF CasesInv, DecisionsInv
  <1>6. \/ UNCHANGED <<cases, decisions>>
        \/ \E voters \in kSubset(Quorum, matching) :
              LET from == Max({v.cast_at : v \in voters}) + AppealDelay(c.round)
              IN  /\ decisions' = decisions \cup
                        {[order |-> o, round |-> c.round, refund |-> refund,
                          rationale |-> x, voters |-> {v.arbitrator : v \in voters},
                          not_before |-> from, expires_at |-> Expiry(o), revoked |-> FALSE]}
                  /\ cases' = [cases EXCEPT ![o].state = "decided", ![o].deadline = from]
    <2>1. votes' = IF {v \in VotesIn(o, c.round) : v.arbitrator = a} = {}
                   THEN votes \cup {[order |-> o, round |-> c.round, arbitrator |-> a,
                                     refund |-> refund, rationale |-> x,
                                     key |-> keys[a], cast_at |-> now]}
                   ELSE votes
      BY DEF Vote
    <2> QED  BY <2>1 DEF Vote
  <1>7. CASE UNCHANGED <<cases, decisions>>
    <2>1. TypeOK'
      BY <1>1, <1>7 DEF CasesInv, TypeOK, market, panelState
    <2>2. CaseMatchesOrder' /\ PaidInv'
      BY <1>1, <1>7, PaidStays DEF CasesInv, CaseMatchesOrder, market
    <2>3. DecisionsInv'
      BY <1>5, <1>7 DEF CasesInv, DecisionsInv
    <2> QED  BY <1>1, <1>3, <1>4, <2>1, <2>2, <2>3 DEF CasesInv
  <1>8. ASSUME NEW voters \in kSubset(Quorum, matching), NEW from, NEW d,
               from = Max({v.cast_at : v \in voters}) + AppealDelay(c.round),
               d = [order |-> o, round |-> c.round, refund |-> refund,
                    rationale |-> x, voters |-> {v.arbitrator : v \in voters},
                    not_before |-> from, expires_at |-> Expiry(o), revoked |-> FALSE],
               decisions' = decisions \cup {d},
               cases' = [cases EXCEPT ![o].state = "decided", ![o].deadline = from]
        PROVE  CasesInv'
    <2>1. /\ d.order = o /\ d.round = c.round /\ d.refund = refund /\ d.rationale = x
          /\ d.voters = {v.arbitrator : v \in voters}
          /\ d.not_before = from /\ d.expires_at = Expiry(o) /\ d.revoked = FALSE
      BY <1>8
    <2>2. /\ o \in DOMAIN cases' /\ cases'[o].round = c.round
          /\ cases'[o].deadlines = c.deadlines /\ cases'[o].panels = c.panels
          /\ cases'[o].state = "decided" /\ cases'[o].deadline = from
          /\ \A y \in DOMAIN cases \ {o} : cases'[y] = cases[y]
          /\ DOMAIN cases' = DOMAIN cases
      BY <1>2, <1>8 DEF CaseRecord
    <2>3. /\ Cardinality(d.voters) = Quorum
          /\ from < Expiry(o) /\ from \in Nat /\ Expiry(o) \in Nat
          /\ \A v \in voters : /\ v \in votes' /\ v.order = o /\ v.round = c.round
                               /\ v.refund = refund /\ v.rationale = x
                               /\ v.arbitrator \in c.panels[c.round]
                               /\ v.arbitrator \in Candidates
      <3>1. IsFiniteSet(votes')
        BY <1>1 DEF VotesInv
      <3>2. ASSUME NEW v \in votes', v.order = o, v.round = c.round
            PROVE  /\ v.arbitrator \in c.panels[c.round]
                   /\ v.cast_at \in Nat /\ v.cast_at < c.deadlines[c.round]
                   /\ v.arbitrator \in Candidates
        BY <1>1, <2>2, <3>2 DEF VotesInv
      <3>3. \A v, w \in votes' :
               (v.order = w.order /\ v.round = w.round /\ v.arbitrator = w.arbitrator) => v = w
        BY <1>1 DEF VotesInv
      <3>4. /\ voters \subseteq votes' /\ Cardinality(voters) = Quorum
            /\ \A v \in voters : /\ v.order = o /\ v.round = c.round
                                 /\ v.refund = refund /\ v.rationale = x
        BY <1>8 DEF kSubset
      <3>5. TypeOK /\ from = Max({v.cast_at : v \in voters}) + AppealDelay(c.round)
        BY <1>8 DEF CasesInv
      <3>6. /\ Cardinality({v.arbitrator : v \in voters}) = Quorum
            /\ from < Expiry(o) /\ from \in Nat /\ Expiry(o) \in Nat
            /\ \A v \in voters : /\ v.arbitrator \in c.panels[c.round]
                                 /\ v.arbitrator \in Candidates
        BY <3>1, <3>2, <3>3, <3>4, <3>5, QuorumDecides
      <3> QED  BY <2>1, <3>4, <3>6
    <2>4. Signed(d)'
      <3>1. d.voters \subseteq cases'[o].panels[d.round]
        BY <2>1, <2>2, <2>3
      <3>2. ASSUME NEW y \in d.voters
            PROVE  \E v \in VotesIn(o, d.round)' :
                     v.arbitrator = y /\ v.refund = refund /\ v.rationale = x
        BY <2>1, <2>3 DEF VotesIn
      <3> QED  BY <2>1, <2>3, <3>1, <3>2 DEF Signed
    <2>5. \A e \in decisions : ~(e.order = o /\ e.round = c.round)
      BY <1>2 DEF CasesInv, DecisionsInv
    <2>6. DecisionsInv'
      <3>1. ASSUME NEW e \in decisions'
            PROVE  /\ e.order \in DOMAIN cases'
                   /\ e.round <= cases'[e.order].round
                   /\ e.round = cases'[e.order].round => cases'[e.order].state # "open"
                   /\ Signed(e)'
                   /\ e.not_before < e.expires_at
        <4>1. CASE e = d
          BY <1>2, <2>1, <2>2, <2>3, <2>4, <4>1 DEF CaseRecord, Rounds
        <4>2. CASE e \in decisions
          BY <1>1, <1>5, <4>2 DEF SameCases, CasesInv, DecisionsInv
        <4> QED  BY <1>8, <4>1, <4>2
      <3>2. ASSUME NEW e \in decisions', NEW g \in decisions',
                   e.order = g.order, e.round = g.round
            PROVE  e = g
        BY <1>8, <2>1, <2>5, <3>2 DEF CasesInv, DecisionsInv
      <3> QED  BY <3>1, <3>2 DEF DecisionsInv
    <2>7. TypeOK'
      <3>1. d.voters \subseteq Candidates
        BY <2>1, <2>3
      <3>2. d \in [order : Orders, round : Rounds, refund : Nat, rationale : Rationales,
                   voters : SUBSET Candidates, not_before : Nat, expires_at : Nat,
                   revoked : BOOLEAN]
        <4>1. refund \in Nat
          BY <1>2, OrderTyped DEF CasesInv
        <4> QED  BY <1>2, <1>8, <2>1, <2>3, <3>1, <4>1 DEF CaseRecord
      <3>3. cases'[o] \in CaseRecord
        BY <1>2, <1>8, <2>3 DEF CaseRecord, CaseStates
      <3>4. /\ DOMAIN cases' \subseteq DOMAIN orders'
            /\ \A y \in DOMAIN cases' : cases'[y] \in CaseRecord
        BY <1>1, <2>2, <3>3, CaseTyped DEF CasesInv, market
      <3>5. decisions' \subseteq [order : Orders, round : Rounds, refund : Nat,
                                 rationale : Rationales, voters : SUBSET Candidates,
                                 not_before : Nat, expires_at : Nat, revoked : BOOLEAN]
        BY <1>8, <3>2 DEF CasesInv, TypeOK
      <3> QED  BY <1>1, <3>4, <3>5 DEF CasesInv, TypeOK, CaseRecord, market, panelState
    <2>8. CaseMatchesOrder'
      BY <1>1, <1>2, <2>2 DEF CasesInv, CaseMatchesOrder, market
    <2>9. PaidInv'
      <3> SUFFICES ASSUME NEW y \in DOMAIN cases, cases'[y].state = "executed"
                   PROVE  \E e \in DecisionOf(y)' : ~e.revoked /\ orders'[y].refund = e.refund
        BY <2>2 DEF PaidInv
      <3>1. y # o /\ cases'[y] = cases[y]
        BY <2>2
      <3>2. DecisionOf(y) \subseteq DecisionOf(y)'
        BY <1>8, <3>1 DEF DecisionOf
      <3> QED  BY <1>1, <3>1, <3>2 DEF CasesInv, PaidInv, market
    <2> QED  BY <1>1, <1>3, <1>4, <2>6, <2>7, <2>8, <2>9 DEF CasesInv
  <1> QED  BY <1>6, <1>7, <1>8

-----------------------------------------------------------------------------
(* Appeals and revocations.                                                *)

LEMMA AppealKeeps ==
    ASSUME CasesInv, NEW o \in DOMAIN cases, Appeal(o)
    PROVE  CasesInv'
  <1> DEFINE c == cases[o]
  <1>1. /\ c \in CaseRecord /\ o \in DOMAIN orders /\ now \in Nat
        /\ c.round = 0 /\ c.state \in {"decided", "held"}
        /\ UNCHANGED <<market, epochs, panelState, reasons, lost, votes, decisions>>
    BY CaseTyped, OrderTyped DEF CasesInv, Appeal
  <1>2. PICK panel \in Panels(o, c.panels[0]) :
          cases' = [cases EXCEPT
                      ![o].state = IF AllValid(o, panel) THEN "open" ELSE "held",
                      ![o].round = 1,
                      ![o].deadline = now + CaseTimeout,
                      ![o].panels[1] = panel,
                      ![o].deadlines[1] = now + CaseTimeout]
    BY DEF Appeal
  <1>3. /\ panel \subseteq Candidates /\ panel \cap c.panels[0] = {}
        /\ panel \cap Parties(o) = {}
    BY PanelHasNoParty
  <1>4. now + CaseTimeout \in Nat
    BY <1>1, PolicyAssumption DEF PolicyAssumption
  <1>5. /\ DOMAIN cases' = DOMAIN cases
        /\ \A x \in DOMAIN cases \ {o} : cases'[x] = cases[x]
    BY <1>2
  <1>6. /\ cases'[o] \in CaseRecord
        /\ cases'[o].state \in {"open", "held"} /\ cases'[o].round = 1
        /\ cases'[o].panels[0] = c.panels[0] /\ cases'[o].panels[1] = panel
        /\ cases'[o].deadlines[0] = c.deadlines[0]
    <2> DEFINE p == [c.panels EXCEPT ![1] = panel]
               q == [c.deadlines EXCEPT ![1] = now + CaseTimeout]
               s == IF AllValid(o, panel) THEN "open" ELSE "held"
    <2>1. /\ p \in [Rounds -> SUBSET Candidates] /\ q \in [Rounds -> Nat]
          /\ p[0] = c.panels[0] /\ p[1] = panel /\ q[0] = c.deadlines[0]
      BY <1>1, <1>3, <1>4 DEF CaseRecord, Rounds
    <2>2. s \in {"open", "held"} /\ 1 \in Rounds
      BY DEF Rounds
    <2>3. cases'[o] = [c EXCEPT !.state = s, !.round = 1, !.deadline = now + CaseTimeout,
                                !.panels = p, !.deadlines = q]
      BY <1>1, <1>2 DEF CaseRecord
    <2> HIDE DEF p, q, s
    <2> QED  BY <1>1, <1>4, <2>1, <2>2, <2>3 DEF CaseRecord, CaseStates
  <1>7. SameParties /\ Escrow!IInv'
    BY <1>1 DEF market, SameParties, CasesInv, Escrow!IInv, Escrow!TypeOK, Escrow!OrdersConsistent
  <1>8. TypeOK'
    BY <1>1, <1>5, <1>6, CaseTyped DEF CasesInv, TypeOK, CaseRecord, market, panelState
  <1>9. CaseMatchesOrder'
    BY <1>1, <1>5, <1>6 DEF CasesInv, CaseMatchesOrder, market
  <1>10. PanelsInv'
    <2> SUFFICES ASSUME NEW x \in DOMAIN cases
                 PROVE  /\ \A k \in Rounds : cases'[x].panels[k] \cap Parties(x)' = {}
                        /\ cases'[x].panels[0] \cap cases'[x].panels[1] = {}
                        /\ cases'[x].round = 0 => cases'[x].panels[1] = {}
      BY <1>5 DEF PanelsInv
    <2>1. Parties(x)' = Parties(x)
      BY <1>7, PartiesStay, CaseTyped DEF CasesInv
    <2>2. CASE x = o
      BY <1>3, <1>6, <2>1, <2>2 DEF CasesInv, PanelsInv, Rounds
    <2>3. CASE x # o
      BY <1>5, <2>1, <2>3 DEF CasesInv, PanelsInv
    <2> QED  BY <2>2, <2>3
  <1>11. ASSUME NEW k \in Rounds, k <= 0
         PROVE  k = 0
    BY <1>11 DEF Rounds
  <1>12. VotesInv'
    <2>1. ASSUME NEW v \in votes
          PROVE  /\ v.order \in DOMAIN cases'
                 /\ v.round <= cases'[v.order].round
                 /\ v.arbitrator \in cases'[v.order].panels[v.round]
                 /\ v.cast_at < cases'[v.order].deadlines[v.round]
      <3>1. CASE v.order = o
        <4>1. v.round \in Rounds
          BY DEF CasesInv, TypeOK
        <4>2. v.round <= c.round
          BY <3>1 DEF CasesInv, VotesInv
        <4>3. v.round = 0
          BY <1>1, <1>11, <4>1, <4>2
        <4> QED  BY <1>5, <1>6, <3>1, <4>3 DEF CasesInv, VotesInv
      <3>2. CASE v.order # o
        BY <1>5, <3>2 DEF CasesInv, VotesInv
      <3> QED  BY <3>1, <3>2
    <2> QED  BY <1>1, <2>1 DEF CasesInv, VotesInv
  <1>13. DecisionsInv'
    <2>1. ASSUME NEW d \in decisions
          PROVE  /\ d.order \in DOMAIN cases'
                 /\ d.round <= cases'[d.order].round
                 /\ d.round = cases'[d.order].round => cases'[d.order].state # "open"
                 /\ Signed(d)'
      <3>1. VotesIn(d.order, d.round)' = VotesIn(d.order, d.round)
        BY <1>1 DEF VotesIn
      <3>2. CASE d.order = o
        <4>1. d.round \in Rounds
          BY DEF CasesInv, TypeOK
        <4>2. d.round <= c.round
          BY <3>2 DEF CasesInv, DecisionsInv
        <4>3. d.round = 0
          BY <1>1, <1>11, <4>1, <4>2
        <4> QED  BY <1>5, <1>6, <3>1, <3>2, <4>3 DEF CasesInv, DecisionsInv, Signed
      <3>3. CASE d.order # o
        BY <1>5, <3>1, <3>3 DEF CasesInv, DecisionsInv, Signed
      <3> QED  BY <3>2, <3>3
    <2> QED  BY <1>1, <2>1 DEF CasesInv, DecisionsInv
  <1>14. PaidInv'
    <2> SUFFICES ASSUME NEW x \in DOMAIN cases, cases'[x].state = "executed"
                 PROVE  \E d \in DecisionOf(x)' : ~d.revoked /\ orders'[x].refund = d.refund
      BY <1>5 DEF PaidInv
    <2>1. x # o /\ cases'[x] = cases[x]
      BY <1>5, <1>6
    <2>2. DecisionOf(x)' = DecisionOf(x)
      BY <1>1, <2>1 DEF DecisionOf
    <2> QED  BY <1>1, <2>1, <2>2 DEF CasesInv, PaidInv, market
  <1> QED  BY <1>7, <1>8, <1>9, <1>10, <1>12, <1>13, <1>14 DEF CasesInv

LEMMA RevokeKeeps ==
    ASSUME CasesInv, NEW o \in DOMAIN cases, NEW a \in Candidates, Revoke(o, a)
    PROVE  CasesInv'
  <1> DEFINE c == cases[o]
  <1>1. /\ c \in CaseRecord /\ o \in DOMAIN orders /\ c.state \in {"decided", "held"}
        /\ cases' = [cases EXCEPT ![o].state = "held"]
        /\ UNCHANGED <<market, epochs, panelState, reasons, lost, votes>>
    BY CaseTyped DEF CasesInv, Revoke
  <1>2. PICK d \in DecisionOf(o) :
          decisions' = (decisions \ {d}) \cup {[d EXCEPT !.revoked = TRUE]}
    BY DEF Revoke
  <1>3. PICK e : e = [d EXCEPT !.revoked = TRUE]
    OBVIOUS
  <1>4. /\ d \in decisions /\ d.order = o
        /\ d \in [order : Orders, round : Rounds, refund : Nat, rationale : Rationales,
                  voters : SUBSET Candidates, not_before : Nat, expires_at : Nat,
                  revoked : BOOLEAN]
    BY <1>2 DEF DecisionOf, CasesInv, TypeOK
  <1>5. /\ e \in [order : Orders, round : Rounds, refund : Nat, rationale : Rationales,
                  voters : SUBSET Candidates, not_before : Nat, expires_at : Nat,
                  revoked : BOOLEAN]
        /\ e.order = d.order /\ e.round = d.round /\ e.refund = d.refund
        /\ e.rationale = d.rationale /\ e.voters = d.voters
        /\ e.not_before = d.not_before /\ e.expires_at = d.expires_at
    BY <1>3, <1>4
  <1>6. /\ DOMAIN cases' = DOMAIN cases
        /\ \A x \in DOMAIN cases \ {o} : cases'[x] = cases[x]
        /\ cases'[o] \in CaseRecord /\ cases'[o].state = "held"
        /\ cases'[o].round = c.round /\ cases'[o].panels = c.panels
        /\ cases'[o].deadlines = c.deadlines
    BY <1>1 DEF CaseRecord, CaseStates
  <1>7. SameCases
    BY <1>6 DEF SameCases
  <1>8. SameParties /\ Escrow!IInv'
    BY <1>1 DEF market, SameParties, CasesInv, Escrow!IInv, Escrow!TypeOK, Escrow!OrdersConsistent
  <1>9. TypeOK'
    BY <1>1, <1>2, <1>3, <1>5, <1>6, CaseTyped
       DEF CasesInv, TypeOK, CaseRecord, market, panelState
  <1>10. CaseMatchesOrder'
    BY <1>1, <1>6 DEF CasesInv, CaseMatchesOrder, market
  <1>11. PanelsInv' /\ VotesInv'
    BY <1>1, <1>7, <1>8, PanelsStay, VotesStay DEF CasesInv
  <1>12. DecisionsInv'
    <2>1. ASSUME NEW g \in decisions
          PROVE  Signed(g)'
      BY <1>1, <1>7, SignedStays DEF CasesInv, DecisionsInv
    <2>2. Signed(e)'
      BY <1>4, <1>5, <2>1 DEF Signed, VotesIn
    <2>3. ASSUME NEW g \in decisions'
          PROVE  /\ g.order \in DOMAIN cases'
                 /\ g.round <= cases'[g.order].round
                 /\ g.round = cases'[g.order].round => cases'[g.order].state # "open"
                 /\ Signed(g)'
                 /\ g.not_before < g.expires_at
      <3>1. CASE g = e
        BY <1>4, <1>5, <1>6, <1>7, <2>2, <3>1 DEF CasesInv, DecisionsInv
      <3>2. CASE g \in decisions
        BY <1>7, <2>1, <3>2 DEF CasesInv, DecisionsInv, SameCases
      <3> QED  BY <1>2, <1>3, <3>1, <3>2
    <2>4. ASSUME NEW g \in decisions', NEW h \in decisions', g.order = h.order, g.round = h.round
          PROVE  g = h
      <3>1. \A x, y \in decisions : x.order = y.order /\ x.round = y.round => x = y
        BY DEF CasesInv, DecisionsInv
      <3>2. \A x \in decisions' : x = e \/ (x \in decisions /\ x # d)
        BY <1>2, <1>3
      <3> QED  BY <1>4, <1>5, <2>4, <3>1, <3>2
    <2> QED  BY <2>3, <2>4 DEF DecisionsInv
  <1>13. PaidInv'
    <2> SUFFICES ASSUME NEW x \in DOMAIN cases, cases'[x].state = "executed"
                 PROVE  \E g \in DecisionOf(x)' : ~g.revoked /\ orders'[x].refund = g.refund
      BY <1>6 DEF PaidInv
    <2>1. x # o /\ cases'[x] = cases[x]
      BY <1>6
    <2>2. DecisionOf(x) \subseteq DecisionOf(x)'
      BY <1>2, <1>4, <2>1 DEF DecisionOf
    <2> QED  BY <1>1, <2>1, <2>2 DEF CasesInv, PaidInv, market
  <1> QED  BY <1>8, <1>9, <1>10, <1>11, <1>12, <1>13 DEF CasesInv

-----------------------------------------------------------------------------
(* The theorems.                                                           *)

LEMMA InitCasesInv == Init => CasesInv
  <1> SUFFICES ASSUME Init PROVE CasesInv
    OBVIOUS
  <1>1. Escrow!IInv
    BY EscrowAssumption, Escrow!InitIInv DEF Init
  <1>2. DOMAIN orders = {} /\ DOMAIN cases = {} /\ DOMAIN epochs = {}
    BY DEF Init, Escrow!Init
  <1>3. TypeOK
    BY <1>2, PolicyAssumption DEF Init, TypeOK, PolicyAssumption, Escrow!Init
  <1> QED
    BY <1>1, <1>2, <1>3, FS_EmptySet
       DEF Init, CasesInv, CaseMatchesOrder, PanelsInv, VotesInv, DecisionsInv, PaidInv

LEMMA CaseStepKeeps ==
    ASSUME CasesInv, NEW o \in DOMAIN cases, CaseStep(o)
    PROVE  CasesInv'
  <1>1. CASE Execute(o)
    BY <1>1, ExecuteExecutes, ExecutionKeeps
  <1> QED
    BY <1>1, AppealKeeps, RevokeKeeps, PinReasonKeeps, VoteKeeps DEF CaseStep

LEMMA NextCasesInv == CasesInv /\ [Next]_vars => CasesInv'
  <1> SUFFICES ASSUME CasesInv, [Next]_vars PROVE CasesInv'
    OBVIOUS
  <1>1. CASE ResolveCases
    BY <1>1, ResolveExecutes, ExecutionKeeps
  <1>2. CASE UNCHANGED vars
    <2>1. TypeOK'
      BY <1>2 DEF CasesInv, TypeOK, vars, market, panelState, caseState
    <2> QED  BY <1>2, <2>1, AsideKeeps DEF vars, market, caseState
  <1> QED
    BY <1>1, <1>2, MarketKeeps, OpenCaseKeeps, CaseStepKeeps, PanelStepKeeps DEF Next

(* Who sits on every panel, who voted when, and which votes a decision     *)
(* counts, at every commit.                                                *)
THEOREM CasesInvariant == Spec => []CasesInv
  BY InitCasesInv, NextCasesInv, PTL DEF Spec

(* member_valid() and panel_for(): nobody judges its own order, a member   *)
(* votes once in a round, and the round is decided once.                   *)
THEOREM PanelAlwaysSound == Spec => []PanelSound
  <1>1. CasesInv => PanelSound
    <2> SUFFICES ASSUME CasesInv PROVE PanelSound
      OBVIOUS
    <2>1. OneDecision
      BY DEF CasesInv, VotesInv, DecisionsInv, OneDecision
    <2>2. \A v \in votes : v.arbitrator \notin Parties(v.order)
      BY DEF CasesInv, TypeOK, PanelsInv, VotesInv
    <2> QED  BY <2>1, <2>2 DEF PanelSound, NoPartyJudges, CasesInv, PanelsInv
  <1> QED  BY <1>1, CasesInvariant, PTL

(* The panel of an appeal is new, and every decision leaves time between   *)
(* the end of its appeal and its expiry to execute it.                     *)
THEOREM CasesAlwaysSound == Spec => []CasesSound
  <1>1. CasesInv => CasesSound
    BY DEF CasesInv, PanelsInv, DecisionsInv, CasesSound, PanelsDisjoint, DecisionWindow
  <1> QED  BY <1>1, CasesInvariant, PTL

(* execute() and the worker leave order and case in agreement: a case is   *)
(* alive as long as its order is disputed.                                 *)
THEOREM CasesMatchOrders == Spec => []CaseMatchesOrder
  <1>1. CasesInv => CaseMatchesOrder
    BY DEF CasesInv
  <1> QED  BY <1>1, CasesInvariant, PTL

(* Arbitration pays what an unrevoked decision of the last round says that *)
(* a quorum of its panel voted for.                                        *)
THEOREM PaidByDecision == Spec => []PaidAsDecided
  <1>1. CasesInv => PaidAsDecided
    <2> SUFFICES ASSUME CasesInv, NEW o \in DOMAIN cases, cases[o].state = "executed"
                 PROVE  \E d \in DecisionOf(o) :
                           /\ ~d.revoked
                           /\ orders[o].refund = d.refund
                           /\ Cardinality({v \in VotesIn(o, d.round) :
                                   /\ v.arbitrator \in d.voters
                                   /\ v.refund = d.refund /\ v.rationale = d.rationale}) >= Quorum
                           /\ d.voters \subseteq cases[o].panels[d.round]
      BY DEF PaidAsDecided
    <2>1. PICK d \in DecisionOf(o) : ~d.revoked /\ orders[o].refund = d.refund
      BY DEF CasesInv, PaidInv
    <2>2. d \in decisions /\ d.order = o /\ Signed(d)
      BY DEF DecisionOf, CasesInv, DecisionsInv
    <2> DEFINE ballot == {v \in VotesIn(o, d.round) :
                            /\ v.arbitrator \in d.voters
                            /\ v.refund = d.refund /\ v.rationale = d.rationale}
    <2>3. ballot \in SUBSET votes /\ \A v \in ballot : v.order = o /\ v.round = d.round
      BY DEF VotesIn
    <2>4. IsFiniteSet(ballot)
      BY <2>3, FS_Subset DEF CasesInv, VotesInv
    <2>5. {v.arbitrator : v \in ballot} = d.voters
      <3>1. \A a \in d.voters : \E v \in ballot : v.arbitrator = a
        BY <2>2 DEF Signed
      <3> QED  BY <3>1
    <2>6. \A v, w \in ballot : v.arbitrator = w.arbitrator => v = w
      BY <2>3 DEF CasesInv, VotesInv
    <2> HIDE DEF ballot
    <2>7. Cardinality(ballot) = Quorum
      BY <2>2, <2>4, <2>5, <2>6, VotersCounted DEF Signed
    <2>8. Cardinality(ballot) >= Quorum
      BY <2>7, PolicyAssumption DEF PolicyAssumption
    <2> QED  BY <2>1, <2>2, <2>8 DEF ballot, Signed
  <1> QED  BY <1>1, CasesInvariant, PTL

(* validate_decision() repeats every check when the money moves: each      *)
(* member of the panel still holds the grant frozen at checkout, each      *)
(* voter the key it signed with, and no appeal is possible any more.       *)
LEMMA ValidHasAuthority ==
    ASSUME CasesInv, NEW o \in DOMAIN cases, NEW d \in DecisionOf(o), DecisionValid(o, d)
    PROVE  /\ \A a \in cases[o].panels[d.round] :
                 /\ roles[a].active /\ roles[a].epoch = epochs[o][a]
                 /\ \A party \in Parties(o) : <<a, party>> \notin conflicts
           /\ \E signed \in SUBSET VotesIn(o, d.round) :
                 /\ {v.arbitrator : v \in signed} = d.voters
                 /\ \A v \in signed : v.key = keys[v.arbitrator]
           /\ AllowAppeal /\ cases[o].round = 0 => now >= AppealUntil(o)
  <1>1. \A a \in cases[o].panels[d.round] :
          /\ roles[a].active /\ roles[a].epoch = epochs[o][a]
          /\ \A party \in Parties(o) : <<a, party>> \notin conflicts
    BY DEF DecisionValid, PanelValid, AllValid, MemberValid
  <1>2. \E signed \in SUBSET VotesIn(o, d.round) :
           /\ {v.arbitrator : v \in signed} = d.voters
           /\ \A v \in signed : v.key = keys[v.arbitrator]
    <2> DEFINE signed == {v \in VotesIn(o, d.round) :
                            v.arbitrator \in d.voters /\ VoteVerified(v)}
    <2>1. \A a \in d.voters : \E v \in signed : v.arbitrator = a
      BY DEF DecisionValid
    <2>2. {v.arbitrator : v \in signed} = d.voters
      BY <2>1
    <2>3. \A v \in signed : v.key = keys[v.arbitrator]
      BY DEF VoteVerified
    <2> QED  BY <2>2, <2>3
  <1>3. AppealUntil(o) = d.not_before
    <2>1. \A e \in DecisionOf(o) : e = d
      BY DEF DecisionOf, CasesInv, DecisionsInv
    <2> QED  BY <2>1 DEF AppealUntil
  <1>4. now \in Nat /\ d.not_before \in Nat /\ d.not_before <= now
    BY CaseTyped, OrderTyped DEF DecisionValid, DecisionOf, CasesInv, TypeOK
  <1> QED  BY <1>1, <1>2, <1>3, <1>4

(* Money moves only on the authority that is in force at that moment.      *)
THEOREM AlwaysUnderAuthority == Spec => ExecutedUnderAuthority
  <1> DEFINE Authority(o) ==
        \E d \in DecisionOf(o) :
            /\ \A a \in cases[o].panels[d.round] :
                  /\ roles[a].active /\ roles[a].epoch = epochs[o][a]
                  /\ \A party \in Parties(o) : <<a, party>> \notin conflicts
            /\ \E signed \in SUBSET VotesIn(o, d.round) :
                  /\ {v.arbitrator : v \in signed} = d.voters
                  /\ \A v \in signed : v.key = keys[v.arbitrator]
            /\ AllowAppeal /\ cases[o].round = 0 => now >= AppealUntil(o)
  <1>1. ASSUME CasesInv, [Next]_vars, NEW o \in DOMAIN cases,
               cases[o].state # "executed", cases'[o].state = "executed"
        PROVE  Authority(o)
    <2>1. ASSUME NEW x \in DOMAIN cases, Execute(x)
          PROVE  Authority(o)
      <3>1. PICK d \in DecisionOf(x) :
              DecisionValid(x, d) /\ Executes({x}, [y \in {x} |-> d.refund])
        BY <1>1, <2>1, ExecuteExecutes
      <3>2. o = x
        BY <1>1, <3>1 DEF Executes
      <3> QED  BY <3>1, <3>2, ValidHasAuthority, <1>1
    <2>2. CASE ResolveCases
      <3>1. PICK S, refund : /\ Executes(S, refund)
                             /\ \A x \in S : \E d \in DecisionOf(x) : DecisionValid(x, d)
        BY <1>1, <2>2, ResolveExecutes
      <3>2. o \in S
        BY <1>1, <3>1 DEF Executes
      <3> QED  BY <3>1, <3>2, ValidHasAuthority, <1>1
    <2>3. cases[o] \in CaseRecord
      BY <1>1, CaseTyped DEF CasesInv
    <2>4. ASSUME NEW x \in DOMAIN cases, Appeal(x) \/ (\E a \in Candidates : Revoke(x, a))
          PROVE  FALSE
      <3>1. CASE x # o
        BY <1>1, <2>4, <3>1 DEF Appeal, Revoke
      <3>2. CASE x = o
        <4>1. CASE Appeal(o)
          <5>1. PICK panel : cases' = [cases EXCEPT
                      ![o].state = IF AllValid(o, panel) THEN "open" ELSE "held",
                      ![o].round = 1,
                      ![o].deadline = now + CaseTimeout,
                      ![o].panels[1] = panel,
                      ![o].deadlines[1] = now + CaseTimeout]
            BY <4>1 DEF Appeal
          <5>2. cases'[o].state = IF AllValid(o, panel) THEN "open" ELSE "held"
            BY <2>3, <5>1 DEF CaseRecord
          <5> QED  BY <1>1, <5>2
        <4>2. CASE \E a \in Candidates : Revoke(o, a)
          BY <1>1, <2>3, <4>2 DEF Revoke, CaseRecord
        <4> QED  BY <2>4, <3>2, <4>1, <4>2
      <3> QED  BY <3>1, <3>2
    <2>5. ASSUME NEW x \in DOMAIN cases, NEW a \in Candidates, NEW y \in Rationales,
                 NEW refund \in 0 .. orders[x].total, Vote(x, a, refund, y)
          PROVE  FALSE
      <3>1. CASE UNCHANGED cases
        BY <1>1, <3>1
      <3>2. ASSUME NEW from, cases' = [cases EXCEPT ![x].state = "decided", ![x].deadline = from]
            PROVE  FALSE
        BY <1>1, <2>3, <3>2 DEF CaseRecord
      <3> QED  BY <2>5, <3>1, <3>2 DEF Vote
    <2>6. ASSUME UNCHANGED cases
          PROVE  FALSE
      BY <1>1, <2>6
    <2>7. ASSUME NEW x \in DOMAIN orders, OpenCase(x)
          PROVE  FALSE
      BY <1>1, <2>7 DEF OpenCase
    <2>8. CASE \E x \in DOMAIN cases : CaseStep(x)
      <3>1. PICK x \in DOMAIN cases : CaseStep(x)
        BY <2>8
      <3>2. ASSUME NEW a \in Candidates, NEW y \in Rationales, PinReason(x, a, y)
            PROVE  FALSE
        BY <2>6, <3>2 DEF PinReason
      <3> QED  BY <2>1, <2>4, <2>5, <3>1, <3>2 DEF CaseStep
    <2>9. CASE MarketStep \/ PanelStep \/ UNCHANGED vars
      BY <2>6, <2>9 DEF MarketStep, PanelStep, Grant, Withdraw, DeclareConflict, ReplaceKey,
                        LoseReason, caseState, vars
    <2> QED  BY <1>1, <2>2, <2>7, <2>8, <2>9 DEF Next
  <1>2. CasesInv /\ [Next]_vars =>
          \A o \in DOMAIN cases :
             (cases[o].state # "executed" /\ cases'[o].state = "executed") => Authority(o)
    BY <1>1
  <1> QED  BY <1>2, CasesInvariant, PTL DEF Spec, ExecutedUnderAuthority

(* The market with its cases is the market of OrderEscrow, whatever the    *)
(* panels do: a case moves money only as the settlement of its order.      *)
THEOREM EscrowImplemented == Spec => ImplementsEscrow
  <1>1. Init => Escrow!Init
    BY DEF Init
  <1>2. CasesInv /\ [Next]_vars => [Escrow!Next]_(Escrow!vars)
    <2> SUFFICES ASSUME CasesInv, [Next]_vars
                 PROVE  Escrow!Next \/ UNCHANGED market
      BY DEF market, Escrow!vars
    <2>1. ASSUME NEW S, NEW refund, Executes(S, refund)
          PROVE  Escrow!Next \/ UNCHANGED market
      <3>1. CASE S = {} /\ UNCHANGED market
        BY <3>1
      <3>2. CASE S # {} /\ Escrow!ExecuteDecisions(refund)
        <4>1. S \in (SUBSET DOMAIN orders) \ {{}}
          BY <2>1, <3>2 DEF Executes, CasesInv, TypeOK
        <4>2. \A o \in S : refund[o] \in 0 .. orders[o].total
          BY <2>1, ExecutionMarket
        <4>3. refund = [o \in S |-> refund[o]]
          BY <2>1 DEF Executes
        <4>4. refund \in [S -> UNION {0 .. orders[o].total : o \in S}]
          BY <4>2, <4>3
        <4> QED  BY <3>2, <4>1, <4>4 DEF Escrow!Next, Escrow!DisputeStep
      <3> QED  BY <2>1, <3>1, <3>2 DEF Executes
    <2>2. ASSUME NEW o \in DOMAIN cases, CaseStep(o)
          PROVE  Escrow!Next \/ UNCHANGED market
      <3>1. CASE Execute(o)
        BY <2>1, <3>1, ExecuteExecutes
      <3>2. CASE ~Execute(o)
        BY <2>2, <3>2 DEF CaseStep, Appeal, Revoke, PinReason, Vote
      <3> QED  BY <3>1, <3>2
    <2>3. CASE ResolveCases
      BY <2>1, <2>3, ResolveExecutes
    <2>4. CASE MarketStep \/ \E o \in DOMAIN orders : OpenCase(o)
      BY <2>4 DEF MarketStep, OpenCase, Escrow!Next, Escrow!DisputeStep
    <2>5. CASE PanelStep \/ UNCHANGED vars
      BY <2>5 DEF PanelStep, Grant, Withdraw, DeclareConflict, ReplaceKey, LoseReason, vars
    <2> QED  BY <2>2, <2>3, <2>4, <2>5 DEF Next
  <1> QED  BY <1>1, <1>2, CasesInvariant, PTL DEF Spec, ImplementsEscrow, Escrow!Spec

-----------------------------------------------------------------------------
(* BountySound for every number of claimants, challenges and terms.  To be     *)
(* inductive it needs to know that nothing was paid before the listing was     *)
(* published, and nothing refunded before it was closed.                       *)
NothingEarly ==
    /\ listing.state = "none" => Consumed = {} /\ escrow = 0 /\ listing.budget = 0
    /\ listing.state # "closed" => listing.refunded = 0

(* Only a paused listing has been paused.                                      *)
PausedByPublisher == listing.reason = "publisher_paused" => listing.state = "paused"

BountyInv == BountyTyped /\ BountySound /\ NothingEarly

(* The challenges of one claimant that were paid.                              *)
PaidTo(a) == {c \in Consumed : challenge[c].claimant = a}

(* The terms a listing may be published with.                                *)
LEMMA TermsTyped ==
    ASSUME BountyAssumption, NEW t \in Terms
    PROVE  /\ t.reward \in Nat \ {0} /\ t.max \in Nat \ {0} /\ t.limit \in Nat \ {0}
           /\ t.expires \in Nat /\ t.for \subseteq Accounts
  BY DEF BountyAssumption, BountyTerms

(* Payments can be counted.                                                  *)
LEMMA ConsumedFinite ==
    ASSUME BountyAssumption
    PROVE  /\ IsFiniteSet(Consumed) /\ Paid \in Nat
           /\ \A a : IsFiniteSet(PaidTo(a)) /\ Cardinality(PaidTo(a)) \in Nat
  <1>1. IsFiniteSet(Slots)
    BY FS_Interval DEF Slots, BountyAssumption
  <1>2. IsFiniteSet(Consumed)
    BY <1>1, FS_Subset DEF Consumed
  <1>3. \A a : IsFiniteSet(PaidTo(a))
    BY <1>2, FS_Subset DEF PaidTo
  <1> QED
    BY <1>2, <1>3, FS_CardinalityType DEF Paid

(* Before anything is published.                                             *)
LEMMA BountyInit == ASSUME BountyAssumption, InitBounty PROVE BountyInv
  <1>1. (CHOOSE t \in Terms : TRUE) \in Terms
    BY DEF BountyAssumption
  <1>2. BountyTyped
    BY <1>1 DEF BountyAssumption, InitBounty, BountyTyped, Unpublished, NoChallenge, Accounts
  <1>3. Consumed = {} /\ \A a : PaidTo(a) = {}
    BY DEF InitBounty, NoChallenge, Consumed, PaidTo
  <1>4. Paid = 0 /\ \A a : Cardinality(PaidTo(a)) = 0
    BY <1>3, FS_EmptySet DEF Paid
  <1>5. Reward \in Nat
    BY <1>1, TermsTyped DEF InitBounty, Unpublished, Reward
  <1>6. BudgetAccounted
    BY <1>4, <1>5 DEF InitBounty, Unpublished, BudgetAccounted
  <1>7. LimitsHold
    BY <1>1, <1>4, TermsTyped DEF InitBounty, Unpublished, LimitsHold, PaidTo
  <1>8. OfferCovered /\ NothingEarly
    BY <1>3 DEF InitBounty, Unpublished, OfferCovered, NothingEarly
  <1> QED
    BY <1>2, <1>6, <1>7, <1>8 DEF BountyInv, BountySound

(* While no challenge is consumed, and no claim counted, nothing that is paid  *)
(* changes.                                                                    *)
LEMMA PaidKept ==
    ASSUME NEW SetOfSlots, Slots = SetOfSlots,
           \A c \in Slots : challenge'[c] = challenge[c]
                            \/ (challenge[c].state # "consumed" /\ challenge'[c].state # "consumed")
    PROVE  /\ Consumed' = Consumed /\ Paid' = Paid
           /\ \A a : PaidTo(a)' = PaidTo(a)
  <1>1. Consumed' = Consumed
    BY DEF Consumed
  <1>2. \A c \in Consumed : challenge'[c] = challenge[c]
    BY DEF Consumed
  <1>3. \A a : PaidTo(a)' = PaidTo(a)
    BY <1>1, <1>2 DEF PaidTo
  <1> QED
    BY <1>1, <1>3 DEF Paid

(* One step of the bounty plugin.                                            *)
LEMMA BountyStep == ASSUME BountyAssumption, BountyInv, NextBounty PROVE BountyInv'
  <1> USE DEF BountyInv, BountySound
  <1>0. /\ purse \in [Accounts -> Nat] /\ escrow \in Nat
        /\ claims \in [Accounts -> Nat] /\ key \in [Accounts -> Nat] /\ day \in Nat
        /\ Publisher \in Accounts /\ Sums \subseteq Nat \ {0} /\ ChallengeTTL \in Nat
        /\ Reward \in Nat \ {0} /\ listing.terms.max \in Nat \ {0} /\ listing.terms.limit \in Nat \ {0}
        /\ listing.budget \in Nat /\ listing.refunded \in Nat
        /\ Paid \in Nat
        /\ Reward * Paid \in Nat
    BY TermsTyped, ConsumedFinite DEF BountyTyped, Reward, Accounts, BountyAssumption
  <1>1. ASSUME NEW terms \in Terms, NEW budget \in Sums, Create(terms, budget) PROVE BountyInv'
    <2>1. terms.reward \in Nat \ {0} /\ terms.max \in Nat \ {0} /\ terms.limit \in Nat \ {0}
      BY TermsTyped
    <2>2. /\ listing'.terms = terms /\ listing'.budget = budget /\ listing'.refunded = 0
          /\ listing'.state \in {"active", "paused"}
          /\ listing'.state = "active" => budget >= terms.reward
          /\ listing' \in [state : {"none", "active", "paused", "closed"},
                    reason : {"none", "out_of_budget", "claims_exhausted", "publisher_paused"},
                    budget : Nat, refunded : Nat, terms : Terms]
      BY <1>0, <1>1, <2>1 DEF Create, Unpublished
    <2>3. Consumed = {} /\ escrow = 0 /\ escrow' = budget
      BY <1>0, <1>1 DEF Create, NothingEarly
    <2>4. Paid = 0 /\ \A a : PaidTo(a) = {}
      BY <2>3, FS_EmptySet DEF Paid, PaidTo
    <2>5. Consumed' = Consumed /\ Paid' = Paid /\ \A a : PaidTo(a)' = PaidTo(a)
      BY <1>1, PaidKept DEF Create
    <2>6. BountyTyped'
      BY <1>0, <1>1, <2>2, <2>3 DEF Create, BountyTyped
    <2>7. BudgetAccounted'
      BY <1>0, <2>1, <2>2, <2>3, <2>4, <2>5 DEF BudgetAccounted, Reward
    <2>8. OfferCovered' /\ NothingEarly'
      BY <2>1, <2>2, <2>3, <2>4, <2>5 DEF OfferCovered, NothingEarly, Reward
    <2>9. LimitsHold'
      <3>1. \A a \in Accounts : claims[a] = 0
        BY <2>4, FS_EmptySet DEF LimitsHold, PaidTo
      <3>2. claims' = claims /\ \A a : Cardinality(PaidTo(a)') = 0
        BY <1>1, <2>4, <2>5, FS_EmptySet DEF Create
      <3> QED
        BY <2>1, <2>2, <2>4, <2>5, <3>1, <3>2 DEF LimitsHold, PaidTo
    <2> QED
      BY <2>6, <2>7, <2>8, <2>9
  <1>2. ASSUME NEW sum \in Sums, TopUp(sum) PROVE BountyInv'
    <2>1. Consumed' = Consumed /\ Paid' = Paid /\ \A a : PaidTo(a)' = PaidTo(a)
      BY <1>2, PaidKept DEF TopUp
    <2>2. /\ listing'.terms = listing.terms /\ listing'.budget = listing.budget + sum
          /\ listing'.refunded = listing.refunded /\ escrow' = escrow + sum
          /\ listing'.state \in {"active", "paused"} /\ Present
          /\ listing'.state = "active" => listing.state = "active" \/ Revived(sum)
      BY <1>2 DEF TopUp, Present, BountyTyped
    <2>3. BountyTyped'
      <3>1. PICK state \in {"active", "paused"},
                 reason \in {"none", "out_of_budget", "claims_exhausted", "publisher_paused"} :
               listing' = [listing EXCEPT !.budget = @ + sum, !.state = state, !.reason = reason]
        <4> DEFINE state == IF Revived(sum) THEN "active" ELSE listing.state
                   reason == IF Revived(sum) \/ listing.state = "active" THEN "none"
                             ELSE listing.reason
        <4>1. listing' = [listing EXCEPT !.budget = @ + sum, !.state = state, !.reason = reason]
          BY <1>2 DEF TopUp
        <4>2. /\ state \in {"active", "paused"}
              /\ reason \in {"none", "out_of_budget", "claims_exhausted", "publisher_paused"}
          BY <2>2 DEF BountyTyped, Present
        <4> HIDE DEF state, reason
        <4> QED
          BY <4>1, <4>2
      <3>2. listing' \in [state : {"none", "active", "paused", "closed"},
                    reason : {"none", "out_of_budget", "claims_exhausted", "publisher_paused"},
                    budget : Nat, refunded : Nat, terms : Terms]
        <4>1. listing.budget + sum \in Nat
          BY <1>0
        <4>2. listing \in [state : {"none", "active", "paused", "closed"},
                    reason : {"none", "out_of_budget", "claims_exhausted", "publisher_paused"},
                    budget : Nat, refunded : Nat, terms : Terms]
          BY DEF BountyTyped
        <4> HIDE DEF BountyInv, BountySound
        <4> QED
          BY <3>1, <4>1, <4>2
      <3>3. purse' \in [Accounts -> Nat] /\ escrow' \in Nat
        BY <1>0, <1>2 DEF TopUp
      <3> QED
        BY <1>2, <3>2, <3>3 DEF TopUp, BountyTyped
    <2>4. BudgetAccounted' /\ OfferCovered'
      BY <1>0, <2>1, <2>2 DEF BudgetAccounted, OfferCovered, Revived, Reward
    <2>5. LimitsHold' /\ NothingEarly'
      BY <1>2, <2>1, <2>2 DEF TopUp, LimitsHold, PaidTo, NothingEarly, Present
    <2> QED
      BY <2>3, <2>4, <2>5
  <1>3. ASSUME Close PROVE BountyInv'
    <2>1. Consumed' = Consumed /\ Paid' = Paid /\ \A a : PaidTo(a)' = PaidTo(a)
      BY <1>3, PaidKept DEF Close
    <2>2. /\ listing'.terms = listing.terms /\ listing'.budget = listing.budget
          /\ listing'.refunded = escrow /\ escrow' = 0 /\ listing'.state = "closed"
          /\ listing.refunded = 0
      BY <1>3 DEF Close, BountyTyped, Present, NothingEarly
    <2>3. BountyTyped'
      <3>1. listing' = [listing EXCEPT !.state = "closed", !.reason = "none", !.refunded = escrow]
        BY <1>3 DEF Close
      <3>2. listing' \in [state : {"none", "active", "paused", "closed"},
                    reason : {"none", "out_of_budget", "claims_exhausted", "publisher_paused"},
                    budget : Nat, refunded : Nat, terms : Terms]
        BY <1>0, <3>1 DEF BountyTyped
      <3>3. purse' \in [Accounts -> Nat] /\ escrow' \in Nat
        BY <1>0, <1>3 DEF Close
      <3> QED
        BY <1>3, <3>2, <3>3 DEF Close, BountyTyped
    <2>4. BudgetAccounted' /\ OfferCovered' /\ NothingEarly'
      BY <1>0, <2>1, <2>2 DEF BudgetAccounted, OfferCovered, NothingEarly, Reward
    <2>5. LimitsHold'
      BY <1>3, <2>1, <2>2 DEF Close, LimitsHold, PaidTo
    <2> QED
      BY <2>3, <2>4, <2>5
  <1>4. ASSUME Pause \/ Continue PROVE BountyInv'
    <2>1. Consumed' = Consumed /\ Paid' = Paid /\ \A a : PaidTo(a)' = PaidTo(a)
      BY <1>4, PaidKept DEF Pause, Continue
    <2>2. /\ listing'.terms = listing.terms /\ listing'.budget = listing.budget
          /\ listing'.refunded = listing.refunded /\ escrow' = escrow /\ claims' = claims
          /\ listing'.state \in {"active", "paused"} /\ listing.state \in {"active", "paused"}
          /\ listing'.state = "active" => escrow >= Reward /\ Paid < listing.terms.max
      BY <1>4 DEF Pause, Continue, BountyTyped, Present
    <2>3. BountyTyped'
      BY <1>0, <1>4 DEF Pause, Continue, BountyTyped
    <2>4. BudgetAccounted' /\ OfferCovered' /\ NothingEarly'
      BY <2>1, <2>2 DEF BudgetAccounted, OfferCovered, NothingEarly, Reward
    <2>5. LimitsHold'
      BY <2>1, <2>2 DEF LimitsHold, PaidTo
    <2> QED
      BY <2>3, <2>4, <2>5
  <1>5. ASSUME NEW a \in Accounts, Challenge(a) PROVE BountyInv'
    <2>1. PICK c \in Slots :
             /\ challenge[c].state = "none"
             /\ challenge' = [challenge EXCEPT ![c] = [state |-> "open", claimant |-> a,
                                 key |-> key[a], expires |-> day + ChallengeTTL]]
      BY <1>5 DEF Challenge
    <2>2. \A d \in Slots : challenge'[d] = challenge[d]
                           \/ (challenge[d].state # "consumed" /\ challenge'[d].state # "consumed")
      BY <2>1 DEF BountyTyped
    <2>3. Consumed' = Consumed /\ Paid' = Paid /\ \A b : PaidTo(b)' = PaidTo(b)
      BY <2>2, PaidKept
    <2>4. BountyTyped'
      BY <1>0, <1>5, <2>1 DEF Challenge, BountyTyped
    <2>5. BudgetAccounted' /\ OfferCovered' /\ LimitsHold' /\ NothingEarly'
      BY <1>5, <2>3 DEF Challenge, BudgetAccounted, OfferCovered, LimitsHold, PaidTo, NothingEarly,
                        Reward
    <2> QED
      BY <2>4, <2>5
  <1>6. ASSUME NEW c \in Slots, Claim(c) PROVE BountyInv'
    <2> DEFINE a == challenge[c].claimant
    <2>1. /\ a \in Accounts /\ challenge[c].state = "open" /\ c \notin Consumed
          /\ listing.state = "active" /\ escrow >= Reward
          /\ Paid < listing.terms.max /\ claims[a] < listing.terms.limit
      BY <1>6 DEF Claim, Claimable, BountyTyped, Consumed
    <2>2. /\ challenge'[c] = [challenge[c] EXCEPT !.state = "consumed"]
          /\ \A d \in Slots \ {c} : challenge'[d] = challenge[d]
      BY <1>6 DEF Claim, BountyTyped
    <2>3. challenge'[c].state = "consumed" /\ challenge'[c].claimant = a
      BY <2>2 DEF BountyTyped
    <2>4. Consumed' = Consumed \cup {c}
      BY <2>2, <2>3 DEF Consumed
    <2>5. Paid' = Paid + 1
      BY <2>1, <2>4, ConsumedFinite, FS_AddElement DEF Paid
    <2>6. PaidTo(a)' = PaidTo(a) \cup {c} /\ c \notin PaidTo(a)
      <3>1. \A d \in Consumed' : challenge'[d].claimant = challenge[d].claimant
        BY <2>2, <2>3, <2>4 DEF Consumed
      <3>2. PaidTo(a)' = {d \in Consumed' : challenge'[d].claimant = a'}
        BY DEF PaidTo
      <3> QED
        BY <2>1, <2>3, <2>4, <3>1, <3>2 DEF PaidTo
    <2>7. \A b \in Accounts \ {a} : {d \in Consumed' : challenge'[d].claimant = b} = PaidTo(b)
      BY <2>1, <2>2, <2>3, <2>4 DEF PaidTo, Consumed
    <2>8. /\ claims' = [claims EXCEPT ![a] = @ + 1] /\ escrow' = escrow - Reward
          /\ purse' = [purse EXCEPT ![a] = @ + Reward]
          /\ listing'.terms = listing.terms /\ listing'.budget = listing.budget
          /\ listing'.refunded = listing.refunded
          /\ listing'.state \in {"active", "paused"}
          /\ listing'.state = "active" => Exhausted = "none"
      BY <1>6, <2>1 DEF Claim, BountyTyped
    <2>9. BountyTyped'
      <3>1. listing' \in [state : {"none", "active", "paused", "closed"},
                    reason : {"none", "out_of_budget", "claims_exhausted", "publisher_paused"},
                    budget : Nat, refunded : Nat, terms : Terms]
        BY <1>6 DEF Claim, BountyTyped, Exhausted
      <3>2. challenge' \in [Slots -> [state : {"none", "open", "consumed"}, claimant : Accounts,
                                      key : Nat, expires : Nat]]
        BY <1>6 DEF Claim, BountyTyped
      <3>3. purse' \in [Accounts -> Nat] /\ claims' \in [Accounts -> Nat] /\ escrow' \in Nat
        BY <1>0, <2>1, <2>8
      <3> QED
        BY <1>0, <1>6, <3>1, <3>2, <3>3 DEF Claim, BountyTyped
    <2>10. BudgetAccounted'
      <3>1. Reward * (Paid + 1) = Reward * Paid + Reward
        BY <1>0
      <3> QED
        BY <1>0, <2>5, <2>8, <3>1 DEF BudgetAccounted, Reward
    <2>11. OfferCovered'
      BY <1>0, <2>5, <2>8 DEF OfferCovered, Exhausted, Reward
    <2>12. NothingEarly'
      BY <2>1, <2>8 DEF NothingEarly
    <2>13. LimitsHold'
      <3>1. Cardinality(PaidTo(a) \cup {c}) = Cardinality(PaidTo(a)) + 1
        BY <2>6, ConsumedFinite, FS_AddElement
      <3>2. {d \in Consumed' : challenge'[d].claimant = a} = PaidTo(a) \cup {c}
        BY <2>1, <2>2, <2>3, <2>4 DEF PaidTo, Consumed
      <3>3. claims[a] = Cardinality(PaidTo(a)) /\ claims'[a] = claims[a] + 1
        BY <1>0, <2>1, <2>8 DEF LimitsHold, PaidTo
      <3>4. \A b \in Accounts \ {a} : claims'[b] = claims[b] /\ claims[b] = Cardinality(PaidTo(b))
        BY <1>0, <2>1, <2>8 DEF LimitsHold, PaidTo
      <3> HIDE DEF a
      <3>5. \A b \in Accounts :
               /\ claims'[b] = Cardinality({d \in Consumed' : challenge'[d].claimant = b})
               /\ claims'[b] <= listing.terms.limit
        <4> TAKE b \in Accounts
        <4>1. CASE b = a
          <5>1. {d \in Consumed' : challenge'[d].claimant = b} = PaidTo(a) \cup {c}
            BY <3>2, <4>1
          <5>2. claims'[b] = Cardinality(PaidTo(a)) + 1 /\ claims'[b] <= listing.terms.limit
            BY <1>0, <2>1, <3>3, <4>1
          <5> QED
            BY <3>1, <5>1, <5>2
        <4>2. CASE b # a
          BY <2>7, <3>4, <4>2 DEF LimitsHold
        <4> QED
          BY <4>1, <4>2
      <3>6. Paid' <= listing'.terms.max
        BY <1>0, <2>1, <2>5, <2>8
      <3>7. \A b \in Accounts :
               /\ claims'[b] <= listing'.terms.limit
               /\ claims'[b] = Cardinality({d \in Consumed : challenge[d].claimant = b}')
        BY <2>8, <3>5
      <3> QED
        BY <3>6, <3>7 DEF LimitsHold
    <2> QED
      BY <2>9, <2>10, <2>11, <2>12, <2>13
  <1>7. ASSUME (\E b \in Accounts : NewIdentityKey(b)) \/ NextDay PROVE BountyInv'
    <2>1. UNCHANGED <<purse, escrow, listing, challenge, claims>>
      BY <1>7 DEF NewIdentityKey, NextDay
    <2>2. Consumed' = Consumed /\ Paid' = Paid /\ \A b : PaidTo(b)' = PaidTo(b)
      BY <2>1, PaidKept
    <2>3. BountyTyped'
      BY <1>0, <1>7, <2>1 DEF NewIdentityKey, NextDay, BountyTyped
    <2> QED
      BY <2>1, <2>2, <2>3 DEF BudgetAccounted, OfferCovered, LimitsHold, NothingEarly, PaidTo, Reward
  <1> QED
    BY <1>1, <1>2, <1>3, <1>4, <1>5, <1>6, <1>7 DEF NextBounty

(* A step of the bounty, or one that leaves it alone.                        *)
LEMMA BountyKept ==
    ASSUME BountyAssumption, BountyInv, [NextBounty]_bounty_vars PROVE BountyInv'
  <1>1. CASE NextBounty
    BY <1>1, BountyStep
  <1>2. CASE UNCHANGED bounty_vars
    <2>1. UNCHANGED <<purse, escrow, listing, challenge, claims, key, day>>
      BY <1>2 DEF bounty_vars
    <2>2. Consumed' = Consumed /\ Paid' = Paid /\ \A b : PaidTo(b)' = PaidTo(b)
      BY <2>1, PaidKept
    <2>3. BountyTyped'
      BY <2>1 DEF BountyInv, BountyTyped
    <2> QED
      BY <2>1, <2>2, <2>3 DEF BountyInv, BountySound, BudgetAccounted, OfferCovered, LimitsHold,
                              NothingEarly, PaidTo, Reward
  <1> QED
    BY <1>1, <1>2

(* The budget of a bounty is spent on claims alone, an open bounty can pay the *)
(* next one, and no limit is passed, whatever is topped up, paused and claimed *)
(* in between (plugins/bounty.py).                                             *)
THEOREM BountyAlwaysSound == ASSUME BountyAssumption PROVE BountySpec => []BountySound
  <1>1. InitBounty => BountyInv
    BY BountyInit
  <1>2. BountyInv /\ [NextBounty]_bounty_vars => BountyInv'
    BY BountyKept
  <1>3. BountyInv => BountySound
    BY DEF BountyInv
  <1> QED
    BY <1>1, <1>2, <1>3, PTL DEF BountySpec

(* The same, for what a step may not do to a listing its publisher paused.     *)
LEMMA PausedKept ==
    ASSUME BountyInv, PausedByPublisher, NextBounty
    PROVE  /\ PausedByPublisher'
           /\ listing.reason = "publisher_paused" /\ listing'.state = "active"
                 => UNCHANGED <<purse, escrow>>
  <1> USE DEF PausedByPublisher
  <1>0. listing \in [state : {"none", "active", "paused", "closed"},
                reason : {"none", "out_of_budget", "claims_exhausted", "publisher_paused"},
                budget : Nat, refunded : Nat, terms : Terms]
    BY DEF BountyInv, BountyTyped
  <1>1. ASSUME NEW terms \in Terms, NEW budget \in Sums, Create(terms, budget)
        PROVE  PausedByPublisher' /\ listing.reason # "publisher_paused"
    BY <1>0, <1>1 DEF Create, Unpublished
  <1>2. ASSUME NEW sum \in Sums, TopUp(sum)
        PROVE  /\ PausedByPublisher'
               /\ listing.reason = "publisher_paused" => listing'.state = "paused"
    BY <1>0, <1>2 DEF TopUp, Revived
  <1>3. ASSUME Close PROVE PausedByPublisher' /\ listing'.state # "active"
    BY <1>0, <1>3 DEF Close
  <1>4. ASSUME Pause \/ Continue PROVE PausedByPublisher' /\ UNCHANGED <<purse, escrow>>
    BY <1>0, <1>4 DEF Pause, Continue
  <1>5. ASSUME NEW c \in Slots, Claim(c)
        PROVE  PausedByPublisher' /\ listing.reason # "publisher_paused"
    <2>1. listing.state = "active"
      BY <1>5 DEF Claim, Claimable
    <2>2. \/ listing' = listing
          \/ listing'.reason # "publisher_paused"
      BY <1>0, <1>5 DEF Claim, Exhausted
    <2> QED
      BY <2>1, <2>2
  <1>6. ASSUME NEW a \in Accounts, Challenge(a) \/ NewIdentityKey(a)
        PROVE  PausedByPublisher' /\ UNCHANGED <<purse, escrow>>
    BY <1>6 DEF Challenge, NewIdentityKey
  <1>7. ASSUME NextDay PROVE PausedByPublisher' /\ UNCHANGED <<purse, escrow>>
    BY <1>7 DEF NextDay
  <1> QED
    BY <1>1, <1>2, <1>3, <1>4, <1>5, <1>6, <1>7 DEF NextBounty

(* A pause of the publisher ends only by a step that moves no money, since a   *)
(* top-up revives none but a listing that ran dry (plugins/bounty.py).         *)
THEOREM PauseAlwaysStands == ASSUME BountyAssumption PROVE BountySpec => PauseStands
  <1>1. InitBounty => BountyInv /\ PausedByPublisher
    BY BountyInit DEF InitBounty, Unpublished, PausedByPublisher
  <1>2. BountyInv /\ PausedByPublisher /\ [NextBounty]_bounty_vars
            => (BountyInv /\ PausedByPublisher)'
    <2>1. UNCHANGED bounty_vars /\ PausedByPublisher => PausedByPublisher'
      BY DEF bounty_vars, PausedByPublisher
    <2> QED
      BY <2>1, BountyKept, PausedKept
  <1>3. BountyInv /\ PausedByPublisher /\ [NextBounty]_bounty_vars =>
            [listing.reason = "publisher_paused" /\ listing'.state = "active"
                => UNCHANGED <<purse, escrow>>]_bounty_vars
    BY PausedKept
  <1> QED
    BY <1>1, <1>2, <1>3, PTL DEF BountySpec, PauseStands
=============================================================================
