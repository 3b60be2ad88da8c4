------------------------- MODULE OrderEscrowProofs -------------------------
(***************************************************************************)
(* Proofs about OrderEscrow, for any orders, listings, prices, timeouts    *)
(* and batch limit.  First, what each shared function does to one record   *)
(* (it keeps the record typed and Sound); then that every action leaves    *)
(* every order Consistent; then the invariants and the action properties.  *)
(***************************************************************************)
EXTENDS OrderEscrow, FoldLemmas

USE DEF Null

-----------------------------------------------------------------------------
(* The records inside a handler.                                           *)

Good(r) == r \in OrderRecord /\ Sound(r)

(* Totals are positive: a price times a quantity.                          *)
LEMMA PositiveProduct ==
    ASSUME NEW m \in Nat \ {0}, NEW n \in Nat \ {0}
    PROVE  m * n \in Nat \ {0}
  OBVIOUS

(* The state table only ever leads to a state of the table.                *)
LEMMA TableStates == \A s \in States : TRANSITIONS[s] \subseteq States
  BY DEF TRANSITIONS, States

(* create() writes a sound record in state `created'.                      *)
LEMMA NewOrderGood ==
    ASSUME ConstantsAssumption, TypeOK,
           NEW b \in Subjects, NEW l \in Listings,
           NEW q \in Nat \ {0}, NEW v \in {3, 4, 5}
    PROVE  /\ Good(NewOrder(b, l, q, v))
           /\ NewOrder(b, l, q, v).state = "created"
           /\ NewOrder(b, l, q, v).listing = l
           /\ NewOrder(b, l, q, v).version = v
  <1>1. Price[l] * q \in Nat \ {0}
    <2>1. Price[l] \in Nat \ {0}
      BY DEF ConstantsAssumption
    <2> QED  BY <2>1, PositiveProduct
  <1>2. now \in Nat /\ now \in Time /\ FundingTimeout \in Nat
    BY DEF TypeOK, Time, ConstantsAssumption
  <1>3. NewOrder(b, l, q, v) \in OrderRecord
    BY <1>1, <1>2 DEF NewOrder, OrderRecord, States
  <1> QED  BY <1>3 DEF Good, Sound, NewOrder

(* A transition keeps everything but the state.                            *)
LEMMA MovedTyped ==
    ASSUME NEW r \in OrderRecord, NEW state \in States, NEW reason,
           NEW s \in Moved(r, state, reason)
    PROVE  /\ s \in OrderRecord /\ s = [r EXCEPT !.state = state]
           /\ s.state = state /\ s.version = r.version /\ s.listing = r.listing
           /\ s.total = r.total /\ s.delivery = r.delivery /\ s.reason = r.reason
           /\ s.fund = r.fund /\ s.refund = r.refund /\ s.release = r.release
           /\ s.funded_at = r.funded_at /\ s.expires_at = r.expires_at
           /\ s.created_at = r.created_at
  <1>1. s = [r EXCEPT !.state = state]
    BY DEF Moved
  <1> QED  BY <1>1 DEF OrderRecord

(* fund() turns a sound reservation into a sound paid order.               *)
LEMMA FundedGood ==
    ASSUME ConstantsAssumption, TypeOK, NEW r, Good(r), NEW s \in Funded(r)
    PROVE  /\ Good(s) /\ r.state = "created" /\ s.state = "funded"
           /\ s.listing = r.listing /\ s.version = r.version /\ s.total = r.total
           /\ s.delivery = "none" /\ s.release = 0 /\ s.reason = "none"
  <1>1. now \in Nat /\ now \in Time /\ DeliveryTimeout \in Nat
    BY DEF TypeOK, Time, ConstantsAssumption
  <1>2. PICK m \in Moved(r, "funded", "signed_payment_intent") :
          s = [m EXCEPT !.fund = @ + r.total, !.funded_at = now,
                        !.expires_at = now + DeliveryTimeout]
    BY DEF Funded
  <1>3. r \in OrderRecord /\ "funded" \in States
    BY DEF Good, States
  <1>4. r.state = "created"
    BY <1>2, <1>3 DEF Moved, TRANSITIONS, OrderRecord, States
  <1>5. /\ m \in OrderRecord /\ m.state = "funded" /\ m.version = r.version
        /\ m.listing = r.listing /\ m.total = r.total /\ m.delivery = r.delivery
        /\ m.reason = r.reason /\ m.fund = r.fund
        /\ m.refund = r.refund /\ m.release = r.release
    BY <1>2, <1>3, MovedTyped
  <1>6. /\ m.fund = 0 /\ m.delivery = "none" /\ m.reason = "none"
        /\ m.refund = 0 /\ m.release = 0 /\ r.total \in Nat
    BY <1>4, <1>5 DEF Good, Sound, OrderRecord
  <1>7. /\ s \in OrderRecord /\ s.state = "funded" /\ s.version = m.version
        /\ s.listing = m.listing /\ s.total = m.total /\ s.delivery = m.delivery
        /\ s.reason = m.reason /\ s.fund = r.total
        /\ s.refund = m.refund /\ s.release = m.release
        /\ s.funded_at = now /\ s.expires_at = now + DeliveryTimeout
    <2>1. s = [m EXCEPT !.fund = r.total, !.funded_at = now,
                        !.expires_at = now + DeliveryTimeout]
      <3>1. m.fund + r.total = r.total
        BY <1>6
      <3> QED  BY <1>2, <3>1
    <2>2. now + DeliveryTimeout \in Nat
      BY <1>1
    <2> QED  BY <2>1, <2>2, <1>1, <1>5, <1>6 DEF OrderRecord
  <1>8. Sound(s)
    BY <1>1, <1>5, <1>6, <1>7 DEF Sound
  <1> QED  BY <1>4, <1>5, <1>6, <1>7, <1>8 DEF Good

(* prepare() delivers a funded order.                                      *)
LEMMA PreparedGood ==
    ASSUME NEW r, Good(r), NEW s \in Prepared(r)
    PROVE  /\ Good(s) /\ r.state = "funded" /\ s.state = "delivered"
           /\ s.listing = r.listing /\ s.version = r.version /\ s.total = r.total
           /\ s.delivery = "prepared" /\ s.release = 0 /\ s.reason = "none"
  <1>1. PICK m \in Moved(r, "delivered", "verified_delivery") :
          r.state = "funded" /\ s = [m EXCEPT !.delivery = "prepared"]
    BY DEF Prepared
  <1>2. r \in OrderRecord /\ "delivered" \in States
    BY DEF Good, States
  <1>3. /\ m \in OrderRecord /\ m.state = "delivered" /\ m.version = r.version
        /\ m.listing = r.listing /\ m.total = r.total
        /\ m.reason = r.reason /\ m.fund = r.fund
        /\ m.refund = r.refund /\ m.release = r.release
    BY <1>1, <1>2, MovedTyped
  <1>4. /\ r.fund = r.total /\ r.reason = "none" /\ r.refund = 0 /\ r.release = 0
    BY <1>1 DEF Good, Sound
  <1>5. /\ s \in OrderRecord /\ s.state = "delivered" /\ s.version = m.version
        /\ s.listing = m.listing /\ s.total = m.total /\ s.delivery = "prepared"
        /\ s.reason = m.reason /\ s.fund = m.fund
        /\ s.refund = m.refund /\ s.release = m.release
    BY <1>1, <1>3 DEF OrderRecord
  <1>6. Sound(s)
    BY <1>3, <1>4, <1>5 DEF Sound
  <1> QED  BY <1>1, <1>3, <1>4, <1>5, <1>6 DEF Good

(* settle() shares out exactly the price, once, with a reason.             *)
LEMMA SettledGood ==
    ASSUME NEW r, Good(r), NEW reason \in Reasons, NEW refund,
           NEW s \in Settled(r, reason, refund)
    PROVE  /\ Good(s) /\ MaySettle(r, reason, refund)
           /\ s.state = Final(r, refund) /\ s.state \in {"refunded", "settled"}
           /\ s.listing = r.listing /\ s.version = r.version
           /\ s.delivery = r.delivery /\ s.reason = reason
           /\ s.total = r.total /\ s.fund = r.fund
           /\ s.refund = refund /\ s.release = r.total - refund
  <1>1. PICK m \in Moved(r, Final(r, refund), reason) :
          /\ MaySettle(r, reason, refund)
          /\ s = [m EXCEPT !.refund = @ + refund, !.release = @ + Remainder(r, refund),
                           !.reason = reason]
    BY DEF Settled
  <1>2. r \in OrderRecord /\ Final(r, refund) \in {"refunded", "settled"}
    BY DEF Good, Final
  <1>3. Final(r, refund) \in States
    BY <1>2 DEF States
  <1>4. /\ m \in OrderRecord /\ m.state = Final(r, refund) /\ m.version = r.version
        /\ m.listing = r.listing /\ m.total = r.total /\ m.delivery = r.delivery
        /\ m.reason = r.reason /\ m.fund = r.fund
        /\ m.refund = r.refund /\ m.release = r.release
    BY <1>1, <1>2, <1>3, MovedTyped
  <1>5. r.total \in Nat \ {0} /\ refund \in 0 .. r.total
    BY <1>1, <1>2 DEF MaySettle, OrderRecord
  <1>6. r.state \in {"funded", "delivered", "disputed", "accepted"}
    BY <1>1 DEF MaySettle
  <1>7. /\ r.refund = 0 /\ r.release = 0 /\ r.fund = r.total
        /\ r.delivery # "claimed"
    BY <1>6 DEF Good, Sound
  <1>8. /\ refund \in Nat /\ r.total - refund \in Nat
        /\ m.refund + refund = refund
        /\ m.release + Remainder(r, refund) = r.total - refund
    BY <1>4, <1>5, <1>7 DEF Remainder
  <1>9. /\ s \in OrderRecord /\ s.state = m.state /\ s.version = m.version
        /\ s.listing = m.listing /\ s.total = m.total /\ s.delivery = m.delivery
        /\ s.reason = reason /\ s.fund = m.fund
        /\ s.refund = refund /\ s.release = r.total - refund
    <2>1. s = [m EXCEPT !.refund = refund, !.release = r.total - refund, !.reason = reason]
      BY <1>1, <1>8
    <2> QED  BY <2>1, <1>4, <1>8 DEF OrderRecord
  <1>10. reason # "none"
    BY ConstantsAssumption DEF ConstantsAssumption, Reasons, ObjectiveRefunds, Releases
  <1>11. s.state = "refunded" => s.release = 0
    BY <1>4, <1>5, <1>9 DEF Final
  <1>12. s.refund + s.release = s.total
    BY <1>4, <1>5, <1>8, <1>9
  <1>13. Sound(s)
    BY <1>2, <1>4, <1>7, <1>9, <1>10, <1>11, <1>12 DEF Sound
  <1> QED  BY <1>1, <1>2, <1>4, <1>9, <1>13 DEF Good

(* Accepting a delivered order pays the seller the whole price.            *)
LEMMA ReleasedGood ==
    ASSUME NEW r, Good(r), NEW reason \in Releases, NEW s \in Released(r, reason)
    PROVE  /\ Good(s) /\ r.state = "delivered" /\ s.state = "settled"
           /\ s.listing = r.listing /\ s.version = r.version
           /\ s.delivery = r.delivery /\ s.reason = reason /\ s.total = r.total
           /\ reason # "deterministic_entitlement"
           /\ reason = "managed_instant_verified" => r.version = 3
  <1>1. PICK m \in Moved(r, "accepted", reason) : s \in Settled(m, reason, 0)
    BY DEF Released
  <1>2. r \in OrderRecord /\ "accepted" \in States
    BY DEF Good, States
  <1>3. r.state = "delivered"
    BY <1>1, <1>2 DEF Moved, TRANSITIONS, OrderRecord, States
  <1>4. /\ m \in OrderRecord /\ m.state = "accepted" /\ m.version = r.version
        /\ m.listing = r.listing /\ m.total = r.total /\ m.delivery = r.delivery
        /\ m.reason = r.reason /\ m.fund = r.fund
        /\ m.refund = r.refund /\ m.release = r.release
    BY <1>1, <1>2, MovedTyped
  <1>5. Good(m)
    BY <1>3, <1>4 DEF Good, Sound
  <1>6. reason \in Reasons
    BY DEF Reasons
  <1>7. /\ Good(s) /\ MaySettle(m, reason, 0) /\ s.state = Final(m, 0)
        /\ s.listing = m.listing /\ s.version = m.version
        /\ s.delivery = m.delivery /\ s.reason = reason /\ s.total = m.total
    BY <1>1, <1>5, <1>6, SettledGood
  <1>8. m.total # 0 /\ m.version \in {3, 4, 5}
    BY <1>4 DEF OrderRecord
  <1>9. s.state = "settled"
    BY <1>7, <1>8 DEF Final
  <1>10. /\ reason # "deterministic_entitlement"
         /\ reason = "managed_instant_verified" => m.version = 3
    BY <1>4, <1>7, <1>8 DEF MaySettle, ObjectiveRefunds
  <1> QED  BY <1>3, <1>4, <1>7, <1>9, <1>10

(* automatic() refunds faulty goods, prepares those of version 4, and      *)
(* releases those of version 3.                                            *)
LEMMA AutomaticConsistent ==
    ASSUME TypeOK, NEW r, Good(r), r.state = "funded", r.release = 0,
           Mode[r.listing] = "managed_instant", NEW s \in Automatic(r)
    PROVE  Good(s) /\ Consistent(s) /\ s.total = r.total
  <1>1. CASE damage[r.listing] # "none"
    <2>1. damage[r.listing] \in Faults
      BY <1>1 DEF TypeOK, Good, OrderRecord
    <2>2. damage[r.listing] \in Reasons
      BY <2>1 DEF Reasons, ObjectiveRefunds
    <2>3. s \in Settled(r, damage[r.listing], r.total)
      BY <1>1 DEF Automatic
    <2>4. /\ Good(s) /\ s.state = Final(r, r.total) /\ s.release = r.total - r.total
          /\ s.total = r.total
      BY <2>2, <2>3, SettledGood
    <2>5. r.total \in Nat
      BY DEF Good, OrderRecord
    <2>6. s.state = "refunded" /\ s.release = 0
      BY <2>4, <2>5 DEF Final
    <2> QED  BY <2>4, <2>6 DEF Good, Consistent
  <1>2. CASE damage[r.listing] = "none" /\ r.version = 4
    <2>1. s \in Prepared(r)
      BY <1>2 DEF Automatic
    <2>2. Good(s) /\ s.state = "delivered" /\ s.release = 0 /\ s.total = r.total
      BY <2>1, PreparedGood
    <2> QED  BY <2>2 DEF Good, Consistent
  <1>3. CASE damage[r.listing] = "none" /\ r.version # 4
    <2>1. PICK p \in Prepared(r) : s \in Released(p, "managed_instant_verified")
      BY <1>3 DEF Automatic
    <2>2. /\ Good(p) /\ p.listing = r.listing /\ p.delivery = "prepared"
          /\ p.total = r.total
      BY <2>1, PreparedGood
    <2>3. "managed_instant_verified" \in Releases
      BY DEF Releases
    <2>4. /\ Good(s) /\ s.state = "settled" /\ s.listing = p.listing
          /\ s.version = p.version /\ s.delivery = p.delivery /\ s.total = p.total
          /\ s.reason = "managed_instant_verified" /\ p.version = 3
      BY <2>1, <2>2, <2>3, ReleasedGood
    <2>5. Consented(s)
      BY <2>2, <2>4 DEF Consented
    <2> QED  BY <2>2, <2>4, <2>5 DEF Good, Consistent
  <1> QED  BY <1>1, <1>2, <1>3

(* A reservation that is paid commits consistent, whatever the mode.       *)
LEMMA AfterFundingConsistent ==
    ASSUME ConstantsAssumption, TypeOK, NEW r, Good(r), NEW s \in AfterFunding(r)
    PROVE  Good(s) /\ Consistent(s) /\ r.state = "created" /\ s.total = r.total
  <1>1. CASE Mode[r.listing] = "managed_instant"
    <2>1. PICK f \in Funded(r) : s \in Automatic(f)
      BY <1>1 DEF AfterFunding
    <2>2. /\ Good(f) /\ r.state = "created" /\ f.state = "funded"
          /\ f.listing = r.listing /\ f.release = 0 /\ f.total = r.total
      BY <2>1, FundedGood
    <2> QED  BY <1>1, <2>1, <2>2, AutomaticConsistent
  <1>2. CASE Mode[r.listing] # "managed_instant"
    <2>1. s \in Funded(r)
      BY <1>2 DEF AfterFunding
    <2>2. /\ Good(s) /\ r.state = "created" /\ s.state = "funded" /\ s.release = 0
          /\ s.total = r.total
      BY <2>1, FundedGood
    <2> QED  BY <2>2 DEF Good, Consistent
  <1> QED  BY <1>1, <1>2

(* A refund for a reason the server establishes itself commits consistent. *)
LEMMA RefundConsistent ==
    ASSUME NEW r, Good(r), NEW reason \in ObjectiveRefunds,
           NEW s \in Settled(r, reason, r.total)
    PROVE  /\ Good(s) /\ Consistent(s) /\ s.state = "refunded"
           /\ s.refund = r.total /\ r.reason = "none" /\ s.total = r.total
  <1>1. reason \in Reasons
    BY DEF Reasons
  <1>2. /\ Good(s) /\ MaySettle(r, reason, r.total) /\ s.state = Final(r, r.total)
        /\ s.refund = r.total /\ s.release = r.total - r.total /\ s.total = r.total
    BY <1>1, SettledGood
  <1>3. r.total \in Nat
    BY DEF Good, OrderRecord
  <1>4. s.state = "refunded" /\ s.release = 0 /\ r.reason = "none"
    BY <1>2, <1>3 DEF Final, MaySettle
  <1> QED  BY <1>2, <1>4 DEF Good, Consistent

(* A settlement by arbitration commits consistent, however it is split.    *)
LEMMA DecisionConsistent ==
    ASSUME NEW r, Good(r), NEW refund, NEW s \in Settled(r, "arbitration_decision", refund)
    PROVE  Good(s) /\ Consistent(s) /\ r.state = "disputed" /\ s.total = r.total
  <1>1. "arbitration_decision" \in Reasons
    BY DEF Reasons
  <1>2. /\ Good(s) /\ MaySettle(r, "arbitration_decision", refund)
        /\ s.state \in {"refunded", "settled"} /\ s.reason = "arbitration_decision"
        /\ s.total = r.total
    BY <1>1, SettledGood
  <1>3. "arbitration_decision" \notin ObjectiveRefunds
    BY ConstantsAssumption DEF ConstantsAssumption, ObjectiveRefunds
  <1>4. r.state = "disputed"
    BY <1>2, <1>3 DEF MaySettle
  <1> QED  BY <1>2, <1>4 DEF Good, Consistent, Consented

(* An entitlement offer is settled in the transaction that funds it.       *)
LEMMA EntitlementConsistent ==
    ASSUME NEW r, Good(r), NEW s \in Settled(r, "deterministic_entitlement", 0)
    PROVE  Good(s) /\ Consistent(s)
  <1>1. "deterministic_entitlement" \in Reasons
    BY DEF Reasons, Releases
  <1>2. /\ Good(s) /\ MaySettle(r, "deterministic_entitlement", 0)
        /\ s.state \in {"refunded", "settled"} /\ s.version = r.version
        /\ s.reason = "deterministic_entitlement"
    BY <1>1, SettledGood
  <1>3. "deterministic_entitlement" \notin ObjectiveRefunds
    BY ConstantsAssumption DEF ConstantsAssumption, ObjectiveRefunds
  <1>4. r.version = 5
    BY <1>2, <1>3 DEF MaySettle
  <1> QED  BY <1>2, <1>4 DEF Good, Consistent, Consented

-----------------------------------------------------------------------------
(* The records between transactions.                                       *)

IInv == TypeOK /\ OrdersConsistent

(* What no transaction may do to an order it finds as r and leaves as s.   *)
Kept(r, s) ==
    /\ s \in OrderRecord /\ Consistent(s)
    /\ s.total = r.total
    /\ r.fund # 0 => s.fund # 0
    /\ r.reason # "none" => /\ s.reason = r.reason /\ s.state = r.state
                            /\ s.refund = r.refund /\ s.release = r.release
    /\ Overdue(r) => \/ s.state = "funded"
                     \/ s.state = "refunded" /\ s.refund = r.total

MarketKept ==
    /\ TypeOK' /\ OrdersConsistent'
    /\ \A o \in DOMAIN orders : o \in DOMAIN orders' /\ Kept(orders[o], orders'[o])

(* In a consistent market every order's record is good.                    *)
LEMMA IInvGood ==
    ASSUME IInv, NEW o \in DOMAIN orders
    PROVE  /\ o \in Orders /\ orders[o] \in OrderRecord
           /\ Good(orders[o]) /\ Consistent(orders[o])
  BY DEF IInv, TypeOK, OrdersConsistent, Consistent, Good

(* An order that a step leaves alone keeps what it promised.               *)
LEMMA KeptSelf ==
    ASSUME NEW r \in OrderRecord, Consistent(r)
    PROVE  Kept(r, r)
  BY DEF Kept, Overdue

(* The price is in the ledger from `funded' on, a reason from the end on.  *)
LEMMA FundOfState ==
    ASSUME NEW r \in OrderRecord, Sound(r)
    PROVE  /\ r.fund # 0 <=> r.state \notin {"created", "cancelled"}
           /\ r.reason # "none" <=> r.state \in {"refunded", "settled"}
  BY DEF Sound, OrderRecord

(* Leaving `created', whatever for.                                        *)
LEMMA KeptFromCreated ==
    ASSUME NEW r, Good(r), r.state = "created",
           NEW s, Good(s), Consistent(s), s.total = r.total
    PROVE  Kept(r, s)
  <1>1. r.fund = 0 /\ r.reason = "none"
    BY DEF Good, Sound
  <1> QED  BY <1>1 DEF Kept, Overdue, Good

(* An order whose money is held, and not overdue, keeps its money.         *)
LEMMA KeptFromHeld ==
    ASSUME NEW r, Good(r), r.reason = "none", ~Overdue(r),
           NEW s, Good(s), Consistent(s), s.total = r.total,
           s.state \notin {"created", "cancelled"}
    PROVE  Kept(r, s)
  <1>1. s.fund # 0
    BY FundOfState DEF Good
  <1> QED  BY <1>1 DEF Kept, Good

(* Replacing one order by a consistent one keeps the others.               *)
LEMMA PutKeeps ==
    ASSUME IInv, NEW o \in DOMAIN orders, NEW s, Kept(orders[o], s),
           orders' = Put(o, s), UNCHANGED <<now, listings, damage>>
    PROVE  MarketKept
  <1>1. DOMAIN orders' = DOMAIN orders
    BY DEF Put
  <1>2. \A x \in DOMAIN orders : orders'[x] = IF x = o THEN s ELSE orders[x]
    BY DEF Put
  <1>3. \A x \in DOMAIN orders : Kept(orders[x], orders'[x])
    <2>1. SUFFICES ASSUME NEW x \in DOMAIN orders, x # o
                   PROVE  Kept(orders[x], orders[x])
      BY <1>2
    <2> QED  BY IInvGood, KeptSelf
  <1>4. TypeOK'
    BY <1>1, <1>3 DEF IInv, TypeOK, Kept
  <1>5. OrdersConsistent'
    BY <1>1, <1>3 DEF OrdersConsistent, Kept
  <1> QED  BY <1>1, <1>3, <1>4, <1>5 DEF MarketKept

(* So does adding a new one.                                               *)
LEMMA PutNewKeeps ==
    ASSUME IInv, NEW o \in Orders, o \notin DOMAIN orders, NEW s, Good(s), Consistent(s),
           orders' = Put(o, s), UNCHANGED <<now, listings, damage>>
    PROVE  MarketKept
  <1>1. DOMAIN orders' = DOMAIN orders \cup {o}
    BY DEF Put
  <1>2. orders'[o] = s /\ \A x \in DOMAIN orders : orders'[x] = orders[x]
    BY DEF Put
  <1>3. \A x \in DOMAIN orders : Kept(orders[x], orders'[x])
    BY <1>2, IInvGood, KeptSelf
  <1>4. TypeOK'
    BY <1>1, <1>2 DEF IInv, TypeOK, Good
  <1>5. OrdersConsistent'
    BY <1>1, <1>2 DEF IInv, OrdersConsistent
  <1> QED  BY <1>1, <1>3, <1>4, <1>5 DEF MarketKept

-----------------------------------------------------------------------------
(* Every action keeps the market.                                          *)

LEMMA CheckoutKeeps ==
    ASSUME IInv, NEW o \in Orders, NEW b \in Subjects, NEW l \in Listings,
           NEW q \in 1 .. MaxQuantity,
           \/ \E v \in {3, 4} : Create(o, b, l, q, v) \/ Buy(o, b, l, q, v)
           \/ Redeem(o, b, l, q)
    PROVE  MarketKept
  <1>1. TypeOK /\ q \in Nat \ {0}
    BY ConstantsAssumption DEF IInv, ConstantsAssumption
  <1>2. o \notin DOMAIN orders /\ UNCHANGED <<now, listings, damage>>
    BY DEF Create, Buy, Redeem, Fresh
  <1>3. ASSUME NEW v \in {3, 4}, Create(o, b, l, q, v)
        PROVE  MarketKept
    <2>1. /\ Good(NewOrder(b, l, q, v)) /\ NewOrder(b, l, q, v).state = "created"
      BY <1>1, ConstantsAssumption, NewOrderGood
    <2>2. NewOrder(b, l, q, v).release = 0
      BY <2>1 DEF Good, Sound
    <2>3. Consistent(NewOrder(b, l, q, v))
      BY <2>1, <2>2 DEF Good, Consistent
    <2>4. orders' = Put(o, NewOrder(b, l, q, v))
      BY <1>3 DEF Create
    <2> QED  BY <1>2, <2>1, <2>3, <2>4, PutNewKeeps
  <1>4. ASSUME NEW v \in {3, 4}, Buy(o, b, l, q, v)
        PROVE  MarketKept
    <2>1. PICK s \in AfterFunding(NewOrder(b, l, q, v)) : orders' = Put(o, s)
      BY <1>4 DEF Buy
    <2>2. Good(NewOrder(b, l, q, v))
      BY <1>1, ConstantsAssumption, NewOrderGood
    <2>3. Good(s) /\ Consistent(s)
      BY <1>1, <2>2, ConstantsAssumption, AfterFundingConsistent
    <2> QED  BY <1>2, <2>1, <2>3, PutNewKeeps
  <1>5. CASE Redeem(o, b, l, q)
    <2>1. PICK f \in Funded(NewOrder(b, l, q, 5)) :
            \E s \in Settled(f, "deterministic_entitlement", 0) : orders' = Put(o, s)
      BY <1>5 DEF Redeem
    <2>2. PICK s \in Settled(f, "deterministic_entitlement", 0) : orders' = Put(o, s)
      BY <2>1
    <2>3. Good(NewOrder(b, l, q, 5))
      BY <1>1, ConstantsAssumption, NewOrderGood
    <2>4. Good(f)
      BY <1>1, <2>3, ConstantsAssumption, FundedGood
    <2>5. Good(s) /\ Consistent(s)
      BY <2>4, EntitlementConsistent
    <2> QED  BY <1>2, <2>2, <2>5, PutNewKeeps
  <1> QED  BY <1>3, <1>4, <1>5

(* A paid order is held, or was delivered or refunded in the same commit.  *)
LEMMA FundKeeps ==
    ASSUME IInv, NEW o \in DOMAIN orders, Fund(o)
    PROVE  MarketKept
  <1>1. PICK s \in AfterFunding(orders[o]) : orders' = Put(o, s)
    BY DEF Fund
  <1>2. Good(orders[o]) /\ TypeOK
    BY IInvGood DEF IInv
  <1>3. /\ Good(s) /\ Consistent(s) /\ orders[o].state = "created"
        /\ s.total = orders[o].total
    BY <1>2, ConstantsAssumption, AfterFundingConsistent
  <1>4. Kept(orders[o], s)
    BY <1>2, <1>3, KeptFromCreated
  <1> QED  BY <1>1, <1>4, PutKeeps DEF Fund

(* A refund the server establishes keeps any order it applies to.          *)
LEMMA RefundKept ==
    ASSUME NEW r, Good(r), NEW reason \in ObjectiveRefunds,
           NEW s \in Settled(r, reason, r.total)
    PROVE  Kept(r, s)
  <1>1. /\ Good(s) /\ Consistent(s) /\ s.state = "refunded"
        /\ s.refund = r.total /\ r.reason = "none" /\ s.total = r.total
    BY RefundConsistent
  <1>2. s.fund # 0
    BY <1>1, FundOfState DEF Good
  <1> QED  BY <1>1, <1>2 DEF Kept, Good

(* A cancelled order was unpaid, or its whole price goes back.             *)
LEMMA CancelKeeps ==
    ASSUME IInv, NEW o \in DOMAIN orders, Cancel(o)
    PROVE  MarketKept
  <1>1. Good(orders[o])
    BY IInvGood
  <1>2. UNCHANGED <<now, listings, damage>>
    BY DEF Cancel
  <1>3. CASE /\ orders[o].state = "created"
             /\ \E s \in Moved(orders[o], "cancelled", "buyer_cancelled") :
                   orders' = Put(o, s)
    <2>1. PICK s \in Moved(orders[o], "cancelled", "buyer_cancelled") : orders' = Put(o, s)
      BY <1>3
    <2>2. /\ s \in OrderRecord /\ s.state = "cancelled" /\ s.total = orders[o].total
          /\ s.delivery = orders[o].delivery /\ s.reason = orders[o].reason
          /\ s.fund = orders[o].fund /\ s.refund = orders[o].refund
          /\ s.release = orders[o].release
      BY <1>1, <2>1, MovedTyped DEF Good, States
    <2>3. Good(s) /\ Consistent(s)
      BY <1>1, <1>3, <2>2 DEF Good, Sound, Consistent
    <2> QED  BY <1>1, <1>2, <1>3, <2>1, <2>2, <2>3, KeptFromCreated, PutKeeps
  <1>4. CASE \E s \in Settled(orders[o], "buyer_cancelled", orders[o].total) :
                orders' = Put(o, s)
    <2>1. PICK s \in Settled(orders[o], "buyer_cancelled", orders[o].total) :
            orders' = Put(o, s)
      BY <1>4
    <2>2. Kept(orders[o], s)
      BY <1>1, RefundKept DEF ObjectiveRefunds
    <2> QED  BY <1>2, <2>1, <2>2, PutKeeps
  <1> QED  BY <1>3, <1>4 DEF Cancel

(* A submitted delivery changes nothing about the money.                   *)
LEMMA SubmitKeeps ==
    ASSUME IInv, NEW o \in DOMAIN orders, Submit(o)
    PROVE  MarketKept
  <1>1. PICK s \in Prepared(orders[o]) : orders' = Put(o, s)
    BY DEF Submit
  <1>2. Good(orders[o])
    BY IInvGood
  <1>3. /\ Good(s) /\ orders[o].state = "funded" /\ s.state = "delivered"
        /\ s.total = orders[o].total /\ s.release = 0
    BY <1>2, PreparedGood
  <1>4. Consistent(s)
    BY <1>3 DEF Good, Consistent
  <1>5. ~Overdue(orders[o])
    <2>1. now < orders[o].funded_at + DeliveryTimeout
      BY DEF Submit
    <2>2. orders[o].funded_at \in Int /\ now \in Int /\ DeliveryTimeout \in Int
      BY <1>2, ConstantsAssumption
         DEF Good, OrderRecord, Time, IInv, TypeOK, ConstantsAssumption
    <2> QED  BY <2>1, <2>2 DEF Overdue
  <1>6. orders[o].reason = "none"
    BY <1>2, <1>3 DEF Good, Sound
  <1>7. Kept(orders[o], s)
    BY <1>2, <1>3, <1>4, <1>5, <1>6, KeptFromHeld
  <1> QED  BY <1>1, <1>7, PutKeeps DEF Submit

(* A claim is recorded with the release it consents to, or after it.       *)
LEMMA AcceptKeeps ==
    ASSUME IInv, NEW o \in DOMAIN orders, Accept(o)
    PROVE  MarketKept
  <1>1. Good(orders[o]) /\ Consistent(orders[o])
    BY IInvGood
  <1>2. orders[o].delivery = "prepared" /\ UNCHANGED <<now, listings, damage>>
    BY DEF Accept
  <1>3. CASE \E s \in Released(orders[o], "buyer_acceptance") : orders' = Put(o, Claimed(s))
    <2>1. PICK s \in Released(orders[o], "buyer_acceptance") : orders' = Put(o, Claimed(s))
      BY <1>3
    <2>2. /\ Good(s) /\ orders[o].state = "delivered" /\ s.state = "settled"
          /\ s.reason = "buyer_acceptance" /\ s.total = orders[o].total
      BY <1>1, ReleasedGood DEF Releases
    <2>3. /\ Claimed(s) \in OrderRecord /\ Claimed(s).state = s.state
          /\ Claimed(s).total = s.total /\ Claimed(s).delivery = "claimed"
          /\ Claimed(s).fund = s.fund /\ Claimed(s).refund = s.refund
          /\ Claimed(s).release = s.release /\ Claimed(s).reason = s.reason
      BY <2>2 DEF Claimed, Good, OrderRecord
    <2>4. Good(Claimed(s)) /\ Consistent(Claimed(s))
      BY <2>2, <2>3 DEF Good, Sound, Consistent, Consented
    <2>5. orders[o].reason = "none" /\ ~Overdue(orders[o])
      BY <1>1, <2>2 DEF Good, Sound, Overdue
    <2>6. Kept(orders[o], Claimed(s))
      BY <1>1, <2>2, <2>3, <2>4, <2>5, KeptFromHeld
    <2> QED  BY <1>2, <2>1, <2>6, PutKeeps
  <1>4. CASE orders[o].state = "settled" /\ orders' = Put(o, Claimed(orders[o]))
    <2> DEFINE r == orders[o]
               s == Claimed(r)
    <2>1. /\ s \in OrderRecord /\ s.state = r.state /\ s.total = r.total
          /\ s.delivery = "claimed" /\ s.fund = r.fund /\ s.refund = r.refund
          /\ s.release = r.release /\ s.reason = r.reason
          /\ s.version = r.version /\ s.listing = r.listing
      BY <1>1 DEF Claimed, Good, OrderRecord
    <2>2. Sound(s)
      BY <1>1, <1>4, <2>1 DEF Good, Sound
    <2>3. Consistent(s)
      BY <1>1, <1>2, <1>4, <2>1, <2>2 DEF Consistent, Consented
    <2>4. Kept(r, s)
      BY <1>4, <2>1, <2>3 DEF Kept, Overdue
    <2> QED  BY <1>2, <1>4, <2>4, PutKeeps
  <1> QED  BY <1>3, <1>4 DEF Accept

(* objective_fault() reports only what an objective refund may name.       *)
LEMMA FaultsAreObjective ==
    ASSUME TypeOK, NEW o \in DOMAIN orders, ObjectiveFault(o) # "none"
    PROVE  ObjectiveFault(o) \in ObjectiveRefunds
  <1>1. o \in Orders /\ orders[o].listing \in Listings
    BY DEF TypeOK, OrderRecord
  <1>2. Goods(o) \in Faults \cup {"none"}
    BY <1>1 DEF Goods, TypeOK
  <1> QED  BY <1>2 DEF ObjectiveFault, ObjectiveRefunds

(* An objective fault refunds the whole price.                             *)
LEMMA ObjectiveRefundKeeps ==
    ASSUME IInv, NEW o \in DOMAIN orders, ObjectiveRefund(o)
    PROVE  MarketKept
  <1>1. PICK s \in Settled(orders[o], ObjectiveFault(o), orders[o].total) : orders' = Put(o, s)
    BY DEF ObjectiveRefund
  <1>2. ObjectiveFault(o) \in ObjectiveRefunds
    BY FaultsAreObjective DEF ObjectiveRefund, IInv
  <1>3. Kept(orders[o], s)
    BY <1>1, <1>2, IInvGood, RefundKept
  <1> QED  BY <1>1, <1>3, PutKeeps DEF ObjectiveRefund

(* A dispute is opened only where no fault is seen, so never when overdue. *)
LEMMA OpenCaseKeeps ==
    ASSUME IInv, NEW o \in DOMAIN orders, OpenCase(o)
    PROVE  MarketKept
  <1>1. PICK s \in Moved(orders[o], "disputed", "other") : orders' = Put(o, s)
    BY DEF OpenCase
  <1>2. Good(orders[o]) /\ Consistent(orders[o])
    BY IInvGood
  <1>3. /\ s \in OrderRecord /\ s.state = "disputed" /\ s.total = orders[o].total
        /\ s.delivery = orders[o].delivery /\ s.reason = orders[o].reason
        /\ s.fund = orders[o].fund /\ s.refund = orders[o].refund
        /\ s.release = orders[o].release
    BY <1>1, <1>2, MovedTyped DEF Good, States
  <1>4. orders[o].state \in {"funded", "delivered"}
    BY DEF OpenCase
  <1>5. Good(s) /\ Consistent(s)
    BY <1>2, <1>3, <1>4 DEF Good, Sound, Consistent
  <1>6. ~Overdue(orders[o])
    BY DEF OpenCase, ObjectiveFault, Overdue
  <1>7. orders[o].reason = "none"
    BY <1>2, <1>4 DEF Good, Sound
  <1>8. Kept(orders[o], s)
    BY <1>2, <1>3, <1>5, <1>6, <1>7, KeptFromHeld
  <1> QED  BY <1>1, <1>8, PutKeeps DEF OpenCase

(* Actions that rewrite several orders at once.                            *)
LEMMA MapKeeps ==
    ASSUME IInv, DOMAIN orders' = DOMAIN orders,
           \A o \in DOMAIN orders : Kept(orders[o], orders'[o]),
           UNCHANGED <<now, listings, damage>>
    PROVE  MarketKept
  <1>1. TypeOK'
    BY DEF IInv, TypeOK, Kept
  <1>2. OrdersConsistent'
    BY DEF OrdersConsistent, Kept
  <1> QED  BY <1>1, <1>2 DEF MarketKept

(* Each decided order is settled by its own decision.                      *)
LEMMA ExecuteKeeps ==
    ASSUME IInv, NEW refund, DOMAIN refund \subseteq DOMAIN orders, ExecuteDecisions(refund)
    PROVE  MarketKept
  <1>1. /\ DOMAIN orders' = DOMAIN orders /\ UNCHANGED <<now, listings, damage>>
    BY DEF ExecuteDecisions
  <1>2. ASSUME NEW o \in DOMAIN orders
        PROVE  Kept(orders[o], orders'[o])
    <2>1. CASE o \notin DOMAIN refund
      BY <2>1, IInvGood, KeptSelf DEF ExecuteDecisions
    <2>2. CASE o \in DOMAIN refund
      <3>1. orders'[o] \in Settled(orders[o], "arbitration_decision", refund[o])
        <4>1. Settled(orders[o], "arbitration_decision", refund[o]) # {}
          BY <2>2 DEF ExecuteDecisions
        <4>2. orders'[o] = CHOOSE s \in Settled(orders[o], "arbitration_decision", refund[o]) : TRUE
          BY <2>2 DEF ExecuteDecisions
        <4> QED  BY <4>1, <4>2
      <3>2. Good(orders[o])
        BY IInvGood
      <3>3. /\ Good(orders'[o]) /\ Consistent(orders'[o])
            /\ orders[o].state = "disputed" /\ orders'[o].total = orders[o].total
        BY <3>1, <3>2, DecisionConsistent
      <3>4. "arbitration_decision" \in Reasons
        BY DEF Reasons
      <3>5. orders'[o].state \in {"refunded", "settled"}
        BY <3>1, <3>2, <3>4, SettledGood
      <3>6. orders[o].reason = "none" /\ ~Overdue(orders[o])
        BY <3>2, <3>3 DEF Good, Sound, Overdue
      <3> QED  BY <3>2, <3>3, <3>5, <3>6, KeptFromHeld
    <2> QED  BY <2>1, <2>2
  <1> QED  BY <1>1, <1>2, MapKeeps

(* What resolve_due() makes of one row.                                    *)
LEMMA ResolvedKept ==
    ASSUME NEW r, Good(r), Consistent(r), r.state \in {"created", "funded"},
           NEW s \in Resolved(r)
    PROVE  Kept(r, s)
  <1>1. CASE s = r
    BY <1>1, KeptSelf DEF Good
  <1>2. CASE r.state = "created" /\ s \in Moved(r, "cancelled", "funding_timeout")
    <2>1. /\ s \in OrderRecord /\ s.state = "cancelled" /\ s.total = r.total
          /\ s.delivery = r.delivery /\ s.reason = r.reason
          /\ s.fund = r.fund /\ s.refund = r.refund /\ s.release = r.release
      BY <1>2, MovedTyped DEF Good, States
    <2>2. Good(s) /\ Consistent(s)
      BY <1>2, <2>1 DEF Good, Sound, Consistent
    <2> QED  BY <1>2, <2>1, <2>2, KeptFromCreated
  <1>3. CASE s \in Settled(r, "delivery_timeout", r.total)
    BY <1>3, RefundKept DEF ObjectiveRefunds
  <1> QED  BY <1>1, <1>2, <1>3 DEF Resolved

(* The worker cancels reservations and refunds overdue payments.           *)
LEMMA ResolveKeeps ==
    ASSUME IInv, ResolveDue
    PROVE  MarketKept
  <1>1. PICK batch \in (SUBSET Due) \ {{}} :
          /\ \A o \in batch : Resolved(orders[o]) # {}
          /\ orders' = [o \in DOMAIN orders |->
                          IF o \in batch THEN CHOOSE s \in Resolved(orders[o]) : TRUE
                          ELSE orders[o]]
          /\ UNCHANGED <<now, listings, damage>>
    BY DEF ResolveDue
  <1>2. ASSUME NEW o \in DOMAIN orders
        PROVE  Kept(orders[o], orders'[o])
    <2>1. CASE o \notin batch
      BY <1>1, <2>1, IInvGood, KeptSelf
    <2>2. CASE o \in batch
      <3>1. orders[o].state \in {"created", "funded"}
        BY <2>2 DEF Due
      <3>2. orders'[o] \in Resolved(orders[o])
        BY <1>1, <2>2
      <3> QED  BY <3>1, <3>2, IInvGood, ResolvedKept
    <2> QED  BY <2>1, <2>2
  <1> QED  BY <1>1, <1>2, MapKeeps

(* A retired key is no part of what an order promises.                     *)
LEMMA RetireKeyKeeps ==
    ASSUME IInv, NEW b \in Subjects, RetireKey(b)
    PROVE  MarketKept
  <1>1. DOMAIN orders' = DOMAIN orders /\ UNCHANGED <<now, listings, damage>>
    BY DEF RetireKey
  <1>2. ASSUME NEW o \in DOMAIN orders
        PROVE  Kept(orders[o], orders'[o])
    <2> DEFINE r == orders[o]
               s == [r EXCEPT !.recipient_key = "retired"]
    <2>1. Good(r) /\ Consistent(r)
      BY IInvGood
    <2>2. orders'[o] = r \/ orders'[o] = s
      BY DEF RetireKey
    <2>3. /\ s \in OrderRecord /\ s.state = r.state /\ s.total = r.total
          /\ s.delivery = r.delivery /\ s.reason = r.reason
          /\ s.fund = r.fund /\ s.refund = r.refund /\ s.release = r.release
          /\ s.version = r.version /\ s.listing = r.listing
          /\ s.created_at = r.created_at /\ s.funded_at = r.funded_at
          /\ s.expires_at = r.expires_at
      BY <2>1 DEF Good, OrderRecord
    <2>4. Sound(s)
      BY <2>1, <2>3 DEF Good, Sound
    <2>5. Consistent(s)
      BY <2>1, <2>3, <2>4 DEF Consistent, Consented
    <2>6. Kept(r, s)
      BY <2>3, <2>5 DEF Kept, Overdue
    <2>7. Kept(r, r)
      BY <2>1, KeptSelf DEF Good
    <2> QED  BY <2>2, <2>6, <2>7
  <1> QED  BY <1>1, <1>2, MapKeeps

(* Steps that leave the orders alone.                                      *)
LEMMA OutsideKeeps ==
    ASSUME IInv, UNCHANGED orders, TypeOK'
    PROVE  MarketKept
  <1>1. OrdersConsistent'
    BY DEF IInv, OrdersConsistent
  <1>2. \A o \in DOMAIN orders : Kept(orders[o], orders'[o])
    BY IInvGood, KeptSelf
  <1> QED  BY <1>1, <1>2 DEF MarketKept

(* Every step of the market keeps every order consistent.                  *)
LEMMA StepKeeps ==
    ASSUME IInv, [Next]_vars
    PROVE  MarketKept
  <1> USE DEF Next, MarketStep, DisputeStep
  <1>1. CASE Checkout
    BY <1>1, CheckoutKeeps DEF Checkout
  <1>2. ASSUME NEW o \in DOMAIN orders, OrderStep(o)
        PROVE  MarketKept
    BY <1>2, FundKeeps, CancelKeeps, SubmitKeeps, AcceptKeeps, ObjectiveRefundKeeps
       DEF OrderStep
  <1>3. CASE ResolveDue
    BY <1>3, ResolveKeeps
  <1>4. CASE Tick
    <2>1. TypeOK'
      BY <1>4, ConstantsAssumption DEF Tick, IInv, TypeOK, Time, ConstantsAssumption
    <2> QED  BY <1>4, <2>1, OutsideKeeps DEF Tick
  <1>5. ASSUME NEW l \in Listings, NEW active \in BOOLEAN, NEW quantity \in 1 .. MaxQuantity,
               UpdateListing(l, active, quantity)
        PROVE  MarketKept
    <2>1. quantity \in Nat
      BY ConstantsAssumption DEF ConstantsAssumption
    <2>2. TypeOK'
      BY <1>5, <2>1 DEF UpdateListing, IInv, TypeOK
    <2> QED  BY <1>5, <2>2, OutsideKeeps DEF UpdateListing
  <1>6. ASSUME NEW b \in Subjects, RetireKey(b)
        PROVE  MarketKept
    BY <1>6, RetireKeyKeeps
  <1>7. ASSUME NEW x \in Stored, LoseBytes(x)
        PROVE  MarketKept
    <2>1. TypeOK'
      BY <1>7 DEF LoseBytes, IInv, TypeOK
    <2> QED  BY <1>7, <2>1, OutsideKeeps DEF LoseBytes
  <1>8. ASSUME NEW o \in DOMAIN orders, OpenCase(o)
        PROVE  MarketKept
    BY <1>8, OpenCaseKeeps
  <1>9. ASSUME NEW decided \in (SUBSET DOMAIN orders) \ {{}},
               NEW refund \in [decided -> UNION {0 .. orders[o].total : o \in decided}],
               ExecuteDecisions(refund)
        PROVE  MarketKept
    <2>1. DOMAIN refund \subseteq DOMAIN orders
      OBVIOUS
    <2> QED  BY <1>9, <2>1, ExecuteKeeps
  <1>10. CASE UNCHANGED vars
    <2>1. TypeOK'
      BY <1>10 DEF vars, IInv, TypeOK
    <2> QED  BY <1>10, <2>1, OutsideKeeps DEF vars
  <1> QED  BY <1>1, <1>2, <1>3, <1>4, <1>5, <1>6, <1>7, <1>8, <1>9, <1>10

-----------------------------------------------------------------------------
(* What module Arbitration relies on: the market itself opens no case and  *)
(* decides none.                                                           *)

(* What no step changes of an order; one that is out of the market stays   *)
(* out.                                                                    *)
TermsKept(r, s) ==
    /\ s.buyer = r.buyer /\ s.listing = r.listing /\ s.quantity = r.quantity
    /\ r.state \in {"cancelled", "refunded"} => s.state = r.state

(* What every step keeps of an order whose case it does not touch.         *)
CaseKept(r, s) ==
    /\ TermsKept(r, s)
    /\ s.state = "disputed" <=> r.state = "disputed"
    /\ s.reason = "arbitration_decision" <=> r.reason = "arbitration_decision"

NoCase(s) == s.state # "disputed" /\ s.reason # "arbitration_decision"

CasesKept ==
    \A o \in DOMAIN orders' : IF o \in DOMAIN orders
                              THEN CaseKept(orders[o], orders'[o])
                              ELSE NoCase(orders'[o])

(* settle() for any reason but a decision demands an order in no dispute.  *)
LEMMA SettledCase ==
    ASSUME NEW r \in OrderRecord, NEW reason, NEW refund,
           NEW s \in Settled(r, reason, refund)
    PROVE  /\ TermsKept(r, s)
           /\ s.state \in {"refunded", "settled"} /\ s.reason = reason
           /\ r.reason = "none" /\ s.refund = r.refund + refund
           /\ reason = "arbitration_decision" <=> r.state = "disputed"
           /\ reason = "arbitration_decision" => refund \in 0 .. r.total
  <1>1. PICK m \in Moved(r, Final(r, refund), reason) :
          /\ MaySettle(r, reason, refund)
          /\ s = [m EXCEPT !.refund = @ + refund, !.release = @ + Remainder(r, refund),
                           !.reason = reason]
    BY DEF Settled
  <1>2. m = [r EXCEPT !.state = Final(r, refund)]
    BY <1>1 DEF Moved
  <1>3. Final(r, refund) \in {"refunded", "settled"}
    BY DEF Final
  <1>4. /\ m.buyer = r.buyer /\ m.listing = r.listing /\ m.state = Final(r, refund)
        /\ m.refund = r.refund /\ m.quantity = r.quantity
    BY <1>2 DEF OrderRecord
  <1>5. /\ s.buyer = m.buyer /\ s.listing = m.listing /\ s.state = m.state
        /\ s.reason = reason /\ s.refund = m.refund + refund
        /\ s.quantity = m.quantity
    <2>1. m \in [state : {"refunded", "settled"}, version : {3, 4, 5}, listing : Listings,
                 buyer : Subjects, quantity : Nat, total : Nat \ {0},
                 created_at : Time, funded_at : Time \cup {Null}, expires_at : Nat,
                 recipient_key : {"none", "live", "retired"},
                 delivery : {"none", "prepared", "claimed"},
                 fund : Nat, refund : Nat, release : Nat,
                 reason : Reasons \cup {"none"}]
      BY <1>2, <1>3 DEF OrderRecord
    <2> QED  BY <1>1, <2>1
  <1>6. /\ r.reason = "none"
        /\ reason = "arbitration_decision" <=> r.state = "disputed"
        /\ refund \in 0 .. r.total /\ r.state \notin {"cancelled", "refunded"}
    BY <1>1, ConstantsAssumption DEF MaySettle, ObjectiveRefunds, ConstantsAssumption
  <1> QED  BY <1>3, <1>4, <1>5, <1>6 DEF TermsKept

LEMMA MovedCase ==
    ASSUME NEW r \in OrderRecord, NEW state \in States, NEW reason,
           NEW s \in Moved(r, state, reason)
    PROVE  /\ s.buyer = r.buyer /\ s.listing = r.listing /\ s.reason = r.reason
           /\ s.quantity = r.quantity /\ s.state = state
           /\ TermsKept(r, s) /\ r.state \notin {"cancelled", "refunded"}
  <1>1. s = [r EXCEPT !.state = state] /\ r.state \in States
    BY DEF Moved, OrderRecord
  <1>2. r.state \notin {"cancelled", "refunded"}
    BY <1>1 DEF Moved, TRANSITIONS, States
  <1> QED  BY <1>1, <1>2 DEF OrderRecord, TermsKept

(* The handlers of a paid order keep out of the dispute.                   *)
LEMMA FundedCase ==
    ASSUME ConstantsAssumption, TypeOK, NEW r, Good(r), NEW s \in Funded(r)
    PROVE  CaseKept(r, s) /\ r.state = "created"
  <1>1. PICK m \in Moved(r, "funded", "signed_payment_intent") :
          s = [m EXCEPT !.fund = @ + r.total, !.funded_at = now,
                        !.expires_at = now + DeliveryTimeout]
    BY DEF Funded
  <1>2. r \in OrderRecord /\ "funded" \in States
    BY DEF Good, States
  <1>3. /\ m \in OrderRecord /\ m.buyer = r.buyer /\ m.listing = r.listing
        /\ m.reason = r.reason /\ m.state = "funded" /\ m.quantity = r.quantity
    BY <1>1, <1>2, MovedCase, MovedTyped
  <1>4. /\ s.buyer = m.buyer /\ s.listing = m.listing /\ s.quantity = m.quantity
        /\ s.reason = m.reason /\ s.state = m.state
    BY <1>1, <1>3 DEF OrderRecord
  <1>5. r.state = "created"
    BY FundedGood
  <1> QED  BY <1>3, <1>4, <1>5 DEF CaseKept, TermsKept

LEMMA PreparedCase ==
    ASSUME NEW r, Good(r), NEW s \in Prepared(r)
    PROVE  CaseKept(r, s)
  <1>1. PICK m \in Moved(r, "delivered", "verified_delivery") :
          r.state = "funded" /\ s = [m EXCEPT !.delivery = "prepared"]
    BY DEF Prepared
  <1>2. r \in OrderRecord /\ "delivered" \in States
    BY DEF Good, States
  <1>3. /\ m \in OrderRecord /\ m.buyer = r.buyer /\ m.listing = r.listing
        /\ m.reason = r.reason /\ m.state = "delivered" /\ m.quantity = r.quantity
    BY <1>1, <1>2, MovedCase, MovedTyped
  <1>4. /\ s.buyer = m.buyer /\ s.listing = m.listing /\ s.quantity = m.quantity
        /\ s.reason = m.reason /\ s.state = m.state
    BY <1>1, <1>3 DEF OrderRecord
  <1> QED  BY <1>1, <1>3, <1>4 DEF CaseKept, TermsKept

LEMMA SettlementCase ==
    ASSUME NEW r \in OrderRecord, NEW reason, reason # "arbitration_decision",
           NEW refund, NEW s \in Settled(r, reason, refund)
    PROVE  CaseKept(r, s)
  BY SettledCase DEF CaseKept

LEMMA CaseKeptThrough ==
    ASSUME NEW r, NEW m, NEW s, CaseKept(r, m), CaseKept(m, s)
    PROVE  CaseKept(r, s)
  BY DEF CaseKept, TermsKept

LEMMA ReleasedCase ==
    ASSUME NEW r, Good(r), NEW reason \in Releases, NEW s \in Released(r, reason)
    PROVE  CaseKept(r, s)
  <1>1. PICK m \in Moved(r, "accepted", reason) : s \in Settled(m, reason, 0)
    BY DEF Released
  <1>2. r \in OrderRecord /\ "accepted" \in States /\ reason # "arbitration_decision"
    BY DEF Good, States, Releases
  <1>3. /\ m \in OrderRecord /\ TermsKept(r, m)
        /\ m.reason = r.reason /\ m.state = "accepted"
    BY <1>1, <1>2, MovedCase, MovedTyped
  <1>4. CaseKept(m, s)
    BY <1>1, <1>2, <1>3, SettlementCase
  <1>5. r.state = "delivered"
    BY ReleasedGood
  <1>6. CaseKept(r, m)
    BY <1>3, <1>5 DEF CaseKept
  <1> QED  BY <1>4, <1>6, CaseKeptThrough

LEMMA ObjectiveReasons == Faults \subseteq ObjectiveRefunds
                          /\ "arbitration_decision" \notin ObjectiveRefunds
  BY ConstantsAssumption DEF ConstantsAssumption, ObjectiveRefunds

LEMMA AutomaticCase ==
    ASSUME TypeOK, NEW r, Good(r), NEW s \in Automatic(r)
    PROVE  CaseKept(r, s)
  <1>1. r \in OrderRecord /\ r.listing \in Listings
    BY DEF Good, OrderRecord
  <1>2. CASE damage[r.listing] # "none"
    <2>1. damage[r.listing] \in ObjectiveRefunds
      BY <1>1, <1>2, ObjectiveReasons DEF TypeOK
    <2>2. s \in Settled(r, damage[r.listing], r.total)
      BY <1>2 DEF Automatic
    <2> QED  BY <1>1, <2>1, <2>2, SettlementCase, ObjectiveReasons
  <1>3. CASE damage[r.listing] = "none" /\ r.version = 4
    <2>1. s \in Prepared(r)
      BY <1>3 DEF Automatic
    <2> QED  BY <2>1, PreparedCase
  <1>4. CASE damage[r.listing] = "none" /\ r.version # 4
    <2>1. PICK m \in Prepared(r) : s \in Released(m, "managed_instant_verified")
      BY <1>4 DEF Automatic
    <2>2. Good(m) /\ CaseKept(r, m)
      BY PreparedGood, PreparedCase
    <2>3. CaseKept(m, s)
      BY <2>1, <2>2, ReleasedCase DEF Releases
    <2> QED  BY <2>2, <2>3, CaseKeptThrough
  <1> QED  BY <1>2, <1>3, <1>4

LEMMA AfterFundingCase ==
    ASSUME ConstantsAssumption, TypeOK, NEW r, Good(r), NEW s \in AfterFunding(r)
    PROVE  CaseKept(r, s)
  <1>1. CASE Mode[r.listing] = "managed_instant"
    <2>1. PICK f \in Funded(r) : s \in Automatic(f)
      BY <1>1 DEF AfterFunding
    <2>2. Good(f) /\ CaseKept(r, f)
      BY FundedGood, FundedCase
    <2>3. CaseKept(f, s)
      BY <2>1, <2>2, AutomaticCase
    <2> QED  BY <2>2, <2>3, CaseKeptThrough
  <1>2. CASE Mode[r.listing] # "managed_instant"
    BY <1>2, FundedCase DEF AfterFunding
  <1> QED  BY <1>1, <1>2

LEMMA ResolvedCase ==
    ASSUME NEW r, Good(r), NEW s \in Resolved(r), r.state \in {"created", "funded"}
    PROVE  CaseKept(r, s)
  <1>1. r \in OrderRecord /\ "cancelled" \in States
    BY DEF Good, States
  <1>2. CASE s = r
    BY <1>2 DEF CaseKept, TermsKept
  <1>3. CASE r.state = "created" /\ s \in Moved(r, "cancelled", "funding_timeout")
    BY <1>1, <1>3, MovedCase DEF CaseKept
  <1>4. CASE s \in Settled(r, "delivery_timeout", r.total)
    BY <1>1, <1>4, SettlementCase
  <1> QED  BY <1>2, <1>3, <1>4 DEF Resolved

LEMMA PutCase ==
    ASSUME NEW o \in DOMAIN orders, NEW s, CaseKept(orders[o], s), orders' = Put(o, s)
    PROVE  CasesKept
  <1>1. DOMAIN orders' = DOMAIN orders
    BY DEF Put
  <1>2. \A x \in DOMAIN orders : orders'[x] = IF x = o THEN s ELSE orders[x]
    BY DEF Put
  <1> QED  BY <1>1, <1>2 DEF CasesKept, CaseKept, TermsKept

LEMMA PutNewCase ==
    ASSUME NEW o, o \notin DOMAIN orders, NEW r, NoCase(r), NEW s, CaseKept(r, s),
           orders' = Put(o, s)
    PROVE  CasesKept
  <1>1. DOMAIN orders' = DOMAIN orders \cup {o}
    BY DEF Put
  <1>2. orders'[o] = s /\ \A x \in DOMAIN orders : orders'[x] = orders[x]
    BY DEF Put
  <1> QED  BY <1>1, <1>2 DEF CasesKept, CaseKept, TermsKept, NoCase

(* Checkout, payment and redemption.                                       *)
LEMMA CheckoutCases ==
    ASSUME IInv, Checkout
    PROVE  CasesKept
  <1>1. PICK o \in Orders, b \in Subjects, l \in Listings, q \in 1 .. MaxQuantity :
          \/ \E v \in {3, 4} : Create(o, b, l, q, v) \/ Buy(o, b, l, q, v)
          \/ Redeem(o, b, l, q)
    BY DEF Checkout
  <1>2. TypeOK /\ q \in Nat \ {0}
    BY ConstantsAssumption DEF IInv, ConstantsAssumption
  <1>3. o \notin DOMAIN orders
    BY <1>1 DEF Create, Buy, Redeem, Fresh
  <1>4. ASSUME NEW v \in {3, 4, 5}
        PROVE  Good(NewOrder(b, l, q, v)) /\ NoCase(NewOrder(b, l, q, v))
    <2>1. Good(NewOrder(b, l, q, v)) /\ NewOrder(b, l, q, v).state = "created"
      BY <1>2, NewOrderGood, ConstantsAssumption
    <2> QED  BY <2>1 DEF Good, Sound, NoCase
  <1>5. ASSUME NEW v \in {3, 4}, Create(o, b, l, q, v)
        PROVE  CasesKept
    <2>1. orders' = Put(o, NewOrder(b, l, q, v))
      BY <1>5 DEF Create
    <2>2. NoCase(NewOrder(b, l, q, v))
      BY <1>4
    <2> QED  BY <1>3, <2>1, <2>2, PutNewCase DEF CaseKept, TermsKept
  <1>6. ASSUME NEW v \in {3, 4}, Buy(o, b, l, q, v)
        PROVE  CasesKept
    <2>1. PICK s \in AfterFunding(NewOrder(b, l, q, v)) : orders' = Put(o, s)
      BY <1>6 DEF Buy
    <2>2. Good(NewOrder(b, l, q, v)) /\ NoCase(NewOrder(b, l, q, v))
      BY <1>4
    <2>3. CaseKept(NewOrder(b, l, q, v), s)
      BY <1>2, <2>2, AfterFundingCase, ConstantsAssumption
    <2> QED  BY <1>3, <2>1, <2>2, <2>3, PutNewCase
  <1>7. ASSUME Redeem(o, b, l, q)
        PROVE  CasesKept
    <2> DEFINE r == NewOrder(b, l, q, 5)
    <2>1. PICK f \in Funded(r) : \E s \in Settled(f, "deterministic_entitlement", 0) :
             orders' = Put(o, s)
      BY <1>7 DEF Redeem
    <2>2. PICK s \in Settled(f, "deterministic_entitlement", 0) : orders' = Put(o, s)
      BY <2>1
    <2>3. Good(r) /\ NoCase(r)
      BY <1>4
    <2> HIDE DEF r
    <2>4. Good(f) /\ CaseKept(r, f)
      BY <1>2, <2>3, FundedGood, FundedCase, ConstantsAssumption
    <2>5. CaseKept(f, s)
      BY <2>4, SettlementCase DEF Good
    <2>6. CaseKept(r, s)
      BY <2>4, <2>5, CaseKeptThrough
    <2> QED  BY <1>3, <2>2, <2>3, <2>6, PutNewCase
  <1> QED  BY <1>1, <1>5, <1>6, <1>7

(* The steps of one order.                                                 *)
LEMMA OrderStepCases ==
    ASSUME IInv, NEW o \in DOMAIN orders, OrderStep(o)
    PROVE  CasesKept
  <1>1. Good(orders[o]) /\ orders[o] \in OrderRecord /\ TypeOK
    BY IInvGood DEF IInv
  <1>2. CASE Fund(o)
    <2>1. PICK s \in AfterFunding(orders[o]) : orders' = Put(o, s)
      BY <1>2 DEF Fund
    <2> QED  BY <1>1, <2>1, AfterFundingCase, PutCase, ConstantsAssumption
  <1>3. CASE Cancel(o)
    <2>1. CASE /\ orders[o].state = "created"
               /\ \E s \in Moved(orders[o], "cancelled", "buyer_cancelled") : orders' = Put(o, s)
      <3>1. PICK s \in Moved(orders[o], "cancelled", "buyer_cancelled") : orders' = Put(o, s)
        BY <2>1
      <3>2. CaseKept(orders[o], s)
        BY <1>1, <2>1, MovedCase DEF CaseKept, States
      <3> QED  BY <3>1, <3>2, PutCase
    <2>2. CASE \E s \in Settled(orders[o], "buyer_cancelled", orders[o].total) : orders' = Put(o, s)
      BY <1>1, <2>2, SettlementCase, PutCase
    <2> QED  BY <1>3, <2>1, <2>2 DEF Cancel
  <1>4. CASE Submit(o)
    <2>1. PICK s \in Prepared(orders[o]) : orders' = Put(o, s)
      BY <1>4 DEF Submit
    <2> QED  BY <1>1, <2>1, PreparedCase, PutCase
  <1>5. CASE Accept(o)
    <2>1. CASE \E s \in Released(orders[o], "buyer_acceptance") : orders' = Put(o, Claimed(s))
      <3>1. PICK s \in Released(orders[o], "buyer_acceptance") : orders' = Put(o, Claimed(s))
        BY <2>1
      <3>2. CaseKept(orders[o], s) /\ s \in OrderRecord
        BY <1>1, ReleasedCase, ReleasedGood DEF Releases, Good
      <3>3. CaseKept(s, Claimed(s))
        BY <3>2 DEF CaseKept, TermsKept, Claimed, OrderRecord
      <3>4. CaseKept(orders[o], Claimed(s))
        BY <3>2, <3>3, CaseKeptThrough
      <3> QED  BY <3>1, <3>4, PutCase
    <2>2. CASE orders' = Put(o, Claimed(orders[o]))
      <3>1. CaseKept(orders[o], Claimed(orders[o]))
        BY <1>1 DEF CaseKept, TermsKept, Claimed, OrderRecord
      <3> QED  BY <2>2, <3>1, PutCase
    <2> QED  BY <1>5, <2>1, <2>2 DEF Accept
  <1>6. CASE ObjectiveRefund(o)
    <2>1. PICK s \in Settled(orders[o], ObjectiveFault(o), orders[o].total) : orders' = Put(o, s)
      BY <1>6 DEF ObjectiveRefund
    <2>2. ObjectiveFault(o) # "arbitration_decision"
      BY <1>1, <1>6, FaultsAreObjective, ObjectiveReasons DEF ObjectiveRefund
    <2> QED  BY <1>1, <2>1, <2>2, SettlementCase, PutCase
  <1> QED  BY <1>2, <1>3, <1>4, <1>5, <1>6 DEF OrderStep

(* Sweeps, retired keys and whatever leaves the orders alone.              *)
LEMMA ResolveCasesKept ==
    ASSUME IInv, ResolveDue
    PROVE  CasesKept
  <1>1. PICK batch \in (SUBSET Due) \ {{}} :
          /\ \A o \in batch : Resolved(orders[o]) # {}
          /\ orders' = [o \in DOMAIN orders |->
                          IF o \in batch THEN CHOOSE s \in Resolved(orders[o]) : TRUE
                          ELSE orders[o]]
    BY DEF ResolveDue
  <1>2. ASSUME NEW o \in DOMAIN orders
        PROVE  CaseKept(orders[o], orders'[o])
    <2>1. CASE o \in batch
      <3>1. orders'[o] \in Resolved(orders[o]) /\ orders[o].state \in {"created", "funded"}
        BY <1>1, <2>1 DEF Due
      <3> QED  BY <3>1, IInvGood, ResolvedCase
    <2>2. CASE o \notin batch
      BY <1>1, <2>2 DEF CaseKept, TermsKept
    <2> QED  BY <2>1, <2>2
  <1> QED  BY <1>1, <1>2 DEF CasesKept

LEMMA MarketCases ==
    ASSUME IInv, MarketStep
    PROVE  CasesKept
  <1>1. CASE \E o \in DOMAIN orders : OrderStep(o)
    BY <1>1, OrderStepCases
  <1>2. ASSUME NEW b \in Subjects, RetireKey(b)
        PROVE  CasesKept
    <2>1. DOMAIN orders' = DOMAIN orders
      BY <1>2 DEF RetireKey
    <2>2. ASSUME NEW o \in DOMAIN orders
          PROVE  CaseKept(orders[o], orders'[o])
      <3>1. orders[o] \in OrderRecord
        BY IInvGood
      <3>2. orders'[o] \in {orders[o], [orders[o] EXCEPT !.recipient_key = "retired"]}
        BY <1>2 DEF RetireKey
      <3> QED  BY <3>1, <3>2 DEF CaseKept, TermsKept, OrderRecord
    <2> QED  BY <2>1, <2>2 DEF CasesKept
  <1>3. CASE UNCHANGED orders
    BY <1>3 DEF CasesKept, CaseKept, TermsKept
  <1> QED
    BY <1>1, <1>2, <1>3, CheckoutCases, ResolveCasesKept
       DEF MarketStep, Tick, UpdateListing, LoseBytes

(* The two steps of a dispute: one order goes into it, or every order of a *)
(* set of decisions comes out of it with the refund its decision allots.   *)
LEMMA OpenCaseCases ==
    ASSUME IInv, NEW o \in DOMAIN orders, OpenCase(o)
    PROVE  /\ DOMAIN orders' = DOMAIN orders
           /\ \A x \in DOMAIN orders \ {o} : orders'[x] = orders[x]
           /\ TermsKept(orders[o], orders'[o])
           /\ orders'[o].state = "disputed" /\ orders'[o].reason = orders[o].reason
           /\ orders[o].state # "disputed" /\ orders[o].reason # "arbitration_decision"
  <1>1. PICK s \in Moved(orders[o], "disputed", "other") : orders' = Put(o, s)
    BY DEF OpenCase
  <1>2. Good(orders[o]) /\ orders[o] \in OrderRecord
    BY IInvGood
  <1>3. /\ TermsKept(orders[o], s)
        /\ s.state = "disputed" /\ s.reason = orders[o].reason
    BY <1>1, <1>2, MovedCase DEF States
  <1>4. orders[o].state # "disputed" /\ orders[o].reason # "arbitration_decision"
    BY <1>2 DEF OpenCase, Good, Sound
  <1>5. /\ DOMAIN orders' = DOMAIN orders
        /\ \A x \in DOMAIN orders : orders'[x] = IF x = o THEN s ELSE orders[x]
    BY <1>1 DEF Put
  <1> QED  BY <1>3, <1>4, <1>5

LEMMA ExecuteCases ==
    ASSUME IInv, NEW refund, DOMAIN refund \subseteq DOMAIN orders, ExecuteDecisions(refund)
    PROVE  /\ DOMAIN orders' = DOMAIN orders
           /\ \A o \in DOMAIN orders \ DOMAIN refund : orders'[o] = orders[o]
           /\ \A o \in DOMAIN refund :
                 /\ TermsKept(orders[o], orders'[o])
                 /\ orders[o].state = "disputed" /\ orders'[o].state # "disputed"
                 /\ orders'[o].reason = "arbitration_decision"
                 /\ orders'[o].refund = refund[o] /\ refund[o] \in 0 .. orders[o].total
  <1>1. /\ DOMAIN orders' = DOMAIN orders
        /\ \A o \in DOMAIN orders \ DOMAIN refund : orders'[o] = orders[o]
    BY DEF ExecuteDecisions
  <1>2. ASSUME NEW o \in DOMAIN refund
        PROVE  /\ TermsKept(orders[o], orders'[o])
               /\ orders[o].state = "disputed" /\ orders'[o].state # "disputed"
               /\ orders'[o].reason = "arbitration_decision"
               /\ orders'[o].refund = refund[o] /\ refund[o] \in 0 .. orders[o].total
    <2>1. orders'[o] \in Settled(orders[o], "arbitration_decision", refund[o])
      BY DEF ExecuteDecisions
    <2>2. orders[o] \in OrderRecord /\ Good(orders[o])
      BY IInvGood
    <2>3. /\ orders[o].state = "disputed" /\ refund[o] \in 0 .. orders[o].total
          /\ orders'[o].state \in {"refunded", "settled"}
          /\ orders'[o].reason = "arbitration_decision"
          /\ orders'[o].refund = orders[o].refund + refund[o]
          /\ TermsKept(orders[o], orders'[o])
      BY <2>1, <2>2, SettledCase
    <2>4. orders[o].refund = 0 /\ orders[o].total \in Nat
      BY <2>2, <2>3 DEF Good, Sound, OrderRecord
    <2> QED  BY <2>3, <2>4
  <1> QED  BY <1>1, <1>2

-----------------------------------------------------------------------------
(* The theorems.                                                           *)

LEMMA InitIInv == Init => IInv
  <1> SUFFICES ASSUME Init PROVE IInv
    OBVIOUS
  <1>1. DOMAIN orders = {}
    BY DEF Init
  <1>2. now \in Time
    BY ConstantsAssumption DEF Init, Time, ConstantsAssumption
  <1>3. listings \in [Listings -> [active : BOOLEAN, quantity : Nat]]
    <2>1. listings \in [Listings -> [active : {TRUE}, quantity : 1 .. MaxQuantity]]
      BY DEF Init
    <2>2. 1 .. MaxQuantity \subseteq Nat
      BY ConstantsAssumption DEF ConstantsAssumption
    <2>3. [active : {TRUE}, quantity : 1 .. MaxQuantity] \subseteq [active : BOOLEAN, quantity : Nat]
      BY <2>2
    <2> QED  BY <2>1, <2>3
  <1>4. damage \in [Listings \cup Orders -> Faults \cup {"none"}]
    BY DEF Init
  <1> QED  BY <1>1, <1>2, <1>3, <1>4 DEF IInv, TypeOK, OrdersConsistent

(* The invariant is inductive.                                             *)
LEMMA NextIInv == IInv /\ [Next]_vars => IInv'
  BY StepKeeps DEF MarketKept, IInv

(* At every commit every order is well formed and Consistent.              *)
THEOREM Invariance == Spec => []IInv
  BY InitIInv, NextIInv, PTL DEF Spec

(* The state of the market is always well typed.                           *)
THEOREM TypeCorrect == Spec => []TypeOK
  <1>1. IInv => TypeOK
    BY DEF IInv
  <1> QED  BY <1>1, Invariance, PTL

(* The inductive invariant the runs check is an invariant for every        *)
(* market.                                                                 *)
THEOREM AlwaysConsistent == Spec => []OrdersConsistent
  <1>1. IInv => OrdersConsistent
    BY DEF IInv
  <1> QED  BY <1>1, Invariance, PTL

(* settle() is the only debit of an escrow account: it holds the price     *)
(* exactly while the order is funded, delivered or disputed.               *)
THEOREM EscrowHoldsThePrice == Spec => []EscrowMatchesState
  <1>1. IInv => EscrowMatchesState
    <2> SUFFICES ASSUME IInv, NEW o \in DOMAIN orders
                 PROVE  EscrowBalance(orders[o]) =
                          IF orders[o].state \in Held THEN orders[o].total ELSE 0
      BY DEF EscrowMatchesState
    <2> DEFINE r == orders[o]
    <2>1. /\ Sound(r) /\ r.state # "accepted" /\ r.state \in States
          /\ r.total \in Nat /\ r.fund \in Nat /\ r.refund \in Nat /\ r.release \in Nat
      BY IInvGood DEF Consistent, OrderRecord
    <2>2. CASE r.state \in Held
      <3>1. r.fund = r.total /\ r.refund = 0 /\ r.release = 0
        BY <2>1, <2>2 DEF Sound, Held
      <3> QED  BY <2>1, <2>2, <3>1 DEF EscrowBalance
    <2>3. CASE r.state \in {"created", "cancelled"}
      <3>1. r.fund = 0 /\ r.refund = 0 /\ r.release = 0
        BY <2>1, <2>3 DEF Sound
      <3> QED  BY <2>3, <3>1 DEF EscrowBalance, Held
    <2>4. CASE r.state \in {"refunded", "settled"}
      <3>1. r.fund = r.total /\ r.refund + r.release = r.total
        BY <2>1, <2>4 DEF Sound
      <3> QED  BY <2>1, <2>4, <3>1 DEF EscrowBalance, Held
    <2> QED  BY <2>1, <2>2, <2>3, <2>4 DEF States, Held
  <1> QED  BY <1>1, Invariance, PTL

(* A settlement exists for the refunded and the settled orders, no other,  *)
(* and its legs share out the price.                                       *)
THEOREM SettlementsComplete == Spec => []SettlementComplete
  <1>1. IInv => SettlementComplete
    <2> SUFFICES ASSUME IInv, NEW o \in DOMAIN orders
                 PROVE  /\ (orders[o].reason # "none") <=>
                              (orders[o].state \in {"refunded", "settled"})
                        /\ orders[o].reason # "none" =>
                              orders[o].refund + orders[o].release = orders[o].total
                        /\ orders[o].reason = "none" =>
                              orders[o].refund = 0 /\ orders[o].release = 0
      BY DEF SettlementComplete
    <2> QED  BY IInvGood DEF Good, Sound
  <1> QED  BY <1>1, Invariance, PTL

(* Nobody is paid without the consent the contract version asks for.       *)
THEOREM PaidByConsent == Spec => []SellerPaidByConsent
  <1>1. IInv => SellerPaidByConsent
    BY DEF IInv, OrdersConsistent, Consistent, SellerPaidByConsent
  <1> QED  BY <1>1, Invariance, PTL

(* Only the buyer of goods that were paid for has claimed them.            *)
THEOREM ClaimsArePaid == Spec => []ClaimedMeansSettled
  <1>1. IInv => ClaimedMeansSettled
    BY DEF IInv, OrdersConsistent, Consistent, Sound, ClaimedMeansSettled
  <1> QED  BY <1>1, Invariance, PTL

(* The indexed deadline never disagrees with the one recomputed from the   *)
(* order.                                                                  *)
THEOREM DeadlinesMatch == Spec => []DeadlineMatchesOrigin
  <1>1. IInv => DeadlineMatchesOrigin
    BY DEF IInv, OrdersConsistent, Consistent, Sound, DeadlineMatchesOrigin
  <1> QED  BY <1>1, Invariance, PTL

(* A settlement is final.                                                  *)
THEOREM SettlementsFinal == Spec => SettledOnce
  <1>1. IInv /\ [Next]_vars => SettlementsStay
    <2> SUFFICES ASSUME IInv, [Next]_vars, NEW o \in DOMAIN orders, orders[o].reason # "none"
                 PROVE  /\ o \in DOMAIN orders'
                        /\ orders'[o].reason = orders[o].reason
                        /\ orders'[o].state = orders[o].state
                        /\ orders'[o].fund = orders[o].fund
                        /\ orders'[o].refund = orders[o].refund
                        /\ orders'[o].release = orders[o].release
      BY DEF SettlementsStay
    <2>1. o \in DOMAIN orders' /\ Kept(orders[o], orders'[o])
      BY StepKeeps DEF MarketKept
    <2>2. orders[o].fund = orders[o].total
      BY IInvGood, FundOfState DEF Good, Sound
    <2>3. orders'[o].fund = orders'[o].total
      BY <2>1, FundOfState DEF Kept, Consistent, Sound
    <2> QED  BY <2>1, <2>2, <2>3 DEF Kept
  <1> QED  BY <1>1, Invariance, PTL DEF Spec, SettledOnce

(* After the delivery deadline the money of an undelivered order goes back *)
(* to its buyer or stays where it is.                                      *)
THEOREM OverdueGoesBack == Spec => OverdueOnlyRefunds
  <1>1. IInv /\ [Next]_vars => OverdueGoBack
    <2> SUFFICES ASSUME IInv, [Next]_vars, NEW o \in DOMAIN orders,
                        Overdue(orders[o]), orders'[o].state # "funded"
                 PROVE  /\ orders'[o].state = "refunded"
                        /\ orders'[o].refund = orders[o].total
      BY DEF OverdueGoBack
    <2> QED  BY StepKeeps DEF MarketKept, Kept
  <1> QED  BY <1>1, Invariance, PTL DEF Spec, OverdueOnlyRefunds

-----------------------------------------------------------------------------
(* Balances and stock.  They are sums over all orders, and every step      *)
(* changes them through the orders it touches: only a payment lowers a     *)
(* balance, only a checkout takes stock.                                   *)

(* A step that pays for nothing.                                           *)
NothingPaid ==
    /\ DOMAIN orders' = DOMAIN orders
    /\ \A o \in DOMAIN orders : /\ TermsKept(orders[o], orders'[o])
                                /\ orders[o].fund = 0 => orders'[o].fund = 0

(* A step that pays for an order placed before.                            *)
OnePaid ==
    \E o \in DOMAIN orders, s \in OrderRecord :
        /\ orders' = Put(o, s) /\ TermsKept(orders[o], s)
        /\ CanPay(orders[o].buyer, orders[o].total)

(* A step that places an order, paid or not.                               *)
OnePlaced ==
    \E o \in Orders \ DOMAIN orders, s \in OrderRecord :
        /\ orders' = Put(o, s)
        /\ s.fund = 0 \/ CanPay(s.buyer, s.total)
        /\ \/ Mode[s.listing] = "entitlement"
           \/ Sold(s.listing) + s.quantity <= listings[s.listing].quantity

(* What one order owes or earns while its buyer has paid or not.           *)
LEMMA LegOfRecord ==
    ASSUME NEW r \in OrderRecord, Sound(r), NEW x
    PROVE  /\ Leg(r, x) \in Int
           /\ r.fund = 0 => Leg(r, x) = 0
           /\ Leg(r, x) >= 0 \/ (x = r.buyer /\ Leg(r, x) >= -r.total)
  <1>1. r.fund \in Nat /\ r.refund \in Nat /\ r.release \in Nat /\ r.total \in Nat \ {0}
    BY DEF OrderRecord
  <1>2. r.fund = 0 => r.refund = 0 /\ r.release = 0
    BY <1>1 DEF Sound
  <1>3. r.fund = 0 \/ r.fund = r.total
    BY DEF Sound
  <1> QED  BY <1>1, <1>2, <1>3 DEF Leg

(* A step that does not pay takes nothing from anybody.                    *)
LEMMA LegKept ==
    ASSUME NEW r \in OrderRecord, Sound(r), NEW s, Kept(r, s), TermsKept(r, s),
           r.fund = 0 => s.fund = 0, NEW x
    PROVE  Leg(r, x) <= Leg(s, x)
  <1>1. /\ s \in OrderRecord /\ Sound(s) /\ s.total = r.total
        /\ s.buyer = r.buyer /\ s.listing = r.listing
    BY DEF Kept, Consistent, TermsKept
  <1>2. CASE r.fund = 0
    <2>1. Leg(r, x) = 0 /\ Leg(s, x) = 0
      BY <1>1, <1>2, LegOfRecord
    <2> QED  BY <2>1
  <1>3. CASE r.fund # 0
    <2>1. r.fund = r.total /\ s.fund = r.total
      BY <1>1, <1>3 DEF Sound, Kept
    <2>2. \/ r.refund = 0 /\ r.release = 0
          \/ s.refund = r.refund /\ s.release = r.release
      BY DEF Sound, Kept
    <2>3. /\ r.refund \in Nat /\ r.release \in Nat /\ s.refund \in Nat /\ s.release \in Nat
          /\ r.total \in Nat
      BY <1>1 DEF OrderRecord
    <2>4. r.refund <= s.refund /\ r.release <= s.release
      BY <2>2, <2>3
    <2> QED  BY <1>1, <2>1, <2>3, <2>4 DEF Leg
  <1> QED  BY <1>2, <1>3

(* What is out of the market frees its stock; nothing else changes it.     *)
LEMMA CountedKept ==
    ASSUME NEW r \in OrderRecord, NEW s, TermsKept(r, s), NEW l
    PROVE  /\ Counted(r, l) \in Nat /\ Counted(s, l) \in Nat
           /\ Counted(s, l) <= Counted(r, l)
  BY DEF Counted, TermsKept, OrderRecord

(* A checkout is covered by the buyer's balance and the listing's stock.   *)
LEMMA CheckoutPlaces ==
    ASSUME IInv, Checkout
    PROVE  OnePlaced
  <1>1. PICK o \in Orders, b \in Subjects, l \in Listings, q \in 1 .. MaxQuantity :
          \/ \E v \in {3, 4} : Create(o, b, l, q, v) \/ Buy(o, b, l, q, v)
          \/ Redeem(o, b, l, q)
    BY DEF Checkout
  <1>2. TypeOK /\ q \in Nat \ {0}
    BY ConstantsAssumption DEF IInv, ConstantsAssumption
  <1>3. o \in Orders \ DOMAIN orders
    BY <1>1 DEF Create, Buy, Redeem, Fresh
  <1>4. ASSUME NEW v \in {3, 4, 5}
        PROVE  /\ Good(NewOrder(b, l, q, v)) /\ NewOrder(b, l, q, v).fund = 0
               /\ NewOrder(b, l, q, v).buyer = b /\ NewOrder(b, l, q, v).listing = l
               /\ NewOrder(b, l, q, v).quantity = q
               /\ NewOrder(b, l, q, v).total = Price[l] * q
    <2>1. Good(NewOrder(b, l, q, v))
      BY <1>2, NewOrderGood, ConstantsAssumption
    <2> QED  BY <2>1 DEF NewOrder
  <1>5. ASSUME NEW v \in {3, 4}, Create(o, b, l, q, v)
        PROVE  OnePlaced
    <2>1. orders' = Put(o, NewOrder(b, l, q, v)) /\ Sold(l) + q <= listings[l].quantity
      BY <1>5 DEF Create, Available
    <2> DEFINE r == NewOrder(b, l, q, v)
    <2>2. r \in OrderRecord /\ r.fund = 0 /\ r.listing = l /\ r.quantity = q
      BY <1>4 DEF Good
    <2> HIDE DEF r
    <2>3. orders' = Put(o, r)
      BY <2>1 DEF r
    <2> QED  BY <1>3, <2>1, <2>2, <2>3 DEF OnePlaced
  <1>6. ASSUME NEW v \in {3, 4}, Buy(o, b, l, q, v)
        PROVE  OnePlaced
    <2> DEFINE r == NewOrder(b, l, q, v)
    <2>1. PICK s \in AfterFunding(r) : orders' = Put(o, s)
      BY <1>6 DEF Buy
    <2>2. /\ CanPay(b, Price[l] * q) /\ Sold(l) + q <= listings[l].quantity
      BY <1>6 DEF Buy, Available
    <2>3. Good(r) /\ r.buyer = b /\ r.listing = l /\ r.quantity = q /\ r.total = Price[l] * q
      BY <1>4
    <2> HIDE DEF r
    <2>4. Good(s) /\ s.total = r.total /\ TermsKept(r, s)
      BY <1>2, <2>3, AfterFundingConsistent, AfterFundingCase, ConstantsAssumption DEF CaseKept
    <2>5. /\ s \in OrderRecord /\ s.buyer = b /\ s.listing = l /\ s.quantity = q
          /\ s.total = Price[l] * q
      BY <2>3, <2>4 DEF Good, TermsKept
    <2> QED  BY <1>3, <2>1, <2>2, <2>5 DEF OnePlaced
  <1>7. ASSUME Redeem(o, b, l, q)
        PROVE  OnePlaced
    <2> DEFINE r == NewOrder(b, l, q, 5)
    <2>1. PICK f \in Funded(r) : \E s \in Settled(f, "deterministic_entitlement", 0) :
             orders' = Put(o, s)
      BY <1>7 DEF Redeem
    <2>2. PICK s \in Settled(f, "deterministic_entitlement", 0) : orders' = Put(o, s)
      BY <2>1
    <2>3. CanPay(b, r.total) /\ Mode[l] = "entitlement"
      BY <1>7 DEF Redeem
    <2>4. Good(r) /\ r.buyer = b /\ r.listing = l
      BY <1>4
    <2> HIDE DEF r
    <2>5. Good(f) /\ f.total = r.total /\ TermsKept(r, f)
      BY <1>2, <2>4, FundedGood, FundedCase, ConstantsAssumption DEF CaseKept
    <2>6. Good(s) /\ s.total = f.total /\ TermsKept(f, s)
      BY <2>5, SettledGood, SettledCase DEF Good, Reasons, Releases
    <2>7. s \in OrderRecord /\ s.buyer = b /\ s.listing = l /\ s.total = r.total
      BY <2>4, <2>5, <2>6 DEF Good, TermsKept
    <2> QED  BY <1>3, <2>2, <2>3, <2>7 DEF OnePlaced
  <1> QED  BY <1>1, <1>5, <1>6, <1>7

(* Putting back an order that was paid, or that stays unpaid.              *)
LEMMA PutUnpaid ==
    ASSUME NEW o \in DOMAIN orders, NEW s, orders' = Put(o, s), TermsKept(orders[o], s),
           orders[o].fund = 0 => s.fund = 0
    PROVE  NothingPaid
  <1>1. DOMAIN orders' = DOMAIN orders
    BY DEF Put
  <1>2. \A x \in DOMAIN orders : orders'[x] = IF x = o THEN s ELSE orders[x]
    BY DEF Put
  <1> QED  BY <1>1, <1>2 DEF NothingPaid, TermsKept

LEMMA OrderStepPays ==
    ASSUME IInv, NEW o \in DOMAIN orders, OrderStep(o)
    PROVE  NothingPaid \/ OnePaid
  <1>1. /\ TypeOK /\ orders[o] \in OrderRecord /\ Good(orders[o])
        /\ orders[o].fund # 0 <=> orders[o].state \notin {"created", "cancelled"}
    BY IInvGood, FundOfState DEF IInv, Good
  <1>2. CASE Fund(o)
    <2>1. PICK s \in AfterFunding(orders[o]) : orders' = Put(o, s)
      BY <1>2 DEF Fund
    <2>2. CanPay(orders[o].buyer, orders[o].total)
      BY <1>2 DEF Fund
    <2>3. Good(s) /\ TermsKept(orders[o], s)
      BY <1>1, <2>1, AfterFundingConsistent, AfterFundingCase, ConstantsAssumption DEF CaseKept
    <2> QED  BY <2>1, <2>2, <2>3 DEF OnePaid, Good
  <1>3. CASE OrderStep(o) /\ ~Fund(o)
    <2>1. CASE \E s \in Moved(orders[o], "cancelled", "buyer_cancelled") : orders' = Put(o, s)
      <3>1. PICK s \in Moved(orders[o], "cancelled", "buyer_cancelled") : orders' = Put(o, s)
        BY <2>1
      <3>2. TermsKept(orders[o], s) /\ s.fund = orders[o].fund
        BY <1>1, <3>1, MovedCase, MovedTyped DEF States
      <3> QED  BY <3>1, <3>2, PutUnpaid
    <2>2. CASE orders[o].state \notin {"created", "cancelled"}
      <3>1. PICK s : orders' = Put(o, s)
        BY <1>3 DEF OrderStep, Cancel, Submit, Accept, ObjectiveRefund
      <3>2. CasesKept
        BY MarketCases DEF MarketStep
      <3>3. DOMAIN orders' = DOMAIN orders /\ orders'[o] = s
        BY <3>1 DEF Put
      <3>4. TermsKept(orders[o], s)
        BY <3>2, <3>3 DEF CasesKept, CaseKept
      <3> QED  BY <1>1, <2>2, <3>1, <3>4, PutUnpaid
    <2> QED  BY <1>1, <1>3, <2>1, <2>2 DEF OrderStep, Cancel, Submit, Accept, ObjectiveRefund, MaySettle, Good, Sound
  <1> QED  BY <1>2, <1>3

(* A step of the batch or of the market's outside pays for nothing.        *)
LEMMA MapUnpaid ==
    ASSUME IInv, MarketStep, DOMAIN orders' = DOMAIN orders,
           \A o \in DOMAIN orders :
               orders[o].fund = 0 => orders'[o].fund = orders[o].fund
    PROVE  NothingPaid
  <1>1. CasesKept
    BY MarketCases
  <1> QED  BY <1>1 DEF CasesKept, CaseKept, NothingPaid

LEMMA ResolvePays ==
    ASSUME IInv, ResolveDue
    PROVE  NothingPaid
  <1>1. PICK batch \in (SUBSET Due) \ {{}} :
          /\ \A o \in batch : Resolved(orders[o]) # {}
          /\ orders' = [o \in DOMAIN orders |->
                          IF o \in batch THEN CHOOSE s \in Resolved(orders[o]) : TRUE
                          ELSE orders[o]]
    BY DEF ResolveDue
  <1>2. ASSUME NEW o \in DOMAIN orders, orders[o].fund = 0
        PROVE  orders'[o].fund = orders[o].fund
    <2>1. CASE o \notin batch
      BY <1>1, <2>1
    <2>2. CASE o \in batch
      <3>1. orders'[o] \in Resolved(orders[o]) /\ orders[o].state \in {"created", "funded"}
        BY <1>1, <2>2 DEF Due
      <3>2. orders[o] \in OrderRecord /\ orders[o].state = "created"
        BY <1>2, <3>1, IInvGood, FundOfState DEF Good
      <3>3. orders'[o] = orders[o] \/ orders'[o] \in Moved(orders[o], "cancelled", "funding_timeout")
        BY <3>1, <3>2 DEF Resolved
      <3> QED  BY <3>2, <3>3, MovedTyped DEF States
    <2> QED  BY <2>1, <2>2
  <1>3. DOMAIN orders' = DOMAIN orders /\ MarketStep
    BY <1>1 DEF MarketStep
  <1> QED  BY <1>2, <1>3, MapUnpaid

LEMMA DisputePays ==
    ASSUME IInv, DisputeStep
    PROVE  NothingPaid
  <1>1. ASSUME NEW o \in DOMAIN orders
        PROVE  /\ TermsKept(orders[o], orders[o])
               /\ orders[o].state \in {"funded", "delivered", "disputed"} => orders[o].fund # 0
    BY IInvGood, FundOfState DEF Good, TermsKept
  <1>2. ASSUME NEW o \in DOMAIN orders, OpenCase(o)
        PROVE  NothingPaid
    <2>1. /\ DOMAIN orders' = DOMAIN orders
          /\ \A x \in DOMAIN orders \ {o} : orders'[x] = orders[x]
          /\ TermsKept(orders[o], orders'[o])
      BY <1>2, OpenCaseCases
    <2>2. orders[o].fund # 0
      BY <1>1, <1>2 DEF OpenCase
    <2> QED  BY <1>1, <2>1, <2>2 DEF NothingPaid
  <1>3. ASSUME NEW refund, DOMAIN refund \subseteq DOMAIN orders, ExecuteDecisions(refund)
        PROVE  NothingPaid
    <2>1. /\ DOMAIN orders' = DOMAIN orders
          /\ \A o \in DOMAIN orders \ DOMAIN refund : orders'[o] = orders[o]
          /\ \A o \in DOMAIN refund : /\ TermsKept(orders[o], orders'[o])
                                        /\ orders[o].state = "disputed"
      BY <1>3, ExecuteCases
    <2> QED  BY <1>1, <1>3, <2>1 DEF NothingPaid
  <1> QED  BY <1>2, <1>3 DEF DisputeStep

(* Only fund() and the checkout post the fund leg.                         *)
LEMMA StepPays ==
    ASSUME IInv, [Next]_vars
    PROVE  NothingPaid \/ OnePaid \/ OnePlaced
  <1>1. CASE Checkout
    BY <1>1, CheckoutPlaces
  <1>2. CASE \E o \in DOMAIN orders : OrderStep(o)
    BY <1>2, OrderStepPays
  <1>3. CASE ResolveDue
    BY <1>3, ResolvePays
  <1>4. ASSUME NEW b \in Subjects, RetireKey(b)
        PROVE  NothingPaid
    <2>1. DOMAIN orders' = DOMAIN orders /\ MarketStep
      BY <1>4 DEF RetireKey, MarketStep
    <2>2. ASSUME NEW o \in DOMAIN orders
          PROVE  orders'[o].fund = orders[o].fund
      <3>1. orders[o] \in OrderRecord
        BY IInvGood
      <3>2. orders'[o] \in {orders[o], [orders[o] EXCEPT !.recipient_key = "retired"]}
        BY <1>4 DEF RetireKey
      <3> QED  BY <3>1, <3>2 DEF OrderRecord
    <2> QED  BY <2>1, <2>2, MapUnpaid
  <1>5. CASE UNCHANGED orders
    BY <1>5 DEF NothingPaid, TermsKept
  <1>6. CASE DisputeStep
    BY <1>6, DisputePays
  <1> QED
    BY <1>1, <1>2, <1>3, <1>4, <1>5, <1>6
       DEF Next, MarketStep, Tick, UpdateListing, LoseBytes, vars

Finite == IsFiniteSet(DOMAIN orders)

(* The inductive invariant of the balances.                                *)
BInv == IInv /\ Finite /\ NoOverdraft

LEMMA StepFinite ==
    ASSUME IInv, Finite, [Next]_vars
    PROVE  Finite'
  <1>1. CASE NothingPaid
    BY <1>1 DEF NothingPaid, Finite
  <1>2. CASE OnePaid
    <2>1. DOMAIN orders' = DOMAIN orders
      BY <1>2 DEF OnePaid, Put
    <2> QED  BY <2>1 DEF Finite
  <1>3. CASE OnePlaced
    <2>1. PICK o \in Orders : DOMAIN orders' = DOMAIN orders \cup {o}
      BY <1>3 DEF OnePlaced, Put
    <2> QED  BY <2>1, FS_AddElement DEF Finite
  <1> QED  BY <1>1, <1>2, <1>3, StepPays

(* Every record, before and after a step.                                  *)
LEMMA BothConsistent ==
    ASSUME IInv, [Next]_vars
    PROVE  /\ \A o \in DOMAIN orders : /\ orders[o] \in OrderRecord /\ Sound(orders[o])
                                        /\ Kept(orders[o], orders'[o])
           /\ \A o \in DOMAIN orders' : orders'[o] \in OrderRecord /\ Sound(orders'[o])
  <1>1. MarketKept
    BY StepKeeps
  <1>2. TypeOK' /\ OrdersConsistent'
    BY <1>1 DEF MarketKept
  <1>3. \A o \in DOMAIN orders' : orders'[o] \in OrderRecord /\ Sound(orders'[o])
    BY <1>2 DEF TypeOK, OrdersConsistent, Consistent
  <1>4. \A o \in DOMAIN orders : orders[o] \in OrderRecord /\ Sound(orders[o])
    BY IInvGood DEF Good
  <1> QED  BY <1>1, <1>3, <1>4 DEF MarketKept

(* The balance of a subject after a step: not lower, or it paid what it    *)
(* had.                                                                    *)
LEMMA StepSolvent ==
    ASSUME BInv, [Next]_vars, NEW x \in Subjects
    PROVE  Balance(x)' >= 0
  <1> DEFINE f == [o \in DOMAIN orders |-> Leg(orders[o], x)]
             g == [o \in DOMAIN orders' |-> Leg(orders'[o], x)]
             S == DOMAIN orders
  <1>1. /\ IInv /\ IsFiniteSet(S) /\ IsFiniteSet(DOMAIN orders')
        /\ Balance(x) >= 0 /\ Endowment[x] \in Nat
    <2>1. Finite'
      BY StepFinite DEF BInv
    <2> QED  BY <2>1, ConstantsAssumption DEF BInv, Finite, NoOverdraft, ConstantsAssumption
  <1>2. /\ Balance(x) = Endowment[x] + SumFunctionOnSet(f, S)
        /\ Balance(x)' = Endowment[x] + SumFunctionOnSet(g, DOMAIN orders')
    BY DEF Balance
  <1>3. /\ \A o \in S : f[o] = Leg(orders[o], x) /\ f[o] \in Int
        /\ \A o \in DOMAIN orders' : g[o] = Leg(orders'[o], x) /\ g[o] \in Int
    BY <1>1, BothConsistent, LegOfRecord
  <1>4. SumFunctionOnSet(f, S) \in Int
    BY <1>1, <1>3, SumInt
  <1> HIDE DEF f, g
  <1>5. CASE NothingPaid
    <2>1. DOMAIN orders' = S
      BY <1>5 DEF NothingPaid
    <2>2. \A o \in S : f[o] <= g[o]
      <3>1. SUFFICES ASSUME NEW o \in S PROVE Leg(orders[o], x) <= Leg(orders'[o], x)
        BY <1>3, <2>1
      <3>2. TermsKept(orders[o], orders'[o]) /\ (orders[o].fund = 0 => orders'[o].fund = 0)
        BY <1>5 DEF NothingPaid
      <3> QED  BY <1>1, <3>2, BothConsistent, LegKept
    <2>3. SumFunctionOnSet(f, S) <= SumFunctionOnSet(g, S)
      BY <1>1, <1>3, <2>1, <2>2, SumOrdered
    <2>4. SumFunctionOnSet(g, S) \in Int
      BY <1>1, <1>3, <2>1, SumInt
    <2> QED  BY <1>1, <1>2, <1>4, <2>1, <2>3, <2>4
  <1>6. CASE OnePaid
    <2>1. PICK o \in S, s \in OrderRecord :
             /\ orders' = Put(o, s) /\ TermsKept(orders[o], s)
             /\ CanPay(orders[o].buyer, orders[o].total)
      BY <1>6 DEF OnePaid
    <2>2. DOMAIN orders' = S /\ orders'[o] = s /\ \A y \in S \ {o} : orders'[y] = orders[y]
      BY <2>1 DEF Put
    <2>3. \A y \in S \ {o} : g[y] = f[y]
      BY <1>3, <2>2
    <2>4. SumFunctionOnSet(g, S) = SumFunctionOnSet(f, S) + g[o] - f[o]
      BY <1>1, <1>3, <2>2, <2>3, SumChange
    <2>5. /\ orders[o] \in OrderRecord /\ Sound(orders[o]) /\ Kept(orders[o], s)
          /\ Sound(s) /\ s.total = orders[o].total /\ s.buyer = orders[o].buyer
      BY <1>1, <2>1, <2>2, BothConsistent DEF Kept, TermsKept
    <2>6. CASE orders[o].fund = 0 => s.fund = 0
      <3>1. f[o] <= g[o]
        BY <1>3, <2>1, <2>2, <2>5, <2>6, LegKept
      <3> QED  BY <1>1, <1>2, <1>3, <1>4, <2>2, <2>4, <3>1
    <2>7. CASE orders[o].fund = 0
      <3>1. f[o] = 0
        BY <1>3, <2>5, <2>7, LegOfRecord
      <3>2. g[o] >= 0 \/ (x = s.buyer /\ g[o] >= -s.total)
        BY <1>3, <2>2, <2>5, LegOfRecord
      <3>3. x = s.buyer => Balance(x) >= s.total
        BY <2>1, <2>5 DEF CanPay
      <3>4. s.total \in Nat
        BY DEF OrderRecord
      <3>5. g[o] \in Int
        BY <1>3, <2>2
      <3> QED  BY <1>1, <1>2, <1>4, <2>2, <2>4, <3>1, <3>2, <3>3, <3>4, <3>5
    <2> QED  BY <2>6, <2>7
  <1>7. CASE OnePlaced
    <2>1. PICK o \in Orders \ S, s \in OrderRecord :
             orders' = Put(o, s) /\ (s.fund = 0 \/ CanPay(s.buyer, s.total))
      BY <1>7 DEF OnePlaced
    <2>2. DOMAIN orders' = S \cup {o} /\ orders'[o] = s /\ \A y \in S : orders'[y] = orders[y]
      BY <2>1 DEF Put
    <2>3. \A y \in S : g[y] = f[y]
      BY <1>3, <2>2
    <2>4. SumFunctionOnSet(g, S) = SumFunctionOnSet(f, S)
      BY <1>1, <2>3, SumSame
    <2>5. SumFunctionOnSet(g, S \cup {o}) = SumFunctionOnSet(g, S) + g[o]
      BY <1>1, <1>3, <2>1, <2>2, SumWith
    <2>6. Sound(s) /\ g[o] = Leg(s, x) /\ g[o] \in Int /\ s.total \in Nat
      BY <1>1, <1>3, <2>2, BothConsistent DEF OrderRecord
    <2>7. CASE s.fund = 0
      <3>1. g[o] = 0
        BY <2>6, <2>7, LegOfRecord
      <3> QED  BY <1>1, <1>2, <1>4, <2>2, <2>4, <2>5, <3>1
    <2>8. CASE CanPay(s.buyer, s.total)
      <3>1. g[o] >= 0 \/ (x = s.buyer /\ g[o] >= -s.total)
        BY <2>6, LegOfRecord
      <3>2. x = s.buyer => Balance(x) >= s.total
        BY <2>8 DEF CanPay
      <3> QED  BY <1>1, <1>2, <1>4, <2>2, <2>4, <2>5, <2>6, <3>1, <3>2
    <2> QED  BY <2>1, <2>7, <2>8
  <1> QED  BY <1>1, <1>5, <1>6, <1>7, StepPays

LEMMA InitBInv == Init => BInv
  <1> SUFFICES ASSUME Init PROVE BInv
    OBVIOUS
  <1>1. DOMAIN orders = {}
    BY DEF Init
  <1>2. Finite
    BY <1>1, FS_EmptySet DEF Finite
  <1>3. ASSUME NEW x \in Subjects PROVE Balance(x) >= 0
    <2>1. Balance(x) = Endowment[x] + 0
      BY <1>1, SumEmpty DEF Balance
    <2>2. Endowment[x] \in Nat
      BY ConstantsAssumption DEF ConstantsAssumption
    <2> QED  BY <2>1, <2>2
  <1> QED  BY <1>2, <1>3, InitIInv DEF BInv, NoOverdraft

LEMMA NextBInv == BInv /\ [Next]_vars => BInv'
  <1> SUFFICES ASSUME BInv, [Next]_vars PROVE BInv'
    OBVIOUS
  <1>1. IInv' /\ Finite'
    BY NextIInv, StepFinite DEF BInv
  <1>2. NoOverdraft'
    BY StepSolvent DEF NoOverdraft
  <1> QED  BY <1>1, <1>2 DEF BInv

(* No subject ever owes the ledger: a payment is covered by the balance at *)
(* its own commit, and nothing else debits one (market/ledger.py).         *)
THEOREM NobodyOverdraws == Spec => []NoOverdraft
  <1>1. BInv => NoOverdraft
    BY DEF BInv
  <1> QED  BY <1>1, InitBInv, NextBInv, PTL DEF Spec

(* The stock that counts against a listing grows by a checkout only, and   *)
(* up to what the listing offers at that moment (orders.py create()).      *)
THEOREM StockHolds == Spec => StockNeverOversold
  <1>1. BInv /\ [Next]_vars =>
          \A l \in Listings : Mode[l] # "entitlement" /\ Sold(l)' > Sold(l)
             => Sold(l)' <= listings[l].quantity
    <2> SUFFICES ASSUME BInv, [Next]_vars, NEW l \in Listings, Mode[l] # "entitlement",
                        Sold(l)' > Sold(l)
                 PROVE  Sold(l)' <= listings[l].quantity
      OBVIOUS
    <2> DEFINE f == [o \in DOMAIN orders |-> Counted(orders[o], l)]
               g == [o \in DOMAIN orders' |-> Counted(orders'[o], l)]
               S == DOMAIN orders
    <2>1. IInv /\ IsFiniteSet(S) /\ IsFiniteSet(DOMAIN orders')
      BY StepFinite DEF BInv, Finite
    <2>2. /\ Sold(l) = SumFunctionOnSet(f, S)
          /\ Sold(l)' = SumFunctionOnSet(g, DOMAIN orders')
      BY DEF Sold
    <2>3. /\ \A o \in S : f[o] = Counted(orders[o], l) /\ f[o] \in Nat
          /\ \A o \in DOMAIN orders' : g[o] = Counted(orders'[o], l) /\ g[o] \in Nat
      BY <2>1, BothConsistent DEF Counted, OrderRecord
    <2>4. SumFunctionOnSet(f, S) \in Int /\ SumFunctionOnSet(g, DOMAIN orders') \in Int
      BY <2>1, <2>3, SumInt
    <2> HIDE DEF f, g
    <2>5. ASSUME DOMAIN orders' = S, \A o \in S : TermsKept(orders[o], orders'[o])
          PROVE  FALSE
      <3>1. \A o \in S : g[o] <= f[o]
        BY <2>1, <2>3, <2>5, BothConsistent, CountedKept
      <3>2. SumFunctionOnSet(g, S) <= SumFunctionOnSet(f, S)
        BY <2>1, <2>3, <2>5, <3>1, SumOrdered
      <3> QED  BY <2>2, <2>4, <2>5, <3>2
    <2>6. CASE NothingPaid
      BY <2>5, <2>6 DEF NothingPaid
    <2>7. CASE OnePaid
      <3>1. PICK o \in S, s \in OrderRecord : orders' = Put(o, s) /\ TermsKept(orders[o], s)
        BY <2>7 DEF OnePaid
      <3>2. DOMAIN orders' = S /\ orders'[o] = s /\ \A y \in S \ {o} : orders'[y] = orders[y]
        BY <3>1 DEF Put
      <3>3. \A y \in S : TermsKept(orders[y], orders'[y])
        BY <3>1, <3>2 DEF TermsKept
      <3> QED  BY <2>5, <3>2, <3>3
    <2>8. CASE OnePlaced
      <3>1. PICK o \in Orders \ S, s \in OrderRecord :
               /\ orders' = Put(o, s)
               /\ \/ Mode[s.listing] = "entitlement"
                  \/ Sold(s.listing) + s.quantity <= listings[s.listing].quantity
        BY <2>8 DEF OnePlaced
      <3>2. DOMAIN orders' = S \cup {o} /\ orders'[o] = s /\ \A y \in S : orders'[y] = orders[y]
        BY <3>1 DEF Put
      <3>3. SumFunctionOnSet(g, S) = SumFunctionOnSet(f, S)
        <4>1. \A y \in S : f[y] = g[y]
          BY <2>3, <3>2
        <4> QED  BY <2>1, <4>1, SumSame
      <3>4. SumFunctionOnSet(g, S \cup {o}) = SumFunctionOnSet(g, S) + g[o]
        BY <2>1, <2>3, <3>1, <3>2, SumWith
      <3>5. g[o] = Counted(s, l) /\ g[o] \in Nat /\ s.quantity \in Nat
        BY <2>3, <3>2 DEF OrderRecord
      <3>6. Sold(l)' = Sold(l) + g[o]
        BY <2>2, <3>2, <3>3, <3>4
      <3>7. g[o] # 0
        BY <2>2, <2>4, <3>6
      <3>8. s.listing = l /\ g[o] = s.quantity
        BY <3>5, <3>7 DEF Counted
      <3> QED  BY <3>1, <3>6, <3>8
    <2> QED  BY <2>1, <2>6, <2>7, <2>8, StepPays
  <1> QED  BY <1>1, InitBInv, NextBInv, PTL DEF Spec, StockNeverOversold

-----------------------------------------------------------------------------
(* The market implements EscrowPromise.                                    *)

(* What Kept means for the account of an order.                            *)
LEMMA KeptPromise ==
    ASSUME NEW r \in OrderRecord, Consistent(r), NEW s, Kept(r, s),
           NEW a, a = [paid |-> r.fund, toBuyer |-> r.refund, toSeller |-> r.release],
           NEW b, b = [paid |-> s.fund, toBuyer |-> s.refund, toSeller |-> s.release]
    PROVE  \/ b = a
           \/ Promise!Pay(a, b) \/ Promise!Share(a, b) \/ Promise!PayAndShare(a, b)
  <1>1. /\ Sound(r) /\ Sound(s) /\ s \in OrderRecord /\ s.total = r.total
        /\ r.total \in Nat \ {0}
    BY DEF Consistent, Kept, OrderRecord
  <1>2. CASE r.reason # "none"
    <2>1. s.refund = r.refund /\ s.release = r.release /\ s.state = r.state
      BY <1>2 DEF Kept
    <2>2. s.fund = r.fund
      BY <1>1, <1>2, <2>1 DEF Sound
    <2> QED  BY <2>1, <2>2
  <1>3. CASE r.reason = "none"
    <2>1. r.refund = 0 /\ r.release = 0 /\ r.fund \in {0, r.total}
      BY <1>1, <1>3 DEF Sound
    <2>2. /\ s.fund \in {0, r.total}
          /\ s.fund = 0 => s.refund = 0 /\ s.release = 0
          /\ (s.refund = 0 /\ s.release = 0) \/ s.refund + s.release = r.total
      BY <1>1 DEF Sound
    <2>3. r.fund # 0 => s.fund # 0
      BY DEF Kept
    <2>4. CASE s.fund = 0
      BY <2>1, <2>2, <2>3, <2>4
    <2>5. CASE s.fund = r.total /\ r.fund = 0
      BY <1>1, <2>1, <2>2, <2>5
         DEF Promise!Pay, Promise!PayAndShare, Promise!Open, Promise!Empty
    <2>6. CASE s.fund = r.total /\ r.fund = r.total
      BY <1>1, <2>1, <2>2, <2>6 DEF Promise!Share, Promise!Open
    <2> QED  BY <2>1, <2>2, <2>4, <2>5, <2>6
  <1> QED  BY <1>2, <1>3

(* What a first commit means for the account of a new order.               *)
LEMMA NewPromise ==
    ASSUME NEW s \in OrderRecord, Consistent(s),
           NEW b, b = [paid |-> s.fund, toBuyer |-> s.refund, toSeller |-> s.release]
    PROVE  \/ b = Promise!Empty
           \/ Promise!Pay(Promise!Empty, b) \/ Promise!PayAndShare(Promise!Empty, b)
  <1>1. Sound(s) /\ s.total \in Nat \ {0}
    BY DEF Consistent, OrderRecord
  <1>2. /\ s.fund \in {0, s.total}
        /\ s.fund = 0 => s.refund = 0 /\ s.release = 0
        /\ (s.refund = 0 /\ s.release = 0) \/ s.refund + s.release = s.total
    BY <1>1 DEF Sound
  <1> QED  BY <1>1, <1>2 DEF Promise!Pay, Promise!PayAndShare, Promise!Open, Promise!Empty

(* The ledger of every order is an account that is paid once, shared out   *)
(* once and exactly, and never touched again.                              *)
THEOREM PromiseImplemented == Spec => PromiseKept
  <1>1. Init => Promise!Init
    BY DEF Init, Promise!Init, Promise!Empty, Account
  <1>2. IInv /\ IInv' /\ [Next]_vars => Promise!Next
    <2> SUFFICES ASSUME IInv, IInv', [Next]_vars, NEW o \in Orders
                 PROVE  \/ Account(o)' = Account(o)
                        \/ Promise!Pay(Account(o), Account(o)')
                        \/ Promise!Share(Account(o), Account(o)')
                        \/ Promise!PayAndShare(Account(o), Account(o)')
      BY DEF Promise!Next
    <2>1. CASE o \in DOMAIN orders
      <3>1. o \in DOMAIN orders' /\ Kept(orders[o], orders'[o])
        BY <2>1, StepKeeps DEF MarketKept
      <3>2. orders[o] \in OrderRecord /\ Consistent(orders[o])
        BY <2>1, IInvGood
      <3> QED  BY <2>1, <3>1, <3>2, KeptPromise DEF Account
    <2>2. CASE o \notin DOMAIN orders /\ o \in DOMAIN orders'
      <3>1. orders'[o] \in OrderRecord /\ Consistent(orders'[o])
        BY <2>2 DEF IInv, TypeOK, OrdersConsistent
      <3>2. Account(o) = Promise!Empty
        BY <2>2 DEF Account, Promise!Empty
      <3> QED  BY <2>2, <3>1, <3>2, NewPromise DEF Account
    <2>3. CASE o \notin DOMAIN orders /\ o \notin DOMAIN orders'
      BY <2>3 DEF Account
    <2> QED  BY <2>1, <2>2, <2>3
  <1> QED  BY <1>1, <1>2, Invariance, PTL DEF Spec, PromiseKept, Promise!Spec

(* All that OrdersSound asks of the orders together: what is held, what is *)
(* shared out, by which consent and by which deadline.                     *)
THEOREM OrdersAlwaysSound == Spec => []OrdersSound
  <1>1. TypeOK /\ OrdersConsistent /\ EscrowMatchesState /\ SettlementComplete
          /\ ClaimedMeansSettled /\ DeadlineMatchesOrigin /\ SellerPaidByConsent
        => OrdersSound
    BY DEF OrdersSound
  <1> QED
    BY <1>1, TypeCorrect, AlwaysConsistent, EscrowHoldsThePrice, SettlementsComplete,
       ClaimsArePaid, DeadlinesMatch, PaidByConsent, PTL
=============================================================================
