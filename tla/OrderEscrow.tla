---------------------------- MODULE OrderEscrow ----------------------------
(***************************************************************************)
(* Orders and their escrow accounts (src/msg/market: orders, escrow,       *)
(* delivery, ledger).  Every handler of the server runs inside one         *)
(* serialised write transaction, so every handler is one action here; what *)
(* it does to its order is an operator on the order's record, and a        *)
(* handler that calls another composes the two operators.                  *)
(*                                                                         *)
(* The ledger is append-only and balances are sums over its rows.  An      *)
(* order's rows are its three legs: `fund' (buyer to escrow), `refund'     *)
(* (escrow to buyer) and `release' (escrow to seller).  Posting adds to a  *)
(* leg, so a leg posted twice shows in every balance.                      *)
(*                                                                         *)
(* Arbitration is abstract here: a disputed order may be settled by some   *)
(* decision.  Module Arbitration says which decisions exist.               *)
(***************************************************************************)
EXTENDS Integers, FiniteSetsExt

CONSTANTS
    Orders,             \* identifiers new_order_id may draw
    Listings,           \* listings and offers, deposited and ready for sale
    Subjects,           \* buyers and sellers
    Owner,              \* [Listings -> Subjects]
    Mode,               \* [Listings -> Modes]
    Price,              \* [Listings -> 1..]: price_minor
    Endowment,          \* [Subjects -> Nat]: balance before the first order
    FundingTimeout,     \* policy.funding_timeout_seconds
    DeliveryTimeout,    \* policy.delivery_timeout_seconds
    Faults,             \* the failures verify_blob reports for stored bytes
    Limit,              \* resolve_due(limit=100)
    MaxQuantity,        \* bound: quantities of listings and orders
    Horizon             \* bound: the clock stops here

Modes == {"managed_instant", "sealed_manual", "service", "entitlement"}
Null == -1
Time == 0 .. Horizon

ObjectiveRefunds ==
    Faults \cup {"delivery_timeout", "buyer_cancelled"}
Releases ==
    {"buyer_acceptance", "managed_instant_verified", "deterministic_entitlement"}
Reasons == ObjectiveRefunds \cup Releases \cup {"arbitration_decision"}

ASSUME ConstantsAssumption ==
    /\ Owner \in [Listings -> Subjects]
    /\ Mode \in [Listings -> Modes]
    /\ Price \in [Listings -> Nat \ {0}]
    /\ Endowment \in [Subjects -> Nat]
    /\ FundingTimeout \in Nat \ {0}
    /\ DeliveryTimeout \in Nat \ {0}
    /\ Faults \subseteq {"package_missing", "package_digest_mismatch"}
    /\ Limit \in Nat \ {0}
    /\ MaxQuantity \in Nat \ {0}
    /\ Horizon \in Nat

VARIABLES
    now,        \* app.clock()
    listings,   \* the seller's current revision: whether it sells, how many
    orders,     \* store_orders with its contract, deadline, delivery, legs
    damage      \* what verify_blob finds for a package or a submitted payload

vars == <<now, listings, orders, damage>>

States == {"created", "funded", "delivered", "accepted", "settled",
           "cancelled", "refunded", "disputed"}

OrderRecord ==
    [state : States, version : {3, 4, 5}, listing : Listings,
     buyer : Subjects, quantity : Nat, total : Nat \ {0},
     created_at : Time, funded_at : Time \cup {Null}, expires_at : Nat,
     recipient_key : {"none", "live", "retired"},
     delivery : {"none", "prepared", "claimed"},
     fund : Nat, refund : Nat, release : Nat,
     reason : Reasons \cup {"none"}]

TypeOK ==
    /\ now \in Time
    /\ listings \in [Listings -> [active : BOOLEAN, quantity : Nat]]
    /\ DOMAIN orders \subseteq Orders
    /\ \A o \in DOMAIN orders : orders[o] \in OrderRecord
    /\ damage \in [Listings \cup Orders -> Faults \cup {"none"}]

-----------------------------------------------------------------------------
(* Balances: market/ledger.py computes them from the rows it appended.     *)

EscrowBalance(r) == r.fund - r.refund - r.release

(* What the legs of one order come to for a subject.                       *)
Leg(r, s) == (IF r.buyer = s THEN r.refund - r.fund ELSE 0)
             + (IF Owner[r.listing] = s THEN r.release ELSE 0)

Balance(s) ==
    Endowment[s] + SumFunctionOnSet([o \in DOMAIN orders |-> Leg(orders[o], s)], DOMAIN orders)

(* An order counts against its listing's quantity until it is cancelled or *)
(* wholly refunded.                                                        *)
Counted(r, l) ==
    IF r.listing = l /\ r.state \notin {"cancelled", "refunded"} THEN r.quantity ELSE 0

Sold(l) ==
    SumFunctionOnSet([o \in DOMAIN orders |-> Counted(orders[o], l)], DOMAIN orders)

CanPay_Opening(b, amount) == Endowment[b] >= amount   \* mutant: a stale balance

(* clearing_decision(): the buyer's whole debit is covered by its balance. *)
CanPay(b, amount) == Balance(b) >= amount

-----------------------------------------------------------------------------
(* What the functions the handlers share do to one order.  Each returns    *)
(* the set of records it may leave the order with; the set is empty when a *)
(* `require' fails, which rolls the whole handler back.                    *)

TRANSITIONS ==
    [s \in States |->
        CASE s = "created"   -> {"funded", "cancelled"}
          [] s = "funded"    -> {"delivered", "refunded", "disputed"}
          [] s = "delivered" -> {"accepted", "refunded", "disputed"}
          [] s = "accepted"  -> {"settled"}
          [] s = "disputed"  -> {"refunded", "settled"}
          [] OTHER           -> {}]

(* transition(): the table, and the one exception of contract version 5.   *)
Moved(r, state, reason) ==
    {s \in {[r EXCEPT !.state = state]} :
        IF r.state = "funded" /\ state = "settled"
        THEN r.version = 5 /\ reason = "deterministic_entitlement"
        ELSE state \in TRANSITIONS[r.state]}

(* settle(): the authority it demands before it appends a leg.             *)
MaySettle(r, reason, refund) ==
    /\ refund \in 0 .. r.total
    /\ r.reason = "none"
    /\ ~(r.version = 4 /\ reason = "managed_instant_verified")
    /\ \/ /\ r.version = 5
          /\ refund = 0 /\ r.state = "funded"
          /\ reason = "deterministic_entitlement"
       \/ /\ r.version # 5 /\ reason = "arbitration_decision"
          /\ r.state = "disputed"
       \/ /\ r.version # 5 /\ refund = r.total
          /\ reason \in ObjectiveRefunds /\ r.state \in {"funded", "delivered"}
       \/ /\ r.version # 5 /\ refund = 0 /\ r.state = "accepted"
          /\ reason \in {"buyer_acceptance", "managed_instant_verified"}
          /\ r.version = 4 => reason = "buyer_acceptance"
    /\ EscrowBalance(r) = r.total

Final(r, refund) == IF refund = r.total THEN "refunded" ELSE "settled"

Remainder_Whole(r, refund) == IF refund = r.total THEN 0 ELSE r.total    \* mutant

(* settle(): what is not refunded is the seller's.                         *)
Remainder(r, refund) == r.total - refund

(* settle(): both legs, the final state and the settlement row.            *)
Settled(r, reason, refund) ==
    {[s EXCEPT !.refund = @ + refund, !.release = @ + Remainder(r, refund),
               !.reason = reason] :
        s \in {m \in Moved(r, Final(r, refund), reason) : MaySettle(r, reason, refund)}}

NewOrder(b, l, q, v) ==
    [state |-> "created", version |-> v, listing |-> l, buyer |-> b,
     quantity |-> q, total |-> Price[l] * q,
     created_at |-> now, funded_at |-> Null,
     expires_at |-> now + FundingTimeout,
     recipient_key |-> IF Mode[l] = "sealed_manual" THEN "live" ELSE "none",
     delivery |-> "none", fund |-> 0, refund |-> 0, release |-> 0,
     reason |-> "none"]

(* fund(): the fund leg and the delivery deadline.                         *)
Funded(r) ==
    {[s EXCEPT !.fund = @ + r.total, !.funded_at = now,
               !.expires_at = now + DeliveryTimeout] :
        s \in Moved(r, "funded", "signed_payment_intent")}

(* prepare(): a delivery row and the state `delivered'.                    *)
Prepared(r) ==
    {[s EXCEPT !.delivery = "prepared"] :
        s \in {m \in Moved(r, "delivered", "verified_delivery") :
                   r.state = "funded" /\ r.delivery = "none"}}

Released_Later(r, reason) == Moved(r, "accepted", reason)    \* mutant: settle later

(* The acceptance of a delivered order and the release it authorises.      *)
Released(r, reason) ==
    UNION {Settled(s, reason, 0) : s \in Moved(r, "accepted", reason)}

Claimed_Forgotten(r) == r                                   \* mutant

Claimed(r) == [r EXCEPT !.delivery = "claimed"]

(* automatic(): a fault of the pinned package refunds; otherwise prepare,  *)
(* and only contract version 3 releases without the buyer.                 *)
Automatic(r) ==
    IF damage[r.listing] # "none" THEN Settled(r, damage[r.listing], r.total)
    ELSE IF r.version = 4 THEN Prepared(r)
    ELSE UNION {Released(s, "managed_instant_verified") : s \in Prepared(r)}

(* fund() prepares managed goods in the same transaction.                  *)
AfterFunding(r) ==
    IF Mode[r.listing] = "managed_instant"
    THEN UNION {Automatic(s) : s \in Funded(r)} ELSE Funded(r)

Put(o, r) == [x \in DOMAIN orders \cup {o} |-> IF x = o THEN r ELSE orders[x]]

-----------------------------------------------------------------------------
(* Checkout.                                                               *)

Available_Unsold(b, l, q) ==    \* mutant: reservations do not count
    /\ Mode[l] # "entitlement"
    /\ listings[l].active
    /\ q <= listings[l].quantity
    /\ Owner[l] # b

(* create(): what must hold of the listing, the stock and the buyer.       *)
Available(b, l, q) ==
    /\ Mode[l] # "entitlement"
    /\ listings[l].active
    /\ Sold(l) + q <= listings[l].quantity
    /\ Owner[l] # b

Fresh(o) == /\ o \in Orders \ DOMAIN orders
            /\ now + FundingTimeout + DeliveryTimeout <= Horizon   \* bound

(* orders.create@1 reserves under contract version 3, @2 under version 4.  *)
Create(o, b, l, q, v) ==
    /\ Fresh(o) /\ Available(b, l, q)
    /\ orders' = Put(o, NewOrder(b, l, q, v))
    /\ UNCHANGED <<now, listings, damage>>

(* orders.buy@3 and @4: create and fund in one transaction.                *)
Buy(o, b, l, q, v) ==
    /\ Fresh(o) /\ Available(b, l, q)
    /\ CanPay(b, Price[l] * q)
    /\ \E s \in AfterFunding(NewOrder(b, l, q, v)) : orders' = Put(o, s)
    /\ UNCHANGED <<now, listings, damage>>

(* orders.fund@1                                                           *)
Fund(o) ==
    LET r == orders[o]
    IN  /\ r.state = "created"
        /\ now < r.created_at + FundingTimeout
        /\ CanPay(r.buyer, r.total)
        /\ \E s \in AfterFunding(r) : orders' = Put(o, s)
        /\ UNCHANGED <<now, listings, damage>>

(* money.redeem@3: an entitlement offer is created, funded, granted and    *)
(* settled together.                                                       *)
Redeem(o, b, l, q) ==
    LET r == NewOrder(b, l, q, 5)
    IN  /\ Fresh(o)
        /\ Mode[l] = "entitlement" /\ Owner[l] # b
        /\ CanPay(b, r.total)
        /\ \E f \in Funded(r) : \E s \in Settled(f, "deterministic_entitlement", 0) :
              orders' = Put(o, s)
        /\ UNCHANGED <<now, listings, damage>>

Cancel_Unguarded(o) ==    \* mutant: the state is not looked at
    /\ orders' = Put(o, [orders[o] EXCEPT !.state = "cancelled"])
    /\ UNCHANGED <<now, listings, damage>>

(* orders.cancel@2: the other states are refused or answered unchanged.    *)
Cancel(o) ==
    LET r == orders[o]
    IN  /\ \/ /\ r.state = "created"
              /\ \E s \in Moved(r, "cancelled", "buyer_cancelled") : orders' = Put(o, s)
           \/ /\ r.state = "funded" /\ r.delivery = "none"
              /\ \E s \in Settled(r, "buyer_cancelled", r.total) : orders' = Put(o, s)
        /\ UNCHANGED <<now, listings, damage>>

-----------------------------------------------------------------------------
(* Delivery, acceptance and disputes.                                      *)

(* The bytes a delivery of order o refers to: the listing's package, or    *)
(* the payload the seller submitted for this order.                        *)
Goods(o) == IF Mode[orders[o].listing] = "managed_instant"
            THEN damage[orders[o].listing] ELSE damage[o]

(* delivery.submit@1, by the seller, before the delivery deadline.         *)
Submit(o) ==
    LET r == orders[o]
    IN  /\ Mode[r.listing] \in {"sealed_manual", "service"}
        /\ r.state = "funded"
        /\ now < r.funded_at + DeliveryTimeout
        /\ damage[o] = "none"
        /\ Mode[r.listing] = "sealed_manual" => r.recipient_key = "live"
        /\ \E s \in Prepared(r) : orders' = Put(o, s)
        /\ UNCHANGED <<now, listings, damage>>

(* delivery.accept@2, by the buyer: verify the bytes, settle an order that *)
(* is still open, and claim.  A claimed delivery is answered unchanged.    *)
Accept(o) ==
    LET r == orders[o]
    IN  /\ r.delivery = "prepared"
        /\ Goods(o) = "none"
        /\ \/ /\ r.state = "delivered"
              /\ \E s \in Released(r, "buyer_acceptance") : orders' = Put(o, Claimed(s))
           \/ /\ r.state = "settled"
              /\ orders' = Put(o, Claimed(r))
        /\ UNCHANGED <<now, listings, damage>>

ObjectiveFault_OffByOne(o) ==    \* mutant: the deadline itself is not overdue
    LET r == orders[o]
    IN  CASE r.state = "funded" /\ now > r.funded_at + DeliveryTimeout -> "delivery_timeout"
          [] r.state = "delivered" -> Goods(o)
          [] OTHER -> "none"

(* objective_fault(): what the server can see for itself.                  *)
ObjectiveFault(o) ==
    LET r == orders[o]
    IN  CASE r.state = "funded" /\ now >= r.funded_at + DeliveryTimeout -> "delivery_timeout"
          [] r.state = "delivered" -> Goods(o)
          [] OTHER -> "none"

(* orders.dispute_open@1, by either party: an objective fault refunds at   *)
(* once, anything else opens the order's one case.                         *)
ObjectiveRefund(o) ==
    LET r     == orders[o]
        fault == ObjectiveFault(o)
    IN  /\ r.state \in {"funded", "delivered"}
        /\ fault # "none"
        /\ \E s \in Settled(r, fault, r.total) : orders' = Put(o, s)
        /\ UNCHANGED <<now, listings, damage>>

OpenCase(o) ==
    LET r == orders[o]
    IN  /\ r.state \in {"funded", "delivered"}
        /\ ObjectiveFault(o) = "none"
        /\ \E s \in Moved(r, "disputed", "other") : orders' = Put(o, s)
        /\ UNCHANGED <<now, listings, damage>>

(* arbitration.execute(), for one case or for all that a tick of the       *)
(* worker finds decided: some current decision allots each order's refund. *)
ExecuteDecisions(refund) ==
    /\ \A o \in DOMAIN refund : Settled(orders[o], "arbitration_decision", refund[o]) # {}
    /\ orders' = [o \in DOMAIN orders |->
                    IF o \in DOMAIN refund
                    THEN CHOOSE s \in Settled(orders[o], "arbitration_decision", refund[o]) : TRUE
                    ELSE orders[o]]
    /\ UNCHANGED <<now, listings, damage>>

-----------------------------------------------------------------------------
(* The worker, the clock, sellers, and the storage underneath.             *)

Due_Created ==    \* mutant: payments are not swept
    {o \in DOMAIN orders : orders[o].state = "created" /\ orders[o].expires_at <= now}

(* The rows resolve_due() selects.                                         *)
Due == {o \in DOMAIN orders : /\ orders[o].state \in {"created", "funded"}
                              /\ orders[o].expires_at <= now}

(* resolve_due() rechecks the origin of the deadline of every row it reads *)
Resolved(r) ==
    IF r.state = "created"
    THEN IF now >= r.created_at + FundingTimeout
         THEN Moved(r, "cancelled", "funding_timeout") ELSE {r}
    ELSE IF now >= r.funded_at + DeliveryTimeout
         THEN Settled(r, "delivery_timeout", r.total) ELSE {r}

(* One tick reads the `Limit' earliest overdue orders and resolves them in *)
(* one transaction; a settlement that fails rolls all of them back.        *)
ResolveDue ==
    \E batch \in (SUBSET Due) \ {{}} :
        /\ Cardinality(batch) = Limit \/ (batch = Due /\ Cardinality(batch) < Limit)
        /\ \A o \in batch, x \in Due \ batch : orders[o].expires_at <= orders[x].expires_at
        /\ \A o \in batch : Resolved(orders[o]) # {}
        /\ orders' = [o \in DOMAIN orders |->
                        IF o \in batch THEN CHOOSE s \in Resolved(orders[o]) : TRUE
                        ELSE orders[o]]
        /\ UNCHANGED <<now, listings, damage>>

Tick == /\ now < Horizon
        /\ now' = now + 1
        /\ UNCHANGED <<listings, orders, damage>>

(* store.listing_update@1 may change the quantity below what is sold, and  *)
(* may stop and resume the sale; it does not reach existing orders.        *)
UpdateListing(l, active, quantity) ==
    /\ Mode[l] # "entitlement"
    /\ listings' = [listings EXCEPT ![l] = [active |-> active, quantity |-> quantity]]
    /\ UNCHANGED <<now, orders, damage>>

(* The buyer retires the encryption subkey its orders pinned.              *)
RetireKey(b) ==
    /\ \E o \in DOMAIN orders : orders[o].buyer = b /\ orders[o].recipient_key = "live"
    /\ orders' = [o \in DOMAIN orders |->
                    IF orders[o].buyer = b /\ orders[o].recipient_key = "live"
                    THEN [orders[o] EXCEPT !.recipient_key = "retired"] ELSE orders[o]]
    /\ UNCHANGED <<now, listings, damage>>

(* Stored bytes of a package or payload are lost or no longer match.       *)
Stored == {l \in Listings : Mode[l] = "managed_instant"}
          \cup {o \in DOMAIN orders : Mode[orders[o].listing] # "managed_instant"}

LoseBytes(x) ==
    /\ damage[x] = "none"
    /\ \E fault \in Faults : damage' = [damage EXCEPT ![x] = fault]
    /\ UNCHANGED <<now, listings, orders>>

-----------------------------------------------------------------------------
Init ==
    /\ now = 0
    /\ listings \in [Listings -> [active : {TRUE}, quantity : 1 .. MaxQuantity]]
    /\ orders = <<>>
    /\ damage = [x \in Listings \cup Orders |-> "none"]

Checkout ==
    \E o \in Orders, b \in Subjects, l \in Listings, q \in 1 .. MaxQuantity :
        \/ \E v \in {3, 4} : Create(o, b, l, q, v) \/ Buy(o, b, l, q, v)
        \/ Redeem(o, b, l, q)

OrderStep(o) ==
    \/ Fund(o)
    \/ Cancel(o)
    \/ Submit(o)
    \/ Accept(o)
    \/ ObjectiveRefund(o)

(* Everything but the two steps module Arbitration refines.                *)
MarketStep ==
    \/ Checkout
    \/ \E o \in DOMAIN orders : OrderStep(o)
    \/ ResolveDue
    \/ Tick
    \/ \E l \in Listings, active \in BOOLEAN, quantity \in 1 .. MaxQuantity :
            UpdateListing(l, active, quantity)
    \/ \E b \in Subjects : RetireKey(b)
    \/ \E x \in Stored : LoseBytes(x)

DisputeStep ==
    \/ \E o \in DOMAIN orders : OpenCase(o)
    \/ \E decided \in (SUBSET DOMAIN orders) \ {{}} :
          \E refund \in [decided -> UNION {0 .. orders[o].total : o \in decided}] :
              ExecuteDecisions(refund)

Next == MarketStep \/ DisputeStep

Spec == Init /\ [][Next]_vars

(* daemon.py runs the worker's tick for ever, and time passes.  Nobody is  *)
(* obliged to pay, deliver, accept or decide.                              *)
Fairness == WF_vars(Tick) /\ WF_vars(ResolveDue)

FairSpec == Spec /\ Fairness

-----------------------------------------------------------------------------
(* Properties.                                                             *)

Held == {"funded", "delivered", "disputed"}

(* The escrow account holds the whole price exactly while the order is     *)
(* funded, delivered or disputed, and nothing before or after: settle() is *)
(* the only debit, and it happens once.                                    *)
EscrowMatchesState ==
    \A o \in DOMAIN orders :
        EscrowBalance(orders[o]) =
            IF orders[o].state \in Held THEN orders[o].total ELSE 0

(* A settlement row exists for exactly the refunded and settled orders,    *)
(* and its two legs share out the price.                                   *)
SettlementComplete ==
    \A o \in DOMAIN orders :
        LET r == orders[o]
        IN  /\ (r.reason # "none") <=> (r.state \in {"refunded", "settled"})
            /\ r.reason # "none" => r.refund + r.release = r.total
            /\ r.reason = "none" => r.refund = 0 /\ r.release = 0

(* The seller of contract version 4 or of manual goods is paid only by a   *)
(* buyer who claimed the delivery or by arbitration; version 3 managed     *)
(* goods also by their verified delivery; entitlements by their grant.     *)
Consented(r) ==
    \/ r.reason = "arbitration_decision"
    \/ r.reason = "buyer_acceptance" /\ r.delivery = "claimed"
    \/ /\ r.reason = "managed_instant_verified" /\ r.delivery # "none"
       /\ r.version = 3 /\ Mode[r.listing] = "managed_instant"
    \/ r.reason = "deterministic_entitlement" /\ r.version = 5

SellerPaidByConsent ==
    \A o \in DOMAIN orders : orders[o].release > 0 => Consented(orders[o])

(* A claim acknowledges goods that were paid for: no order is claimed      *)
(* while its money is held, and none is claimed and then wholly refunded.  *)
ClaimedMeansSettled ==
    \A o \in DOMAIN orders : orders[o].delivery = "claimed" => orders[o].state = "settled"

(* No subject ever owes the ledger, whatever the order of purchases,       *)
(* refunds and releases.                                                   *)
NoOverdraft == \A s \in Subjects : Balance(s) >= 0

(* The indexed deadline of an open order is the one resolve_due recomputes *)
(* from the order, so no row occupies the batch without being resolved.    *)
DeadlineMatchesOrigin ==
    \A o \in DOMAIN orders :
        LET r == orders[o]
        IN  /\ r.state = "created" => r.expires_at = r.created_at + FundingTimeout
            /\ r.state = "funded"  => r.expires_at = r.funded_at + DeliveryTimeout

(* Once settled, an order's reason and money never change again, whatever  *)
(* is retried, disputed, accepted or swept by the worker later.            *)
SettlementsStay ==
    \A o \in DOMAIN orders : orders[o].reason # "none" =>
        /\ o \in DOMAIN orders'
        /\ orders'[o].reason = orders[o].reason
        /\ orders'[o].state = orders[o].state
        /\ orders'[o].fund = orders[o].fund
        /\ orders'[o].refund = orders[o].refund
        /\ orders'[o].release = orders[o].release

SettledOnce == [][SettlementsStay]_vars

(* An order that is still funded when its delivery deadline passes can     *)
(* only go back to the buyer: no late delivery, no dispute takes it over.  *)
Overdue(r) == r.state = "funded" /\ now >= r.funded_at + DeliveryTimeout

OverdueGoBack ==
    \A o \in DOMAIN orders :
        Overdue(orders[o]) /\ orders'[o].state # "funded" =>
            /\ orders'[o].state = "refunded"
            /\ orders'[o].refund = orders[o].total

OverdueOnlyRefunds == [][OverdueGoBack]_vars

(* The stock sold grows only up to what the listing offers at that moment, *)
(* however reservations lapse, refunds return stock and sellers edit it.   *)
StockNeverOversold ==
    [][\A l \in Listings : Mode[l] # "entitlement" /\ Sold(l)' > Sold(l)
          => Sold(l)' <= listings[l].quantity]_vars

(* Every reservation ends: paid, cancelled by the buyer or swept.          *)
ReservationEnds ==
    \A o \in Orders :
        (o \in DOMAIN orders /\ orders[o].state = "created")
        ~> (o \in DOMAIN orders /\ orders[o].state # "created")

(* Money paid for goods that are not delivered does not stay paid for      *)
(* ever: the order is delivered, disputed or refunded.                     *)
PaymentAnswered ==
    \A o \in Orders :
        (o \in DOMAIN orders /\ orders[o].state = "funded")
        ~> (o \in DOMAIN orders /\ orders[o].state # "funded")

(* The inductive strengthening of the invariants above: what every record  *)
(* of an order satisfies at each step inside a handler (Sound), and what   *)
(* holds in addition when the handler commits (Consistent).                *)
Sound(r) ==
    /\ r.state \in {"created", "cancelled"} => r.fund = 0
    /\ r.state \notin {"created", "cancelled"} => r.fund = r.total
    /\ r.state \in {"refunded", "settled"} =>
          r.refund + r.release = r.total /\ r.reason # "none"
    /\ r.state \notin {"refunded", "settled"} =>
          r.refund = 0 /\ r.release = 0 /\ r.reason = "none"
    /\ r.state = "refunded" => r.release = 0
    /\ r.state = "created" => r.expires_at = r.created_at + FundingTimeout
    /\ r.state = "funded" => /\ r.funded_at # Null
                             /\ r.expires_at = r.funded_at + DeliveryTimeout
    /\ r.state \in {"created", "cancelled", "funded"} => r.delivery = "none"
    /\ r.state \in {"delivered", "accepted"} => r.delivery = "prepared"
    /\ r.delivery = "claimed" => r.state = "settled"

Consistent(r) ==
    /\ Sound(r)
    /\ r.state # "accepted"
    /\ r.release > 0 => Consented(r)

OrdersConsistent == \A o \in DOMAIN orders : Consistent(orders[o])

(* The market keeps the promise of module EscrowPromise: paid once, shared *)
(* out once and exactly, then never touched.                               *)
Account(o) ==
    IF o \in DOMAIN orders
    THEN [paid |-> orders[o].fund, toBuyer |-> orders[o].refund,
          toSeller |-> orders[o].release]
    ELSE [paid |-> 0, toBuyer |-> 0, toSeller |-> 0]

Promise == INSTANCE EscrowPromise WITH account <- [o \in Orders |-> Account(o)]

PromiseKept == Promise!Spec

(* At every commit every order is well formed and consistent: the escrow   *)
(* holds its price exactly while it is open, a settlement shares out all   *)
(* of it, an entitlement is claimed only when paid, the indexed deadline   *)
(* is the one the sweep recomputes, and the seller has money only with the *)
(* buyer's or a panel's consent.                                           *)
OrdersSound ==
    /\ TypeOK
    /\ OrdersConsistent
    /\ EscrowMatchesState
    /\ SettlementComplete
    /\ ClaimedMeansSettled
    /\ DeadlineMatchesOrigin
    /\ SellerPaidByConsent

(* Under a worker that keeps sweeping, no order is left hanging.           *)
OrdersProgress == ReservationEnds /\ PaymentAnswered
=============================================================================
