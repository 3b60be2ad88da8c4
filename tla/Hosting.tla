------------------------------ MODULE Hosting -------------------------------
(* Websites, the bytes they may hold and the purchase of more: hosting.*       *)
(* (extensions/hosting.py), the capacity check (plugins/hosting_capacity.py),  *)
(* the offer and its purchases (plugins/offers.py, admin/money.py).  An action *)
(* is one transaction; a deployment is abstracted to its size.                 *)
EXTENDS Integers, FiniteSets, Functions

CONSTANTS
    Owners, Keeper,        \* subjects that own sites; who created the sites
    Sites,                 \* websites
    Purchases,             \* identifiers of purchases
    Base, MaxCapacity,     \* free capacity of a subject; MAX_CAPACITY_BYTES
    Sizes, Quantities,     \* bound: sizes deployed, quantities bought
    Quotes,                \* bound: [price, lasts] an operator sets; lasts 0: without end
    Budget,                \* what every subject has at first
    PurchaseTTL, LastDate  \* PURCHASE_TTL; bound: the clock stops

HostingAssumption ==
    /\ IsFiniteSet(Owners) /\ IsFiniteSet(Sites) /\ IsFiniteSet(Purchases)
    /\ Keeper \in Owners /\ Quotes \subseteq [price : Nat, lasts : Nat] /\ Base \in Nat /\ MaxCapacity \in Nat /\ Base <= MaxCapacity
    /\ Sizes \subseteq Nat /\ Quantities \subseteq Nat \ {0}
    /\ Budget \in Nat /\ PurchaseTTL \in Nat \ {0} /\ LastDate \in Nat
ASSUME HostingAssumption

VARIABLES
    date,         \* the clock
    website,      \* [Sites -> resources of type website]
    quote,        \* the row of server_offers
    purchase,     \* [Purchases -> money_purchases and the entitlement it led to]
    wallet,       \* [Owners -> balance]
    till,         \* balance of the root subject
    held          \* [Purchases -> balance of the escrow account]

hosting_vars == <<date, website, quote, purchase, wallet, till, held>>

Endless == LastDate + 10    \* later than any date

InitHosting ==
    /\ date = 0
    /\ website = [w \in Sites |-> [owner |-> Keeper, live |-> TRUE, size |-> 0, past |-> {0}]]
    /\ quote \in [terms : Quotes, enabled : {TRUE}]
    /\ purchase = [p \in Purchases |->
          [state |-> "none", who |-> Keeper, quantity |-> 0, total |-> 0, lasts |-> 0, until |-> 0,
           granted |-> FALSE, ends |-> 0]]
    /\ wallet = [o \in Owners |-> Budget]
    /\ till = 0
    /\ held = [p \in Purchases |-> 0]

HostingTyped ==
    /\ date \in 0..LastDate
    /\ \A w \in Sites : website[w].owner \in Owners /\ website[w].size \in website[w].past
    /\ quote.terms \in Quotes /\ quote.enabled \in BOOLEAN
    /\ \A p \in Purchases :
          /\ purchase[p].state \in {"none", "pending", "settled", "refunded"}
          /\ purchase[p].who \in Owners
    /\ till \in Nat /\ wallet \in [Owners -> Nat] /\ held \in [Purchases -> Nat]
-----------------------------------------------------------------------------
(* extra_capacity(): the entitlements that have not run out.                   *)
Entitled(r, o) == IF r.granted /\ r.who = o /\ r.ends > date THEN r.quantity ELSE 0

Extra(o) == SumFunction([p \in Purchases |-> Entitled(purchase[p], o)])

(* used_capacity() of the live sites but the ones in without.                  *)
Published(r, o) == IF r.live /\ r.owner = o THEN r.size ELSE 0

Occupied(o, without) ==
    SumFunctionOnSet([w \in Sites |-> Published(website[w], o)], Sites \ without)

Capacity(o) == IF Base + Extra(o) < MaxCapacity THEN Base + Extra(o) ELSE MaxCapacity

(* require_capacity(): of whom the site is, or is to be.                       *)
HasRoom(o, w, size) == Occupied(o, {w}) + size <= Capacity(o)

(* hosting.deploy: a new revision.                                             *)
Deploy(w, size) ==
    /\ website[w].live /\ HasRoom(website[w].owner, w, size)
    /\ website' = [website EXCEPT ![w].size = size, ![w].past = @ \cup {size}]
    /\ UNCHANGED <<date, quote, purchase, wallet, till, held>>

(* hosting.activate: an earlier revision, of an archived site as well.         *)
Activate(w, size) ==
    /\ size \in website[w].past \ {0} /\ HasRoom(website[w].owner, w, size)
    /\ website' = [website EXCEPT ![w].size = size]
    /\ UNCHANGED <<date, quote, purchase, wallet, till, held>>

(* content.archive of a website.                                               *)
ArchiveSite(w) ==
    /\ website' = [website EXCEPT ![w].live = FALSE]
    /\ UNCHANGED <<date, quote, purchase, wallet, till, held>>

(* content.restore of a website.                                               *)
RestoreSite(w) ==
    /\ HasRoom(website[w].owner, w, website[w].size)
    /\ website' = [website EXCEPT ![w].live = TRUE]
    /\ UNCHANGED <<date, quote, purchase, wallet, till, held>>

(* content.chown of a website: the new owner needs the room.                   *)
ChownSite(w, o) ==
    /\ website[w].live => HasRoom(o, w, website[w].size)
    /\ website' = [website EXCEPT ![w].owner = o]
    /\ UNCHANGED <<date, quote, purchase, wallet, till, held>>
-----------------------------------------------------------------------------
(* apply_offer(): set and disable.                                             *)
SetOffer(terms) ==
    /\ quote' = [terms |-> terms, enabled |-> TRUE]
    /\ UNCHANGED <<date, website, purchase, wallet, till, held>>

DisableOffer ==
    /\ quote.enabled
    /\ quote' = [quote EXCEPT !.enabled = FALSE]
    /\ UNCHANGED <<date, website, purchase, wallet, till, held>>

Grantable(o, quantity) == Extra(o) + quantity + Base <= MaxCapacity

Ends(lasts) == IF lasts = 0 THEN Endless ELSE date + lasts

(* money.redeem without defer funds and settles in one transaction: it is      *)
(* neither expired nor refused by the capacity it has just been checked for.   *)
Redeem(o, p, quantity) ==
    LET total == quote.terms.price * quantity IN
    /\ quote.enabled /\ purchase[p].state = "none"
    /\ Grantable(o, quantity) /\ wallet[o] >= total
    /\ wallet' = [wallet EXCEPT ![o] = @ - total]
    /\ till' = till + total
    /\ purchase' = [purchase EXCEPT ![p] =
          [state |-> "settled", who |-> o, quantity |-> quantity, total |-> total,
           lasts |-> quote.terms.lasts, until |-> date + PurchaseTTL,
           granted |-> TRUE, ends |-> Ends(quote.terms.lasts)]]
    /\ UNCHANGED <<date, website, quote, held>>

(* money.redeem with defer: the money waits in escrow, the terms in the        *)
(* purchase.                                                                   *)
ReservePurchase(o, p, quantity) ==
    LET total == quote.terms.price * quantity IN
    /\ quote.enabled /\ purchase[p].state = "none"
    /\ Grantable(o, quantity) /\ wallet[o] >= total
    /\ wallet' = [wallet EXCEPT ![o] = @ - total]
    /\ held' = [held EXCEPT ![p] = total]
    /\ purchase' = [purchase EXCEPT ![p] =
          [state |-> "pending", who |-> o, quantity |-> quantity, total |-> total,
           lasts |-> quote.terms.lasts, until |-> date + PurchaseTTL,
           granted |-> FALSE, ends |-> 0]]
    /\ UNCHANGED <<date, website, quote, till>>

(* _finalize() to the buyer: money.purchase_cancel, or an expired settlement.  *)
Refund(p) ==
    /\ purchase[p].state = "pending" /\ held[p] = purchase[p].total
    /\ wallet' = [wallet EXCEPT ![purchase[p].who] = @ + purchase[p].total]
    /\ held' = [held EXCEPT ![p] = @ - purchase[p].total]
    /\ purchase' = [purchase EXCEPT ![p].state = "refunded"]
    /\ UNCHANGED <<date, website, quote, till>>

SettleReserved_Checked(p) ==    \* mutant: the capacity is not looked at again
    /\ purchase[p].state = "pending" /\ held[p] = purchase[p].total
    /\ purchase[p].until > date
    /\ till' = till + purchase[p].total
    /\ held' = [held EXCEPT ![p] = @ - purchase[p].total]
    /\ purchase' = [purchase EXCEPT ![p].state = "settled", ![p].granted = TRUE,
                                    ![p].ends = Ends(purchase[p].lasts)]
    /\ UNCHANGED <<date, website, quote, wallet>>

(* money.purchase_settle in time: where other purchases have taken the         *)
(* capacity meanwhile, _grant_hosting() fails and the purchase stays pending.  *)
SettleReserved(p) ==
    /\ purchase[p].state = "pending" /\ held[p] = purchase[p].total
    /\ purchase[p].until > date
    /\ Grantable(purchase[p].who, purchase[p].quantity)
    /\ till' = till + purchase[p].total
    /\ held' = [held EXCEPT ![p] = @ - purchase[p].total]
    /\ purchase' = [purchase EXCEPT ![p].state = "settled", ![p].granted = TRUE,
                                    ![p].ends = Ends(purchase[p].lasts)]
    /\ UNCHANGED <<date, website, quote, wallet>>

DatePasses ==
    /\ date < LastDate    \* bound
    /\ date' = date + 1
    /\ UNCHANGED <<website, quote, purchase, wallet, till, held>>

NextHosting ==
    \/ \E w \in Sites :
          \/ \E size \in Sizes : Deploy(w, size) \/ Activate(w, size)
          \/ ArchiveSite(w) \/ RestoreSite(w) \/ \E o \in Owners : ChownSite(w, o)
    \/ \E p \in Purchases :
          \/ \E o \in Owners, quantity \in Quantities : Redeem(o, p, quantity) \/ ReservePurchase(o, p, quantity)
          \/ Refund(p) \/ SettleReserved(p)
    \/ \E terms \in Quotes : SetOffer(terms)
    \/ DisableOffer \/ DatePasses

HostingSpec == InitHosting /\ [][NextHosting]_hosting_vars
-----------------------------------------------------------------------------
(* However many purchases were reserved side by side, settled, cancelled or    *)
(* left to expire, nobody's entitlements exceed what one subject may hold.     *)
CapacityBounded == \A o \in Owners : Base + Extra(o) <= MaxCapacity

(* What the server took for a purchase.                                        *)
Taken(r) == IF r.granted THEN r.total ELSE 0

(* The money of a purchase is in escrow exactly while it is pending, and with  *)
(* the server exactly if the capacity was granted; none appears or vanishes.   *)
PurchasesBacked ==
    /\ \A p \in Purchases :
          /\ held[p] = (IF purchase[p].state = "pending" THEN purchase[p].total ELSE 0)
          /\ purchase[p].granted <=> purchase[p].state = "settled"
    /\ till = SumFunction([p \in Purchases |-> Taken(purchase[p])])
    /\ SumFunction(wallet) + SumFunction(held) + till = Budget * Cardinality(Owners)

(* Nothing a subject publishes, restores, goes back to or is given takes it    *)
(* past its capacity at that moment; only time may leave it above.             *)
GrowthWithinCapacity ==
    \A o \in Owners : Occupied(o, {})' > Occupied(o, {}) => Occupied(o, {})' <= Capacity(o)

(* After every step capacity is paid for and bounded, and no step takes what   *)
(* is published past it.                                                       *)
HostingSound ==
    [][HostingTyped' /\ CapacityBounded' /\ PurchasesBacked' /\ GrowthWithinCapacity]_hosting_vars
=============================================================================
