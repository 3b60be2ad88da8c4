------------------------------- MODULE Bounty -------------------------------
(* A prefunded bounty (plugins/bounty.py).  Its escrow pays a fixed reward for *)
(* a proof: the claimant asks for a challenge, signs it with its identity key  *)
(* and claims, and between the two the publisher, other claimants and key      *)
(* rotations may change what the challenge was granted for.  Every operation   *)
(* is one serialized write transaction.                                        *)
EXTENDS Integers, FiniteSets

CONSTANTS
    Claimants, Publisher,
    Terms,           \* what may be published: [reward, max, limit, for, expires]
    Sums,            \* amounts of a budget or a top-up
    MaxMinor,        \* MAX_MINOR, the largest amount of money
    Means,           \* what the publisher has
    ChallengeTTL,    \* CHALLENGE_TTL
    MaxChallenges, MaxKeys, LastDay   \* bounds

Accounts == Claimants \cup {Publisher}
BountyTerms == [reward : Nat \ {0}, max : Nat \ {0}, limit : Nat \ {0},
                for : SUBSET Accounts, expires : Nat]

BountyAssumption ==
    /\ Terms \subseteq BountyTerms /\ Terms # {}
    /\ Sums \subseteq Nat \ {0}
    /\ Means \in 0..MaxMinor
    /\ {MaxMinor, ChallengeTTL, MaxChallenges, MaxKeys, LastDay} \subseteq Nat
ASSUME BountyAssumption

VARIABLES
    purse,       \* ledger: [Accounts -> balance]
    escrow,      \* ledger: balance of the escrow account
    listing,     \* table bounty_listings
    challenge,   \* table bounty_challenges
    claims,      \* table bounty_claims: [Accounts -> number paid]
    key,         \* the current identity key of each account
    day          \* the clock

bounty_vars == <<purse, escrow, listing, challenge, claims, key, day>>

Slots == 1..MaxChallenges
Unpublished == [state |-> "none", reason |-> "none", budget |-> 0, refunded |-> 0,
                terms |-> CHOOSE t \in Terms : TRUE]
NoChallenge == [state |-> "none", claimant |-> Publisher, key |-> 0, expires |-> 0]

InitBounty ==
    /\ purse = [a \in Accounts |-> IF a = Publisher THEN Means ELSE 0]
    /\ escrow = 0
    /\ listing = Unpublished
    /\ challenge = [c \in Slots |-> NoChallenge]
    /\ claims = [a \in Accounts |-> 0]
    /\ key = [a \in Accounts |-> 0]
    /\ day = 0

BountyTyped ==
    /\ purse \in [Accounts -> Nat] /\ escrow \in Nat
    /\ listing \in [state : {"none", "active", "paused", "closed"},
                    reason : {"none", "out_of_budget", "claims_exhausted", "publisher_paused"},
                    budget : Nat, refunded : Nat, terms : Terms]
    /\ challenge \in [Slots -> [state : {"none", "open", "consumed"}, claimant : Accounts,
                                key : Nat, expires : Nat]]
    /\ claims \in [Accounts -> Nat]
    /\ key \in [Accounts -> Nat] /\ day \in Nat

Reward == listing.terms.reward
Consumed == {c \in Slots : challenge[c].state = "consumed"}
Paid == Cardinality(Consumed)    \* one claim row for each

Alive   == day < listing.terms.expires
Present == listing.state \in {"active", "paused"}
-----------------------------------------------------------------------------
(* The publisher.                                                              *)

(* bounty.create.                                                              *)
Create(terms, budget) ==
    /\ listing.state = "none" /\ day < terms.expires /\ purse[Publisher] >= budget
    /\ listing' = [Unpublished EXCEPT !.budget = budget, !.terms = terms,
                      !.state  = IF budget >= terms.reward THEN "active" ELSE "paused",
                      !.reason = IF budget >= terms.reward THEN "none" ELSE "out_of_budget"]
    /\ purse' = [purse EXCEPT ![Publisher] = @ - budget]
    /\ escrow' = escrow + budget
    /\ UNCHANGED <<challenge, claims, key, day>>

(* What a top-up brings back: a listing that ran dry, and no other.            *)
Revived_Any(sum) ==    \* mutant: also one its publisher paused
    listing.state = "paused" /\ escrow + sum >= Reward /\ Paid < listing.terms.max

Revived(sum) ==
    /\ listing.state = "paused" /\ listing.reason = "out_of_budget"
    /\ escrow + sum >= Reward /\ Paid < listing.terms.max

(* bounty.top_up.                                                              *)
TopUp(sum) ==
    /\ Present /\ Alive
    /\ listing.budget + sum <= MaxMinor /\ purse[Publisher] >= sum
    /\ purse' = [purse EXCEPT ![Publisher] = @ - sum]
    /\ escrow' = escrow + sum
    /\ listing' = [listing EXCEPT !.budget = @ + sum,
                      !.state  = IF Revived(sum) THEN "active" ELSE @,
                      !.reason = IF Revived(sum) \/ listing.state = "active" THEN "none" ELSE @]
    /\ UNCHANGED <<challenge, claims, key, day>>

(* bounty.close returns what is left.                                          *)
Close ==
    /\ Present /\ purse[Publisher] + escrow <= MaxMinor
    /\ purse' = [purse EXCEPT ![Publisher] = @ + escrow]
    /\ escrow' = 0
    /\ listing' = [listing EXCEPT !.state = "closed", !.reason = "none", !.refunded = escrow]
    /\ UNCHANGED <<challenge, claims, key, day>>

(* bounty.pause.                                                               *)
Pause ==
    /\ Present
    /\ listing' = [listing EXCEPT !.state = "paused", !.reason = "publisher_paused"]
    /\ UNCHANGED <<purse, escrow, challenge, claims, key, day>>

(* bounty.resume.                                                              *)
Continue ==
    /\ Present /\ Alive /\ Paid < listing.terms.max /\ escrow >= Reward
    /\ listing' = [listing EXCEPT !.state = "active", !.reason = "none"]
    /\ UNCHANGED <<purse, escrow, challenge, claims, key, day>>
-----------------------------------------------------------------------------
(* Claimants.                                                                  *)

(* _ready().                                                                   *)
Claimable(a) ==
    /\ listing.state = "active" /\ Alive /\ a \in listing.terms.for
    /\ Paid < listing.terms.max /\ claims[a] < listing.terms.limit
    /\ escrow >= Reward

(* bounty.challenge, signed with the current key.                              *)
Challenge(a) ==
    /\ Claimable(a)
    /\ \E c \in Slots :
          /\ challenge[c].state = "none" /\ \A b \in 1..(c - 1) : challenge[b].state # "none"
          /\ challenge' = [challenge EXCEPT ![c] = [state |-> "open", claimant |-> a,
                              key |-> key[a], expires |-> day + ChallengeTTL]]
    /\ UNCHANGED <<purse, escrow, listing, claims, key, day>>

(* What the escrow is good for after one more reward.                          *)
Exhausted ==
    IF escrow - Reward < Reward THEN "out_of_budget"
    ELSE IF Paid + 1 >= listing.terms.max THEN "claims_exhausted" ELSE "none"

Claim_Reusable(c) ==    \* mutant: the challenge is not consumed
    LET a == challenge[c].claimant
    IN  /\ challenge[c].state = "open" /\ Claimable(a)
        /\ day < challenge[c].expires /\ challenge[c].key = key[a]
        /\ purse[a] + Reward <= MaxMinor
        /\ purse' = [purse EXCEPT ![a] = @ + Reward]
        /\ escrow' = escrow - Reward
        /\ claims' = [claims EXCEPT ![a] = @ + 1]
        /\ listing' = IF Exhausted = "none" THEN listing
                      ELSE [listing EXCEPT !.state = "paused", !.reason = Exhausted]
        /\ UNCHANGED <<challenge, key, day>>

(* bounty.claim: all of it is checked again, with the key of today.            *)
Claim(c) ==
    LET a == challenge[c].claimant
    IN  /\ challenge[c].state = "open" /\ Claimable(a)
        /\ day < challenge[c].expires /\ challenge[c].key = key[a]
        /\ purse[a] + Reward <= MaxMinor
        /\ purse' = [purse EXCEPT ![a] = @ + Reward]
        /\ escrow' = escrow - Reward
        /\ claims' = [claims EXCEPT ![a] = @ + 1]
        /\ challenge' = [challenge EXCEPT ![c].state = "consumed"]
        /\ listing' = IF Exhausted = "none" THEN listing
                      ELSE [listing EXCEPT !.state = "paused", !.reason = Exhausted]
        /\ UNCHANGED <<key, day>>

(* A new identity key, by an operation of plugins/identity.py.                 *)
NewIdentityKey(a) ==
    /\ key[a] < MaxKeys    \* bound
    /\ key' = [key EXCEPT ![a] = @ + 1]
    /\ UNCHANGED <<purse, escrow, listing, challenge, claims, day>>

NextDay ==
    /\ day < LastDay    \* bound
    /\ day' = day + 1
    /\ UNCHANGED <<purse, escrow, listing, challenge, claims, key>>

NextBounty ==
    \/ \E terms \in Terms, budget \in Sums : Create(terms, budget)
    \/ \E sum \in Sums : TopUp(sum)
    \/ Close \/ Pause \/ Continue
    \/ \E a \in Accounts : Challenge(a) \/ NewIdentityKey(a)
    \/ \E c \in Slots : Claim(c)
    \/ NextDay

BountySpec == InitBounty /\ [][NextBounty]_bounty_vars
-----------------------------------------------------------------------------
(* What was paid in is in the escrow, was paid for a proof, or went back: one  *)
(* reward for each consumed challenge, whatever top-ups, pauses and claims came *)
(* in between.                                                                 *)
BudgetAccounted ==
    listing.budget = escrow + Reward * Paid + listing.refunded

(* A listing that offers a reward can pay it.                                  *)
OfferCovered ==
    listing.state = "active" => escrow >= Reward /\ Paid < listing.terms.max

(* Challenges are handed out freely; what they were granted for is checked     *)
(* again when they are claimed.                                                *)
LimitsHold ==
    /\ Paid <= listing.terms.max
    /\ \A a \in Accounts :
          claims[a] <= listing.terms.limit
          /\ claims[a] = Cardinality({c \in Consumed : challenge[c].claimant = a})

(* A publisher's pause ends by its own word: no payment, top-up or refund      *)
(* offers the reward again.                                                    *)
PauseStands ==
    [][listing.reason = "publisher_paused" /\ listing'.state = "active"
          => UNCHANGED <<purse, escrow>>]_bounty_vars

(* The budget of a bounty is spent on claims alone, covers the next one    *)
(* while it is open, and no limit on claims is passed.                     *)
BountySound == BudgetAccounted /\ OfferCovered /\ LimitsHold
=============================================================================
