--------------------------- MODULE EscrowPromise ---------------------------
(***************************************************************************)
(* What the market promises about the money of an order, whatever the      *)
(* handlers and the worker do: it is paid once, it is shared out once, the *)
(* shares are exactly what was paid, and nothing moves afterwards.         *)
(***************************************************************************)
EXTENDS Naturals

CONSTANT Orders

VARIABLE account    \* [Orders -> what was paid and where it went]

Account == [paid : Nat, toBuyer : Nat, toSeller : Nat]
Empty == [paid |-> 0, toBuyer |-> 0, toSeller |-> 0]

Open(a) == a.toBuyer = 0 /\ a.toSeller = 0

Pay(a, b)   == a = Empty /\ b.paid > 0 /\ Open(b)
Share(a, b) == a.paid > 0 /\ Open(a) /\ b.paid = a.paid /\ b.toBuyer + b.toSeller = a.paid
PayAndShare(a, b) == a = Empty /\ b.paid > 0 /\ b.toBuyer + b.toSeller = b.paid

Init == account = [o \in Orders |-> Empty]

Next == \A o \in Orders :
            \/ account'[o] = account[o]
            \/ Pay(account[o], account'[o])
            \/ Share(account[o], account'[o])
            \/ PayAndShare(account[o], account'[o])

Spec == Init /\ [][Next]_account
=============================================================================
