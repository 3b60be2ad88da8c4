----------------------------- MODULE OncePerKey -----------------------------
(***************************************************************************)
(* What the service promises about request identifiers, whatever the       *)
(* transport, the batch or the crash a request went through: a key is      *)
(* bound to one content for ever, and a content takes effect when its key  *)
(* is bound and never again.  Contents that belong together are bound in   *)
(* one step.                                                               *)
(***************************************************************************)
EXTENDS Integers

CONSTANTS Key, Content, KeyOf, Unbound

VARIABLES bound,   \* the content each key stands for, or Unbound
          done     \* how often each content has taken effect

Init == /\ bound = [k \in Key |-> Unbound]
        /\ done = [c \in Content |-> 0]

Perform(C) ==
  /\ \A c \in C : bound[KeyOf[c]] = Unbound
  /\ \A c, d \in C : KeyOf[c] = KeyOf[d] => c = d
  /\ bound' = [k \in Key |-> IF \E c \in C : KeyOf[c] = k
                             THEN CHOOSE c \in C : KeyOf[c] = k
                             ELSE bound[k]]
  /\ done' = [c \in Content |-> IF c \in C THEN done[c] + 1 ELSE done[c]]

Next == \E C \in SUBSET Content : Perform(C)

Spec == Init /\ [][Next]_<<bound, done>>
=============================================================================
