------------------------------- MODULE Executor -------------------------------
(***************************************************************************)
(* The executor: how one subject's requests become results, at most once.  *)
(*                                                                         *)
(* A request identifier of the subject is a key.  A single operation is    *)
(* one write transaction that authenticates, looks its key up, applies the *)
(* handler and stores the result.  An atomic batch runs its children in    *)
(* nested transactions of its own.  An independent batch reserves its key, *)
(* commits each child in a transaction of its own and stores its result    *)
(* last, so that a crash, another server or another request may come       *)
(* between any two of these steps.                                         *)
(*                                                                         *)
(* Write transactions exclude each other, so each of them is one action.   *)
(* A refused request changes nothing and is no action.  A payload is what  *)
(* the digest covers: the same payload may be signed again, with a new     *)
(* expiry and by another signer of the subject, while the children of a    *)
(* batch are part of its payload with their own expiry and signature.      *)
(***************************************************************************)
EXTENDS Integers, Sequences, FiniteSets

CONSTANTS
  Payload,     \* request contents, as the digest tells them apart
  Id,          \* request identifiers of the subject
  IdOf,        \* the request identifier of each payload
  Kind,        \* "single", "atomic" or "independent", for each payload
  Children,    \* the signed child requests of each batch
  Server,      \* processes that can run an independent batch
  MaxUses,     \* uses of the subject's limited delegation
  MaxResults,  \* capacity of the results table
  Guarded,     \* bound: the operations whose access may change, the batches that may age
  None         \* no row

Signer  == {"owner", "delegate"}
Request == [pay : Payload, by : Signer]
Outcome == {"ok", "error"}

ASSUME ExecutorAssumption ==
  /\ IdOf \in [Payload -> Id]
  /\ Kind \in [Payload -> {"single", "atomic", "independent"}]
  /\ Children \in [Payload -> Seq(Request)]
  /\ MaxUses \in Nat
  /\ MaxResults \in Nat
  /\ Guarded \subseteq Payload
  /\ None \notin Payload
  /\ IsFiniteSet(Id)

Row == [pay : Payload, by : Signer, outcomes : Seq(Outcome)]
Job == [pay : Payload, outcomes : Seq(Outcome)]
ASSUME NoneIsNoRow == None \notin Row /\ None \notin Job

VARIABLES
  results,   \* table results: the stored result of each key
  batches,   \* table batches: the payload an independent batch reserved the key for
  uses,      \* uses of the delegation counted so far
  live,      \* signers whose credential is not revoked
  open,      \* operations whose resource the subject may use and read
  aged,      \* batches whose child requests have expired
  server,    \* the batch each process is in the middle of
  applied,   \* history: the transactions in which each payload took effect
  answers    \* history: the results clients were told for each key

vars == <<results, batches, uses, live, open, aged, server, applied, answers>>

Init ==
  /\ results = [i \in Id |-> None]
  /\ batches = [i \in Id |-> None]
  /\ uses = 0
  /\ live = Signer
  /\ open = Payload
  /\ aged = {}
  /\ server = [s \in Server |-> None]
  /\ applied = [p \in Payload |-> <<>>]
  /\ answers = [i \in Id |-> {}]

-----------------------------------------------------------------------------
(* Admission.                                                              *)

(* request_result: the key has no row, or a row of the same digest; a row  *)
(* of another digest is an idempotency_conflict and neither holds.         *)
Free_Digest(p) ==    \* mutant: the row is looked up by content
  ~ (results[IdOf[p]] # None /\ results[IdOf[p]].pay = p)
Free(p) == results[IdOf[p]] = None
Stored(p) == results[IdOf[p]] # None /\ results[IdOf[p]].pay = p

(* Authentication when `spent` uses of the delegation are counted.  A      *)
(* limited delegation covers no batch, and once it is used up only its own *)
(* results may be asked for again.                                         *)
Authentic(c, spent) ==
  /\ c.by \in live
  /\ c.by = "delegate" =>
       /\ Kind[c.pay] = "single"
       /\ spent < MaxUses \/ (Stored(c.pay) /\ results[IdOf[c.pay]].by = "delegate")

(* A single operation that is executed or answered again. *)
Admitted(c, spent) ==
  /\ Kind[c.pay] = "single"
  /\ Authentic(c, spent)
  /\ c.pay \in open
  /\ Free(c.pay) \/ Stored(c.pay)

(* The one validator of the children of a batch. *)
Packets(p) ==
  /\ Children[p] # <<>>
  /\ \A k \in DOMAIN Children[p] :
       LET q == Children[p][k].pay IN
         /\ Kind[q] = "single"
         /\ IdOf[q] # IdOf[p]
         /\ \A m \in DOMAIN Children[p] : IdOf[Children[p][m].pay] = IdOf[q] => m = k

(* What a result names, which a replay must be allowed to read. *)
Resources(r) ==
  IF Kind[r.pay] = "single" THEN {r.pay}
  ELSE {Children[r.pay][k].pay : k \in {j \in DOMAIN r.outcomes : r.outcomes[j] = "ok"}}

Readable_Cached(p) == Stored(p)    \* mutant: a stored result is a decision about access
Readable(p) == Stored(p) /\ Resources(results[IdOf[p]]) \subseteq open

-----------------------------------------------------------------------------
(* Writing results.                                                        *)

Rows == {i \in Id : results[i] # None}

SingleRow(c) == [pay |-> c.pay, by |-> c.by, outcomes |-> <<>>]

(* The table with new rows in it, and the uses of the delegation that they *)
(* cost.                                                                   *)
Saved(rows) == [i \in Id |-> IF \E r \in rows : IdOf[r.pay] = i
                            THEN CHOOSE r \in rows : IdOf[r.pay] = i
                            ELSE results[i]]

Cost_Stale(rows) ==    \* mutant: nested requests all add to the count read first
  IF \E r \in rows : r.by = "delegate" THEN 1 ELSE 0
Cost(rows) == Cardinality({r \in rows : r.by = "delegate"})

(* save_result for new rows, in the transaction of tx. *)
Insert(rows, tx) ==
  /\ Cardinality(Rows) + Cardinality(rows) <= MaxResults
  /\ results' = Saved(rows)
  /\ uses' = uses + Cost(rows)
  /\ applied' = [p \in Payload |-> IF \E r \in rows : r.pay = p
                                   THEN Append(applied[p], tx)
                                   ELSE applied[p]]

(* The client hears the result r, or the answer is lost on the way. *)
Tell(r) ==
  \/ answers' = [answers EXCEPT ![IdOf[r.pay]] = @ \cup {r}]
  \/ answers' = answers

-----------------------------------------------------------------------------
(* Requests that are one transaction.                                      *)

ExecuteSingle(c) ==
  /\ Admitted(c, uses)
  /\ Free(c.pay)
  /\ Insert({SingleRow(c)}, c.pay)
  /\ Tell(SingleRow(c))
  /\ UNCHANGED <<batches, live, open, aged, server>>

(* A request whose result is stored is answered from it, if the subject    *)
(* may still read what it names.                                           *)
Replay(c) ==
  /\ Authentic(c, uses)
  /\ Kind[c.pay] = "single" => c.pay \in open
  /\ Kind[c.pay] # "single" => Packets(c.pay)
  /\ Kind[c.pay] = "independent" => batches[IdOf[c.pay]] \in {None, c.pay}
  /\ Readable(c.pay)
  /\ answers' = [answers EXCEPT ![IdOf[c.pay]] = @ \cup {results[IdOf[c.pay]]}]
  /\ UNCHANGED <<results, batches, uses, live, open, aged, server, applied>>

(* The children of p that have no result yet, and the uses that are spent  *)
(* when the k-th child's turn comes.                                       *)
Fresh(p) == {k \in DOMAIN Children[p] : Free(Children[p][k].pay)}
SpentBefore(p, k) ==
  uses + Cardinality({j \in Fresh(p) : j < k /\ Children[p][j].by = "delegate"})

Admissible_Fresh(p) ==    \* mutant: a child whose key has a row counts as answered
  \A k \in Fresh(p) : Admitted(Children[p][k], SpentBefore(p, k))
Admissible(p) == \A k \in DOMAIN Children[p] : Admitted(Children[p][k], SpentBefore(p, k))

BatchRow(p, outcomes) == [pay |-> p, by |-> "owner", outcomes |-> outcomes]
AllOk(p) == [k \in DOMAIN Children[p] |-> "ok"]

(* batch.atomic: a child that is refused aborts the whole transaction. *)
ExecuteAtomic(p) ==
  /\ Kind[p] = "atomic"
  /\ Authentic([pay |-> p, by |-> "owner"], uses)
  /\ Packets(p)
  /\ Free(p)
  /\ p \notin aged
  /\ Admissible(p)
  /\ Insert({SingleRow(Children[p][k]) : k \in Fresh(p)} \cup {BatchRow(p, AllOk(p))}, p)
  /\ Tell(BatchRow(p, AllOk(p)))
  /\ UNCHANGED <<batches, live, open, aged, server>>

-----------------------------------------------------------------------------
(* An independent batch.                                                   *)
Reservable(p) == batches[IdOf[p]] \in {None, p} /\ Free(p)

(* The first transaction. *)
Reserve(s, p) ==
  /\ server[s] = None
  /\ Kind[p] = "independent"
  /\ Authentic([pay |-> p, by |-> "owner"], uses)
  /\ Packets(p)
  /\ Reservable(p)
  /\ batches' = [batches EXCEPT ![IdOf[p]] = p]
  /\ server' = [server EXCEPT ![s] = [pay |-> p, outcomes |-> <<>>]]
  /\ UNCHANGED <<results, uses, live, open, aged, applied, answers>>

Turn(s)      == Len(server[s].outcomes) + 1
HasChild(s)  == server[s] # None /\ Turn(s) <= Len(Children[server[s].pay])
Child(s)     == Children[server[s].pay][Turn(s)]
Note(s, out) == server' = [server EXCEPT ![s].outcomes = Append(@, out)]

(* The next child, in a transaction of its own: it is executed, *)
CommitChild(s) ==
  /\ HasChild(s)
  /\ server[s].pay \notin aged
  /\ Admitted(Child(s), uses)
  /\ Free(Child(s).pay)
  /\ Insert({SingleRow(Child(s))}, Child(s).pay)
  /\ Note(s, "ok")
  /\ UNCHANGED <<batches, live, open, aged, answers>>

(* or answered from its stored result, *)
ReplayChild(s) ==
  /\ HasChild(s)
  /\ server[s].pay \notin aged
  /\ Admitted(Child(s), uses)
  /\ Stored(Child(s).pay)
  /\ Note(s, "ok")
  /\ UNCHANGED <<results, batches, uses, live, open, aged, applied, answers>>

(* or refused, by a check, by its handler or by the database. *)
RefuseChild(s) ==
  /\ HasChild(s)
  /\ Note(s, "error")
  /\ UNCHANGED <<results, batches, uses, live, open, aged, applied, answers>>

(* The last transaction stores the outcomes of this run, unless another    *)
(* run of the same batch has stored its own: then that one is the answer.  *)
Complete(s) == server[s] # None /\ Len(server[s].outcomes) = Len(Children[server[s].pay])

OwnRow(s) == BatchRow(server[s].pay, server[s].outcomes)
Verdict(s) == IF Free(server[s].pay) THEN OwnRow(s) ELSE results[IdOf[server[s].pay]]

Finish(s) ==
  /\ Complete(s)
  /\ Authentic([pay |-> server[s].pay, by |-> "owner"], uses)
  /\ \/ Free(server[s].pay) /\ Insert({OwnRow(s)}, server[s].pay)
     \/ Readable(server[s].pay) /\ UNCHANGED <<results, uses, applied>>
  /\ Tell(Verdict(s))
  /\ server' = [server EXCEPT ![s] = None]
  /\ UNCHANGED <<batches, live, open, aged>>

(* The process dies, or its last transaction is refused or fails. *)
Abandon(s) ==
  /\ server[s] # None
  /\ server' = [server EXCEPT ![s] = None]
  /\ UNCHANGED <<results, batches, uses, live, open, aged, applied, answers>>

-----------------------------------------------------------------------------
(* What changes around the executor.                                       *)

Revoke(by) ==
  /\ by \in live
  /\ live' = live \ {by}
  /\ UNCHANGED <<results, batches, uses, open, aged, server, applied, answers>>

ChangeAccess(p) ==
  /\ Kind[p] = "single"
  /\ open' = (IF p \in open THEN open \ {p} ELSE open \cup {p})
  /\ UNCHANGED <<results, batches, uses, live, aged, server, applied, answers>>

(* Five minutes pass: a child request cannot be signed again without       *)
(* changing the batch it is part of.                                       *)
Age(p) ==
  /\ Kind[p] # "single"
  /\ p \notin aged
  /\ aged' = aged \cup {p}
  /\ UNCHANGED <<results, batches, uses, live, open, server, applied, answers>>

Next ==
  \/ \E c \in Request : ExecuteSingle(c) \/ Replay(c)
  \/ \E p \in Payload : ExecuteAtomic(p)
  \/ \E s \in Server, p \in Payload : Reserve(s, p)
  \/ \E s \in Server : \/ CommitChild(s) \/ ReplayChild(s) \/ RefuseChild(s)
                       \/ Finish(s) \/ Abandon(s)
  \/ \E by \in Signer : Revoke(by)
  \/ \E p \in Guarded : ChangeAccess(p) \/ Age(p)

Spec == Init /\ [][Next]_vars
-----------------------------------------------------------------------------
(* Properties.                                                             *)

(* Every row sits under its own key; a server's outcomes never outrun the  *)
(* children of its batch; what clients heard are rows.                     *)
TypeOK ==
  /\ results \in [Id -> Row \cup {None}]
  /\ \A i \in Id : results[i] # None =>
       /\ IdOf[results[i].pay] = i
       /\ Len(results[i].outcomes) <= Len(Children[results[i].pay])
  /\ batches \in [Id -> Payload \cup {None}]
  /\ uses \in Nat
  /\ live \subseteq Signer
  /\ open \subseteq Payload
  /\ aged \subseteq Payload
  /\ server \in [Server -> Job \cup {None}]
  /\ \A s \in Server : server[s] # None =>
       /\ Kind[server[s].pay] = "independent"
       /\ Len(server[s].outcomes) <= Len(Children[server[s].pay])
  /\ applied \in [Payload -> Seq(Payload)]
  /\ answers \in [Id -> SUBSET Row]

(* A content takes effect at most once, and exactly when its key holds its *)
(* result: no handler ran whose result is lost, and no result is stored    *)
(* for a handler that did not run, whichever request carried it.           *)
StoredMeansApplied ==
  \A p \in Payload : Len(applied[p]) = (IF Stored(p) THEN 1 ELSE 0)

(* All that a client ever hears of a key is one result, the stored one,    *)
(* although several processes may finish the same batch with outcomes of   *)
(* their own.                                                              *)
AnswersAgree ==
  \A i \in Id : answers[i] \subseteq (IF results[i] = None THEN {} ELSE {results[i]})

(* What took effect inside an atomic batch did so together with the batch: *)
(* its result is stored, and so is the result of every other child.        *)
AllOrNothing ==
  \A p, a \in Payload :
    (Kind[a] = "atomic" /\ \E n \in DOMAIN applied[p] : applied[p][n] = a) =>
      /\ Stored(a)
      /\ \A k \in DOMAIN Children[a] : Stored(Children[a][k].pay)

(* A child that a batch reports, or is about to report, as done has taken  *)
(* effect, and its result can be asked for by its own identifier.          *)
OutcomesTrue ==
  LET True(p, outcomes) ==
        \A k \in DOMAIN outcomes : outcomes[k] = "ok" => Stored(Children[p][k].pay)
  IN /\ \A i \in Id : results[i] # None /\ Kind[results[i].pay] # "single" =>
          True(results[i].pay, results[i].outcomes)
     /\ \A s \in Server : server[s] # None => True(server[s].pay, server[s].outcomes)

(* The uses of a limited delegation are those of the results it paid for,  *)
(* in whatever batch or transaction, and never exceed the limit.           *)
UsesCounted ==
  /\ uses = Cardinality({i \in Rows : results[i].by = "delegate"})
  /\ uses <= MaxUses

(* Two different batches never run under one key: the key of every batch   *)
(* that is in progress is reserved for it.                                 *)
RunsReserved ==
  \A s \in Server : server[s] # None => batches[IdOf[server[s].pay]] = server[s].pay

(* A client is not told a stored result again that names a resource the    *)
(* subject can no longer read.                                             *)
ReplayNeedsAccess ==
  [][\A i \in Id : results[i] # None /\ answers'[i] # answers[i] =>
       Resources(results[i]) \subseteq open]_vars

(* The executor implements the promise about keys. *)
Effects == [p \in Payload |-> Len(applied[p])]
BoundTo == [i \in Id |-> IF results[i] = None THEN None ELSE results[i].pay]
Promise == INSTANCE OncePerKey WITH
             Key <- Id, Content <- Payload, KeyOf <- IdOf, Unbound <- None,
             bound <- BoundTo, done <- Effects
KeysBoundOnce == Promise!Spec

(* "Reserve an idempotency key, commit children separately, then the       *)
(* result": no other request takes the key of a reserved batch.            *)
ReservationHolds ==
  \A i \in Id : batches[i] # None /\ results[i] # None => results[i].pay = batches[i]

(* Between any two transactions: what is stored took effect once, together *)
(* with its batch, all clients hear one answer, and what a batch reports   *)
(* as done is done.                                                        *)
ExecutorSound ==
  /\ TypeOK
  /\ StoredMeansApplied
  /\ AnswersAgree
  /\ AllOrNothing
  /\ OutcomesTrue
  /\ RunsReserved
=============================================================================
