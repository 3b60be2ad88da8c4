--------------------------- MODULE ExecutorProofs ---------------------------
(***************************************************************************)
(* Proofs about Executor, for any requests, batches, processes and limits. *)
(* Every step either leaves the results alone or adds rows under free keys *)
(* (StepsGrow); what the executor promises about keys follows from that.   *)
(***************************************************************************)
EXTENDS Executor, FiniteSetTheorems, SequenceTheorems, WellFoundedInduction, TLAPS

(* A set of numbers has a least element, and a greatest one if it is       *)
(* bounded.                                                                *)
LEMMA LeastExists ==
    ASSUME NEW S \in SUBSET Nat, S # {}
    PROVE  \E x \in S : \A y \in S : x <= y
  <1> DEFINE R == OpToRel(<, Nat)
  <1>1. IsWellFoundedOn(R, Nat)
    BY NatLessThanWellFounded
  <1>2. R = {ss \in Nat \X Nat : ss[1] < ss[2]}
    BY DEF OpToRel
  <1> HIDE DEF R
  <1>3. PICK x \in S : \A y \in S : <<y, x>> \notin R
    BY <1>1, WFMin
  <1>4. \A y \in S : ~(y < x)
    BY <1>2, <1>3
  <1> QED
    BY <1>4

LEMMA GreatestExists ==
    ASSUME NEW S \in SUBSET Nat, S # {}, NEW n \in Nat, \A x \in S : x <= n
    PROVE  \E x \in S : \A y \in S : y <= x
  <1> DEFINE T == {n - x : x \in S}
  <1>1. T \in SUBSET Nat
    OBVIOUS
  <1>2. T # {}
    OBVIOUS
  <1>3. PICK y \in T : \A z \in T : y <= z
    BY <1>1, <1>2, LeastExists
  <1>4. PICK x \in S : y = n - x
    BY <1>3
  <1>5. \A z \in S : z <= x
    BY <1>3, <1>4
  <1> QED
    BY <1>5

USE ExecutorAssumption, NoneIsNoRow DEF ExecutorAssumption, NoneIsNoRow

(* What a batch may report as done, given the rows that are being added.   *)
DoneBy(p, outcomes, rows) ==
  \A k \in DOMAIN outcomes :
    outcomes[k] = "ok" => \/ Stored(Children[p][k].pay)
                          \/ \E r \in rows : r.pay = Children[p][k].pay

(* New rows that one transaction, that of tx, may add to the table.        *)
Addable(rows, tx) ==
  /\ rows \subseteq Row
  /\ IsFiniteSet(rows)
  /\ tx \in Payload
  /\ \A r \in rows : Free(r.pay)
  /\ \A r \in rows : Len(r.outcomes) <= Len(Children[r.pay])
  /\ \A r, q \in rows : IdOf[r.pay] = IdOf[q.pay] => r = q
  /\ \A r \in rows : Kind[r.pay] # "single" => DoneBy(r.pay, r.outcomes, rows)
  /\ Kind[tx] = "atomic" =>
       /\ \E r \in rows : r.pay = tx
       /\ \A k \in DOMAIN Children[tx] :
            \/ Stored(Children[tx][k].pay)
            \/ \E r \in rows : r.pay = Children[tx][k].pay

Grows == \E rows, tx : Addable(rows, tx) /\ Insert(rows, tx)
Still == UNCHANGED <<results, uses, applied>>

-----------------------------------------------------------------------------
(* Types.                                                                  *)

(* The children of a batch are requests.                                   *)
LEMMA ChildTyped ==
    ASSUME NEW p \in Payload, NEW k \in DOMAIN Children[p]
    PROVE  /\ Children[p][k] \in Request
           /\ Children[p][k].pay \in Payload /\ Children[p][k].by \in Signer
  <1>1. Children[p] \in Seq(Request)
    OBVIOUS
  <1>2. Children[p][k] \in Request
    BY <1>1
  <1> QED
    BY <1>2 DEF Request

(* The result of a single request is a row, under its own key.             *)
LEMMA SingleRowTyped ==
    ASSUME NEW c \in Request
    PROVE  /\ SingleRow(c) \in Row
           /\ SingleRow(c).pay = c.pay /\ SingleRow(c).outcomes = <<>>
  BY DEF SingleRow, Row, Request

(* A request without outcomes has not more of them than children.          *)
LEMMA NoOutcomes ==
    ASSUME NEW p \in Payload
    PROVE  Len(<<>>) <= Len(Children[p])
  <1>1. Children[p] \in Seq(Request)
    OBVIOUS
  <1>2. Len(Children[p]) \in Nat
    BY <1>1
  <1> QED
    BY <1>2

(* The result of a batch is a row.                                         *)
LEMMA BatchRowTyped ==
    ASSUME NEW p \in Payload, NEW outcomes \in Seq(Outcome)
    PROVE  /\ BatchRow(p, outcomes) \in Row
           /\ BatchRow(p, outcomes).pay = p /\ BatchRow(p, outcomes).outcomes = outcomes
  BY DEF BatchRow, Row, Signer

(* The outcomes of an atomic batch, one for each child.                    *)
LEMMA AllOkTyped ==
    ASSUME NEW p \in Payload
    PROVE  /\ AllOk(p) \in Seq(Outcome) /\ DOMAIN AllOk(p) = DOMAIN Children[p]
           /\ Len(AllOk(p)) = Len(Children[p]) /\ Len(Children[p]) \in Nat
  <1>1. Children[p] \in Seq(Request)
    OBVIOUS
  <1>2. Len(Children[p]) \in Nat /\ DOMAIN Children[p] = 1 .. Len(Children[p])
    BY <1>1
  <1>3. AllOk(p) \in [1 .. Len(Children[p]) -> Outcome]
    BY <1>2 DEF AllOk, Outcome
  <1>4. AllOk(p) \in Seq(Outcome)
    BY <1>2, <1>3, SeqDef DEF AllOk, Outcome
  <1>5. DOMAIN AllOk(p) = 1 .. Len(Children[p])
    BY <1>2 DEF AllOk
  <1> QED
    BY <1>2, <1>4, <1>5, LenProperties

(* A process that is in the middle of a batch.                             *)
LEMMA BusyTyped ==
    ASSUME TypeOK, NEW s \in Server, server[s] # None
    PROVE  /\ server[s] \in Job /\ server[s].pay \in Payload
           /\ server[s].outcomes \in Seq(Outcome)
           /\ Kind[server[s].pay] = "independent"
           /\ Children[server[s].pay] \in Seq(Request)
           /\ Len(server[s].outcomes) <= Len(Children[server[s].pay])
  BY DEF TypeOK, Job

(* Its next child.                                                         *)
LEMMA NextChildTyped ==
    ASSUME TypeOK, NEW s \in Server, HasChild(s)
    PROVE  /\ server[s] # None
           /\ Turn(s) \in DOMAIN Children[server[s].pay]
           /\ Child(s) \in Request /\ Child(s).pay \in Payload
  <1>1. server[s] # None
    BY DEF HasChild
  <1>2. Turn(s) \in 1 .. Len(Children[server[s].pay])
    BY <1>1, BusyTyped DEF HasChild, Turn
  <1>3. Turn(s) \in DOMAIN Children[server[s].pay]
    BY <1>1, <1>2, BusyTyped
  <1> QED
    BY <1>1, <1>3, BusyTyped, ChildTyped DEF Child

-----------------------------------------------------------------------------
(* What adding rows does.                                                  *)

(* The table afterwards: new rows under their keys, the old ones kept.     *)
LEMMA SavedRows ==
    ASSUME TypeOK, NEW rows, NEW tx, Addable(rows, tx), Insert(rows, tx)
    PROVE  /\ results' \in [Id -> Row \cup {None}]
           /\ \A i \in Id : results'[i] # None =>
                /\ IdOf[results'[i].pay] = i
                /\ Len(results'[i].outcomes) <= Len(Children[results'[i].pay])
           /\ \A i \in Id : results[i] # None => results'[i] = results[i]
           /\ \A r \in rows : results'[IdOf[r.pay]] = r
           /\ \A i \in Id : results'[i] # None /\ results'[i] # results[i] =>
                results'[i] \in rows
  <1> DEFINE New(i) == CHOOSE r \in rows : IdOf[r.pay] = i
  <1>1. \A r \in rows : r \in Row /\ r.pay \in Payload /\ r # None /\ IdOf[r.pay] \in Id
    BY DEF Addable, Row
  <1>2. results' = [i \in Id |-> IF \E r \in rows : IdOf[r.pay] = i THEN New(i) ELSE results[i]]
    BY DEF Insert, Saved
  <1>3. \A i \in Id : (\E r \in rows : IdOf[r.pay] = i) => New(i) \in rows /\ IdOf[New(i).pay] = i
    OBVIOUS
  <1>4. \A r \in rows : New(IdOf[r.pay]) = r
    BY <1>1, <1>3 DEF Addable
  <1> HIDE DEF New
  <1>5. \A i \in Id : results[i] # None => ~ \E r \in rows : IdOf[r.pay] = i
    BY DEF Addable, Free
  <1>6. \A i \in Id : results'[i] = IF \E r \in rows : IdOf[r.pay] = i THEN New(i) ELSE results[i]
    BY <1>2
  <1>7. results' \in [Id -> Row \cup {None}]
    BY <1>1, <1>2, <1>3 DEF TypeOK
  <1>8. \A i \in Id : results'[i] # None =>
          /\ IdOf[results'[i].pay] = i
          /\ Len(results'[i].outcomes) <= Len(Children[results'[i].pay])
    <2> TAKE i \in Id
    <2> HAVE results'[i] # None
    <2>1. CASE \E r \in rows : IdOf[r.pay] = i
      <3>1. results'[i] \in rows /\ IdOf[results'[i].pay] = i
        BY <1>3, <1>6, <2>1
      <3> QED
        BY <3>1 DEF Addable
    <2>2. CASE ~ \E r \in rows : IdOf[r.pay] = i
      <3>1. results'[i] = results[i]
        BY <1>6, <2>2
      <3> QED
        BY <3>1 DEF TypeOK
    <2> QED
      BY <2>1, <2>2
  <1>9. \A i \in Id : results[i] # None => results'[i] = results[i]
    BY <1>5, <1>6
  <1>10. \A r \in rows : results'[IdOf[r.pay]] = r
    BY <1>1, <1>4, <1>6
  <1>11. \A i \in Id : results'[i] # None /\ results'[i] # results[i] => results'[i] \in rows
    BY <1>3, <1>6
  <1> QED
    BY <1>7, <1>8, <1>9, <1>10, <1>11

(* Stored afterwards is what was stored and what was added.                *)
LEMMA StoredAfter ==
    ASSUME TypeOK, NEW rows, NEW tx, Addable(rows, tx), Insert(rows, tx), NEW p \in Payload
    PROVE  Stored(p)' <=> Stored(p) \/ \E r \in rows : r.pay = p
  <1>1. CASE \E r \in rows : r.pay = p
    <2>1. PICK r \in rows : r.pay = p
      BY <1>1
    <2>2. results'[IdOf[p]] = r
      BY <2>1, SavedRows
    <2>3. r # None
      BY <2>1 DEF Addable
    <2> QED
      BY <1>1, <2>1, <2>2, <2>3 DEF Stored
  <1>2. CASE ~ \E r \in rows : r.pay = p
    <2>1. IdOf[p] \in Id
      OBVIOUS
    <2>2. Stored(p) => Stored(p)'
      BY <2>1, SavedRows DEF Stored
    <2>3. Stored(p)' => Stored(p)
      <3>1. SUFFICES ASSUME results'[IdOf[p]] # None, results'[IdOf[p]].pay = p
                     PROVE  Stored(p)
        BY DEF Stored
      <3>2. results'[IdOf[p]] = results[IdOf[p]]
        BY <1>2, <2>1, <3>1, SavedRows
      <3> QED
        BY <3>1, <3>2 DEF Stored
    <2> QED
      BY <1>2, <2>2, <2>3
  <1> QED
    BY <1>1, <1>2

(* The history and the count afterwards.                                   *)
LEMMA InsertTyped ==
    ASSUME TypeOK, NEW rows, NEW tx, Addable(rows, tx), Insert(rows, tx)
    PROVE  /\ uses' \in Nat
           /\ applied' \in [Payload -> Seq(Payload)]
           /\ \A p \in Payload :
                /\ (\E r \in rows : r.pay = p) => applied'[p] = Append(applied[p], tx)
                /\ ~ (\E r \in rows : r.pay = p) => applied'[p] = applied[p]
  <1>1. IsFiniteSet({r \in rows : r.by = "delegate"})
    BY FS_Subset DEF Addable
  <1>2. Cost(rows) \in Nat
    BY <1>1, FS_CardinalityType DEF Cost
  <1>3. uses' \in Nat
    BY <1>2 DEF Insert, TypeOK
  <1>4. applied' = [p \in Payload |-> IF \E r \in rows : r.pay = p THEN Append(applied[p], tx)
                                                                 ELSE applied[p]]
    BY DEF Insert
  <1>5. \A p \in Payload :
          /\ (\E r \in rows : r.pay = p) => applied'[p] = Append(applied[p], tx)
          /\ ~ (\E r \in rows : r.pay = p) => applied'[p] = applied[p]
    BY <1>4
  <1>6. \A p \in Payload : applied[p] \in Seq(Payload) /\ Append(applied[p], tx) \in Seq(Payload)
    BY DEF TypeOK, Addable
  <1>7. applied' \in [Payload -> Seq(Payload)]
    BY <1>4, <1>6
  <1> QED
    BY <1>3, <1>5, <1>7

-----------------------------------------------------------------------------
(* Every step adds rows or leaves the table alone.                         *)

(* One new row of a single request can be added.                           *)
LEMMA SingleAddable ==
    ASSUME NEW c \in Request, Kind[c.pay] = "single", Free(c.pay)
    PROVE  Addable({SingleRow(c)}, c.pay)
  <1>1. c.pay \in Payload
    BY DEF Request
  <1>2. IsFiniteSet({SingleRow(c)})
    BY FS_Singleton
  <1>3. Len(SingleRow(c).outcomes) <= Len(Children[c.pay])
    BY <1>1, NoOutcomes, SingleRowTyped
  <1> QED
    BY <1>1, <1>2, <1>3, SingleRowTyped DEF Addable

(* So can the result of an independent batch whose outcomes are true.      *)
LEMMA OwnRowAddable ==
    ASSUME TypeOK, OutcomesTrue, NEW s \in Server, server[s] # None, Free(server[s].pay)
    PROVE  Addable({OwnRow(s)}, server[s].pay)
  <1> DEFINE p == server[s].pay
             r == OwnRow(s)
  <1>1. p \in Payload /\ Kind[p] = "independent" /\ server[s].outcomes \in Seq(Outcome)
    BY BusyTyped
  <1>2. r \in Row /\ r.pay = p /\ r.outcomes = server[s].outcomes
    BY <1>1, BatchRowTyped DEF OwnRow
  <1>3. \A k \in DOMAIN r.outcomes : r.outcomes[k] = "ok" => Stored(Children[p][k].pay)
    BY <1>2 DEF OutcomesTrue
  <1>4. IsFiniteSet({r})
    BY FS_Singleton
  <1> HIDE DEF r
  <1> QED
    <2>1. Len(r.outcomes) <= Len(Children[p])
      BY <1>2, BusyTyped
    <2>2. Addable({r}, p)
      BY <1>1, <1>2, <1>3, <1>4, <2>1 DEF Addable, DoneBy
    <2> QED
      BY <2>2 DEF r

(* So can an atomic batch together with its new children.                  *)
LEMMA AtomicAddable ==
    ASSUME TypeOK, NEW p \in Payload, Kind[p] = "atomic", Packets(p), Free(p), Admissible(p)
    PROVE  Addable({SingleRow(Children[p][k]) : k \in Fresh(p)} \cup {BatchRow(p, AllOk(p))}, p)
  <1> DEFINE row(k) == SingleRow(Children[p][k])
             new == {row(k) : k \in Fresh(p)}
             own == BatchRow(p, AllOk(p))
             rows == new \cup {own}
  <1>1. own \in Row /\ own.pay = p /\ own.outcomes = AllOk(p)
    BY AllOkTyped, BatchRowTyped
  <1>2. Fresh(p) \subseteq DOMAIN Children[p]
    BY DEF Fresh
  <1>3. ASSUME NEW k \in Fresh(p)
        PROVE  /\ row(k) \in Row /\ row(k).pay = Children[p][k].pay
               /\ Free(row(k).pay) /\ Kind[row(k).pay] = "single"
               /\ IdOf[row(k).pay] # IdOf[p]
               /\ Len(row(k).outcomes) <= Len(Children[row(k).pay])
    <2>1. Children[p][k] \in Request
      BY <1>2, ChildTyped
    <2>2. /\ row(k) \in Row /\ row(k).pay = Children[p][k].pay
          /\ Len(row(k).outcomes) <= Len(Children[row(k).pay])
      BY <2>1, SingleRowTyped, NoOutcomes DEF Request
    <2> HIDE DEF row
    <2> QED
      BY <1>2, <2>2 DEF Fresh, Packets
  <1>4. IsFiniteSet(rows)
    <2>1. Children[p] \in Seq(Request)
      OBVIOUS
    <2>2. DOMAIN Children[p] = 1 .. Len(Children[p]) /\ Len(Children[p]) \in Nat
      BY <2>1
    <2>3. IsFiniteSet(DOMAIN Children[p])
      BY <2>2, FS_Interval
    <2>4. IsFiniteSet(Fresh(p))
      BY <1>2, <2>3, FS_Subset
    <2>5. IsFiniteSet(new)
      <3> DEFINE f == [k \in Fresh(p) |-> row(k)]
      <3> HIDE DEF row
      <3>1. f \in Surjection(Fresh(p), new)
        BY DEF Surjection
      <3> QED
        BY <2>4, <3>1, FS_Surjection
    <2> QED
      BY <2>5, FS_Singleton, FS_Union
  <1>5. \A k, m \in Fresh(p) : IdOf[row(k).pay] = IdOf[row(m).pay] => k = m
    <2> TAKE k, m \in Fresh(p)
    <2>1. k \in DOMAIN Children[p] /\ m \in DOMAIN Children[p]
      BY <1>2
    <2>2. row(k).pay = Children[p][k].pay /\ row(m).pay = Children[p][m].pay
      BY <1>3
    <2> HIDE DEF row
    <2> QED
      BY <2>1, <2>2 DEF Packets
  <1>6. \A k \in DOMAIN Children[p] :
          Stored(Children[p][k].pay) \/ \E r \in rows : r.pay = Children[p][k].pay
    <2> TAKE k \in DOMAIN Children[p]
    <2>1. CASE k \in Fresh(p)
      <3>1. row(k) \in rows
        BY <2>1
      <3> QED
        BY <1>3, <2>1, <3>1
    <2>2. CASE k \notin Fresh(p)
      BY <2>2 DEF Fresh, Admissible, Admitted
    <2> QED
      BY <2>1, <2>2
  <1>7. \A r \in rows : r = own \/ \E k \in Fresh(p) : r = row(k)
    OBVIOUS
  <1>8. own \in rows
    OBVIOUS
  <1> HIDE DEF own, row, rows
  <1>9. /\ rows \subseteq Row
        /\ \A r \in rows : Free(r.pay) /\ Len(r.outcomes) <= Len(Children[r.pay])
    <2>1. Len(own.outcomes) <= Len(Children[own.pay])
      BY <1>1, AllOkTyped
    <2> QED
      BY <1>1, <1>3, <1>7, <2>1
  <1>10. \A r, q \in rows : IdOf[r.pay] = IdOf[q.pay] => r = q
    <2> TAKE r, q \in rows
    <2> HAVE IdOf[r.pay] = IdOf[q.pay]
    <2>1. CASE r = own
      BY <1>1, <1>3, <1>7, <2>1
    <2>2. CASE q = own
      BY <1>1, <1>3, <1>7, <2>2
    <2>3. CASE r # own /\ q # own
      <3>1. PICK k \in Fresh(p) : r = row(k)
        BY <1>7, <2>3
      <3>2. PICK m \in Fresh(p) : q = row(m)
        BY <1>7, <2>3
      <3>3. k = m
        BY <1>5, <3>1, <3>2
      <3> QED
        BY <3>1, <3>2, <3>3
    <2> QED
      BY <2>1, <2>2, <2>3
  <1>11. \A r \in rows : Kind[r.pay] # "single" => DoneBy(r.pay, r.outcomes, rows)
    <2> TAKE r \in rows
    <2> HAVE Kind[r.pay] # "single"
    <2>1. r = own
      BY <1>3, <1>7
    <2>2. DOMAIN r.outcomes = DOMAIN Children[p]
      BY <1>1, <2>1, AllOkTyped
    <2>3. r.pay = p
      BY <1>1, <2>1
    <2>4. DoneBy(p, r.outcomes, rows)
      BY <1>6, <2>2 DEF DoneBy
    <2> QED
      BY <2>3, <2>4
  <1>12. Addable(rows, p)
    BY <1>1, <1>4, <1>6, <1>8, <1>9, <1>10, <1>11 DEF Addable
  <1> QED
    BY <1>12 DEF rows, own, row

(* The steps.                                                              *)
LEMMA StepsGrow ==
    ASSUME TypeOK, OutcomesTrue, [Next]_vars
    PROVE  Grows \/ Still
  <1>1. ASSUME NEW c \in Request, ExecuteSingle(c)
        PROVE  Grows
    BY <1>1, SingleAddable DEF ExecuteSingle, Admitted, Grows
  <1>2. ASSUME NEW p \in Payload, ExecuteAtomic(p)
        PROVE  Grows
    BY <1>2, AtomicAddable DEF ExecuteAtomic, Grows
  <1>3. ASSUME NEW s \in Server, CommitChild(s)
        PROVE  Grows
    <2>1. Child(s) \in Request /\ Kind[Child(s).pay] = "single" /\ Free(Child(s).pay)
      BY <1>3, NextChildTyped DEF CommitChild, Admitted
    <2> QED
      BY <1>3, <2>1, SingleAddable DEF CommitChild, Grows
  <1>4. ASSUME NEW s \in Server, Finish(s)
        PROVE  Grows \/ Still
    <2>1. server[s] # None
      BY <1>4 DEF Finish, Complete
    <2> QED
      BY <1>4, <2>1, OwnRowAddable DEF Finish, Grows, Still
  <1>5. ASSUME NEW s \in Server, NEW p \in Payload, Reserve(s, p)
        PROVE  Still
    BY <1>5 DEF Reserve, Still
  <1>6. ASSUME NEW s \in Server, ReplayChild(s) \/ RefuseChild(s) \/ Abandon(s)
        PROVE  Still
    BY <1>6 DEF ReplayChild, RefuseChild, Abandon, Still
  <1>7. ASSUME NEW c \in Request, Replay(c)
        PROVE  Still
    BY <1>7 DEF Replay, Still
  <1>8. ASSUME NEW p, ChangeAccess(p) \/ Age(p) \/ Revoke(p)
        PROVE  Still
    BY <1>8 DEF ChangeAccess, Age, Revoke, Still
  <1>9. CASE UNCHANGED vars
    BY <1>9 DEF vars, Still
  <1> QED
    BY <1>1, <1>2, <1>3, <1>4, <1>5, <1>6, <1>7, <1>8, <1>9 DEF Next

(* What is stored stays stored.                                            *)
LEMMA StoredStays ==
    ASSUME TypeOK, Grows \/ Still, NEW p \in Payload, Stored(p)
    PROVE  Stored(p)'
  <1>1. CASE Grows
    BY <1>1, StoredAfter DEF Grows
  <1>2. CASE Still
    BY <1>2 DEF Still, Stored
  <1> QED
    BY <1>1, <1>2

-----------------------------------------------------------------------------
(* What steps do to the other variables.                                   *)

(* The table stays typed and keeps its rows.                               *)
LEMMA TablesTyped ==
    ASSUME TypeOK, Grows \/ Still
    PROVE  /\ results' \in [Id -> Row \cup {None}]
           /\ \A i \in Id : results'[i] # None =>
                /\ IdOf[results'[i].pay] = i
                /\ Len(results'[i].outcomes) <= Len(Children[results'[i].pay])
           /\ \A i \in Id : results[i] # None => results'[i] = results[i]
           /\ uses' \in Nat
           /\ applied' \in [Payload -> Seq(Payload)]
  <1>1. CASE Grows
    <2>1. PICK rows, tx : Addable(rows, tx) /\ Insert(rows, tx)
      BY <1>1 DEF Grows
    <2> QED
      BY <2>1, SavedRows, InsertTyped
  <1>2. CASE Still
    BY <1>2 DEF Still, TypeOK
  <1> QED
    BY <1>1, <1>2

(* One more answer about a key: the row that the key then holds.           *)
Answered(r) ==
  /\ r \in Row /\ IdOf[r.pay] \in Id
  /\ results'[IdOf[r.pay]] = r
  /\ answers' = [answers EXCEPT ![IdOf[r.pay]] = @ \cup {r}]

(* A stored row is a row under its payload's key.                          *)
LEMMA StoredRow ==
    ASSUME TypeOK, NEW p \in Payload, Stored(p)
    PROVE  /\ results[IdOf[p]] \in Row /\ results[IdOf[p]].pay = p
           /\ IdOf[p] \in Id
  <1>1. IdOf[p] \in Id
    OBVIOUS
  <1> QED
    BY <1>1 DEF Stored, TypeOK

(* No step tells a client anything but such a row.                         *)
LEMMA AnswersStep ==
    ASSUME TypeOK, OutcomesTrue, [Next]_vars
    PROVE  answers' = answers \/ \E r : Answered(r)
  <1>1. ASSUME NEW c \in Request, ExecuteSingle(c), answers' # answers
        PROVE  \E r : Answered(r)
    <2> DEFINE r == SingleRow(c)
    <2>1. Addable({r}, c.pay) /\ Insert({r}, c.pay)
      BY <1>1, SingleAddable DEF ExecuteSingle, Admitted
    <2>2. r \in Row /\ IdOf[r.pay] \in Id
      BY SingleRowTyped DEF Request
    <2>3. results'[IdOf[r.pay]] = r
      BY <2>1, SavedRows
    <2> QED
      BY <1>1, <2>2, <2>3 DEF ExecuteSingle, Tell, Answered
  <1>2. ASSUME NEW p \in Payload, ExecuteAtomic(p), answers' # answers
        PROVE  \E r : Answered(r)
    <2> DEFINE r == BatchRow(p, AllOk(p))
               rows == {SingleRow(Children[p][k]) : k \in Fresh(p)} \cup {r}
    <2>1. Addable(rows, p) /\ Insert(rows, p)
      BY <1>2, AtomicAddable DEF ExecuteAtomic
    <2>2. r \in Row /\ IdOf[r.pay] \in Id
      BY AllOkTyped, BatchRowTyped
    <2>3. results'[IdOf[r.pay]] = r
      BY <2>1, SavedRows
    <2> QED
      BY <1>2, <2>2, <2>3 DEF ExecuteAtomic, Tell, Answered
  <1>3. ASSUME NEW s \in Server, Finish(s), answers' # answers
        PROVE  \E r : Answered(r)
    <2> DEFINE p == server[s].pay
    <2>1. server[s] # None /\ p \in Payload /\ server[s].outcomes \in Seq(Outcome)
      BY <1>3, BusyTyped DEF Finish, Complete
    <2>2. CASE Free(p) /\ Insert({OwnRow(s)}, p)
      <3>1. Addable({OwnRow(s)}, p)
        BY <2>1, <2>2, OwnRowAddable
      <3>2. OwnRow(s) \in Row /\ IdOf[OwnRow(s).pay] \in Id
        BY <2>1, BatchRowTyped DEF OwnRow
      <3>3. results'[IdOf[OwnRow(s).pay]] = OwnRow(s)
        BY <2>2, <3>1, SavedRows
      <3> QED
        BY <1>3, <2>2, <3>2, <3>3 DEF Finish, Verdict, Tell, Answered
    <2>3. CASE Readable(p) /\ results' = results
      <3>1. Stored(p)
        BY <2>3 DEF Readable
      <3>2. Verdict(s) = results[IdOf[p]]
        BY <3>1 DEF Verdict, Free, Stored
      <3> QED
        BY <1>3, <2>1, <2>3, <3>1, <3>2, StoredRow DEF Finish, Tell, Answered
    <2> QED
      BY <1>3, <2>2, <2>3 DEF Finish
  <1>4. ASSUME NEW c \in Request, Replay(c)
        PROVE  \E r : Answered(r)
    <2>1. c.pay \in Payload /\ Stored(c.pay)
      BY <1>4 DEF Replay, Readable, Request
    <2> QED
      BY <1>4, <2>1, StoredRow DEF Replay, Answered
  <1>5. ASSUME NEW s \in Server, NEW p \in Payload, Reserve(s, p)
        PROVE  answers' = answers
    BY <1>5 DEF Reserve
  <1>6. ASSUME NEW s \in Server,
               CommitChild(s) \/ ReplayChild(s) \/ RefuseChild(s) \/ Abandon(s)
        PROVE  answers' = answers
    BY <1>6 DEF CommitChild, ReplayChild, RefuseChild, Abandon
  <1>7. ASSUME NEW p, ChangeAccess(p) \/ Age(p) \/ Revoke(p)
        PROVE  answers' = answers
    BY <1>7 DEF ChangeAccess, Age, Revoke
  <1>8. CASE UNCHANGED vars
    BY <1>8 DEF vars
  <1> QED
    BY <1>1, <1>2, <1>3, <1>4, <1>5, <1>6, <1>7, <1>8 DEF Next

(* A process begins a batch it has reserved the key for, *)
Begins(s, p) ==
  /\ p \in Payload /\ Kind[p] = "independent"
  /\ batches[IdOf[p]] \in {None, p}
  /\ batches' = [batches EXCEPT ![IdOf[p]] = p]
  /\ server' = [server EXCEPT ![s] = [pay |-> p, outcomes |-> <<>>]]

(* notes the outcome of its next child, truthfully, *)
Notes(s, out) ==
  /\ HasChild(s)
  /\ out \in Outcome
  /\ out = "ok" => \E p \in Payload : p = Child(s).pay /\ Stored(p)'
  /\ Note(s, out)
  /\ batches' = batches

(* or has nothing more to do with it.                                      *)
Ends(s) ==
  /\ server' = [server EXCEPT ![s] = None]
  /\ batches' = batches

(* These are the steps of a process.                                       *)
LEMMA ServersStep ==
    ASSUME TypeOK, OutcomesTrue, [Next]_vars
    PROVE  \/ UNCHANGED <<server, batches>>
           \/ \E s \in Server : \/ \E p : Begins(s, p)
                                \/ \E out : Notes(s, out)
                                \/ Ends(s)
  <1>1. ASSUME NEW s \in Server, NEW p \in Payload, Reserve(s, p)
        PROVE  Begins(s, p)
    BY <1>1 DEF Reserve, Reservable, Begins
  <1>2. ASSUME NEW s \in Server, CommitChild(s)
        PROVE  Notes(s, "ok")
    <2> DEFINE c == Child(s)
    <2>1. c \in Request /\ Kind[c.pay] = "single" /\ Free(c.pay) /\ c.pay \in Payload
      BY <1>2, NextChildTyped DEF CommitChild, Admitted
    <2>2. Addable({SingleRow(c)}, c.pay) /\ Insert({SingleRow(c)}, c.pay)
      BY <1>2, <2>1, SingleAddable DEF CommitChild
    <2>3. SingleRow(c).pay = c.pay
      BY <2>1, SingleRowTyped
    <2> HIDE DEF c
    <2>4. \E p \in Payload : p = c.pay /\ Stored(p)'
      BY <2>1, <2>2, <2>3, StoredAfter
    <2> QED
      BY <1>2, <2>4 DEF CommitChild, Notes, Outcome, c
  <1>3. ASSUME NEW s \in Server, ReplayChild(s)
        PROVE  Notes(s, "ok")
    BY <1>3, NextChildTyped DEF ReplayChild, Notes, Outcome, Stored
  <1>4. ASSUME NEW s \in Server, RefuseChild(s)
        PROVE  Notes(s, "error")
    BY <1>4 DEF RefuseChild, Notes, Outcome
  <1>5. ASSUME NEW s \in Server, Finish(s) \/ Abandon(s)
        PROVE  Ends(s)
    BY <1>5 DEF Finish, Abandon, Ends
  <1>6. ASSUME NEW c \in Request, ExecuteSingle(c) \/ Replay(c)
        PROVE  UNCHANGED <<server, batches>>
    BY <1>6 DEF ExecuteSingle, Replay
  <1>7. ASSUME NEW p, ExecuteAtomic(p) \/ ChangeAccess(p) \/ Age(p) \/ Revoke(p)
        PROVE  UNCHANGED <<server, batches>>
    BY <1>7 DEF ExecuteAtomic, ChangeAccess, Age, Revoke
  <1>8. CASE UNCHANGED vars
    BY <1>8 DEF vars
  <1> QED
    BY <1>1, <1>2, <1>3, <1>4, <1>5, <1>6, <1>7, <1>8 DEF Next

-----------------------------------------------------------------------------
(* Type correctness.                                                       *)

(* The initial state is typed.                                             *)
LEMMA TypeInit == Init => TypeOK
  BY DEF Init, TypeOK, Signer

(* What surrounds the executor stays typed.                                *)
LEMMA SurroundingsTyped ==
    ASSUME TypeOK, [Next]_vars
    PROVE  live' \subseteq Signer /\ open' \subseteq Payload /\ aged' \subseteq Payload
  <1>1. CASE UNCHANGED <<live, open, aged>>
    BY <1>1 DEF TypeOK
  <1>2. ASSUME NEW by \in Signer, Revoke(by)
        PROVE  live' \subseteq Signer /\ UNCHANGED <<open, aged>>
    BY <1>2 DEF Revoke, TypeOK
  <1>3. ASSUME NEW p \in Guarded, ChangeAccess(p) \/ Age(p)
        PROVE  open' \subseteq Payload /\ aged' \subseteq Payload /\ live' = live
    BY <1>3 DEF ChangeAccess, Age, TypeOK
  <1>4. ASSUME NEW c, ExecuteSingle(c) \/ Replay(c) \/ ExecuteAtomic(c)
        PROVE  UNCHANGED <<live, open, aged>>
    BY <1>4 DEF ExecuteSingle, Replay, ExecuteAtomic
  <1>5. ASSUME NEW s, NEW p, Reserve(s, p)
        PROVE  UNCHANGED <<live, open, aged>>
    BY <1>5 DEF Reserve
  <1>6. ASSUME NEW s, CommitChild(s) \/ ReplayChild(s) \/ RefuseChild(s) \/ Finish(s) \/ Abandon(s)
        PROVE  UNCHANGED <<live, open, aged>>
    BY <1>6 DEF CommitChild, ReplayChild, RefuseChild, Finish, Abandon
  <1>7. CASE UNCHANGED vars
    BY <1>7 DEF vars, TypeOK
  <1> QED
    BY <1>1, <1>2, <1>3, <1>4, <1>5, <1>6, <1>7 DEF Next, TypeOK

(* What a process is in the middle of, after a step.                       *)
LEMMA ServersTyped ==
    ASSUME TypeOK, OutcomesTrue, [Next]_vars
    PROVE  /\ batches' \in [Id -> Payload \cup {None}]
           /\ server' \in [Server -> Job \cup {None}]
           /\ \A s \in Server : server'[s] # None =>
                /\ Kind[server'[s].pay] = "independent"
                /\ Len(server'[s].outcomes) <= Len(Children[server'[s].pay])
  <1> DEFINE Right(v) ==
        v # None => Kind[v.pay] = "independent" /\ Len(v.outcomes) <= Len(Children[v.pay])
  <1>1. batches \in [Id -> Payload \cup {None}] /\ server \in [Server -> Job \cup {None}]
        /\ \A s \in Server : Right(server[s])
    BY DEF TypeOK
  <1>2. ASSUME NEW s \in Server, NEW v \in Job \cup {None}, Right(v),
               server' = [server EXCEPT ![s] = v]
        PROVE  server' \in [Server -> Job \cup {None}] /\ \A t \in Server : Right(server'[t])
    <2> HIDE DEF Right
    <2>1. server' \in [Server -> Job \cup {None}]
      BY <1>1, <1>2
    <2>2. \A t \in Server : server'[t] = IF t = s THEN v ELSE server[t]
      BY <1>1, <1>2
    <2> QED
      BY <1>1, <1>2, <2>1, <2>2
  <1>3. ASSUME NEW s \in Server, NEW p, Begins(s, p)
        PROVE  /\ batches' \in [Id -> Payload \cup {None}]
               /\ server' \in [Server -> Job \cup {None}] /\ \A t \in Server : Right(server'[t])
    <2>1. p \in Payload /\ Kind[p] = "independent" /\ Children[p] \in Seq(Request)
      BY <1>3 DEF Begins
    <2>2. [pay |-> p, outcomes |-> <<>>] \in Job
      BY <2>1 DEF Job
    <2>3. Right([pay |-> p, outcomes |-> <<>>])
      BY <2>1
    <2>4. batches' \in [Id -> Payload \cup {None}]
      BY <1>1, <1>3, <2>1 DEF Begins
    <2> HIDE DEF Right
    <2> QED
      BY <1>2, <1>3, <2>2, <2>3, <2>4 DEF Begins
  <1>4. ASSUME NEW s \in Server, NEW out, Notes(s, out)
        PROVE  /\ batches' = batches
               /\ server' \in [Server -> Job \cup {None}] /\ \A t \in Server : Right(server'[t])
    <2> DEFINE new == Append(server[s].outcomes, out)
               v == [server[s] EXCEPT !.outcomes = new]
    <2>1. /\ server[s] \in Job /\ server[s] # None /\ out \in Outcome
          /\ Len(server[s].outcomes) + 1 <= Len(Children[server[s].pay])
          /\ Kind[server[s].pay] = "independent"
      BY <1>4, BusyTyped DEF Notes, HasChild, Turn
    <2>2. \A x \in Job, q \in Seq(Outcome) :
            /\ [x EXCEPT !.outcomes = q] \in Job
            /\ [x EXCEPT !.outcomes = q].pay = x.pay
            /\ [x EXCEPT !.outcomes = q].outcomes = q
      BY DEF Job
    <2>3. /\ server[s].pay \in Payload
          /\ new \in Seq(Outcome)
          /\ Len(new) = Len(server[s].outcomes) + 1
      BY <2>1, AppendProperties DEF Job
    <2>4. v \in Job /\ Right(v)
      <3> HIDE DEF new
      <3>1. v \in Job /\ v.pay = server[s].pay /\ v.outcomes = new
        BY <2>1, <2>2, <2>3
      <3> HIDE DEF v
      <3> QED
        BY <2>1, <2>3, <3>1
    <2>5. server' = [server EXCEPT ![s] = v]
      BY <1>4 DEF Notes, Note
    <2> HIDE DEF Right, v
    <2> QED
      BY <1>2, <1>4, <2>4, <2>5 DEF Notes
  <1>5. ASSUME NEW s \in Server, Ends(s)
        PROVE  /\ batches' = batches
               /\ server' \in [Server -> Job \cup {None}] /\ \A t \in Server : Right(server'[t])
    <2>1. Right(None)
      OBVIOUS
    <2> HIDE DEF Right
    <2> QED
      BY <1>2, <1>5, <2>1 DEF Ends
  <1>6. /\ batches' \in [Id -> Payload \cup {None}]
        /\ server' \in [Server -> Job \cup {None}] /\ \A t \in Server : Right(server'[t])
    <2> HIDE DEF Right
    <2> QED
      BY <1>1, <1>3, <1>4, <1>5, ServersStep
  <1> QED
    BY <1>6

(* Every step keeps the whole state typed.                                 *)
LEMMA TypeStep ==
    ASSUME TypeOK, OutcomesTrue, [Next]_vars
    PROVE  TypeOK'
  <1>1. answers' \in [Id -> SUBSET Row]
    <2>1. ASSUME NEW r, Answered(r)
          PROVE  answers' \in [Id -> SUBSET Row]
      BY <2>1 DEF Answered, TypeOK
    <2> QED
      BY <2>1, AnswersStep DEF TypeOK
  <1> QED
    BY <1>1, StepsGrow, TablesTyped, ServersTyped, SurroundingsTyped DEF TypeOK

-----------------------------------------------------------------------------
(* The invariants.                                                         *)

(* The places of a batch's outcomes are places of its children.            *)
LEMMA OutcomePlaces ==
    ASSUME NEW p \in Payload, NEW outcomes \in Seq(Outcome),
           Len(outcomes) <= Len(Children[p])
    PROVE  DOMAIN outcomes \subseteq DOMAIN Children[p]
  <1>1. Children[p] \in Seq(Request)
    OBVIOUS
  <1> QED
    BY <1>1

(* The rows report as done only what is stored.                            *)
LEMMA RowsTrueStep ==
    ASSUME TypeOK, OutcomesTrue, Grows \/ Still, NEW i \in Id,
           results'[i] # None, Kind[results'[i].pay] # "single",
           NEW k \in DOMAIN results'[i].outcomes, results'[i].outcomes[k] = "ok"
    PROVE  \E q \in Payload : q = Children[results'[i].pay][k].pay /\ Stored(q)'
  <1> DEFINE r == results'[i]
             p == results'[i].pay
  <1>1. r \in Row /\ p \in Payload /\ r.outcomes \in Seq(Outcome)
    BY TablesTyped DEF Row
  <1>2. k \in DOMAIN Children[p]
    BY <1>1, OutcomePlaces, TablesTyped
  <1>3. CASE r = results[i]
    <2>1. Stored(Children[p][k].pay)
      BY <1>3 DEF OutcomesTrue
    <2>2. Children[p][k].pay \in Payload
      BY <1>1, <1>2, ChildTyped
    <2> QED
      BY <2>1, <2>2, StoredStays
  <1>4. CASE r # results[i]
    <2>1. Grows
      BY <1>4 DEF Still
    <2>2. PICK rows, tx : Addable(rows, tx) /\ Insert(rows, tx)
      BY <2>1 DEF Grows
    <2>3. r \in rows
      BY <1>4, <2>2, SavedRows
    <2> DEFINE q == Children[p][k].pay
    <2>4. Stored(q) \/ \E x \in rows : x.pay = q
      BY <2>2, <2>3 DEF Addable, DoneBy
    <2>5. q \in Payload
      BY <1>1, <1>2, ChildTyped
    <2> QED
      BY <2>2, <2>4, <2>5, StoredAfter
  <1> QED
    BY <1>3, <1>4

(* So do the processes.                                                    *)
LEMMA RunsTrueStep ==
    ASSUME TypeOK, OutcomesTrue, [Next]_vars, NEW t \in Server, server'[t] # None,
           NEW k \in DOMAIN server'[t].outcomes, server'[t].outcomes[k] = "ok"
    PROVE  \E q \in Payload : q = Children[server'[t].pay][k].pay /\ Stored(q)'
  <1> DEFINE Kept == \A p \in Payload : Stored(p) => Stored(p)'
             Told(v) == \A m \in DOMAIN v.outcomes : v.outcomes[m] = "ok" =>
                           \E q \in Payload : q = Children[v.pay][m].pay /\ Stored(q)'
  <1>1. Kept
    BY StepsGrow, StoredStays
  <1>2. ASSUME NEW s \in Server, server[s] # None
        PROVE  Told(server[s])
    <2> TAKE m \in DOMAIN server[s].outcomes
    <2> HAVE server[s].outcomes[m] = "ok"
    <2>1. Stored(Children[server[s].pay][m].pay)
      BY <1>2 DEF OutcomesTrue
    <2>2. m \in DOMAIN Children[server[s].pay]
      BY <1>2, BusyTyped, OutcomePlaces
    <2>3. Children[server[s].pay][m].pay \in Payload
      BY <1>2, <2>2, BusyTyped, ChildTyped
    <2> QED
      BY <1>1, <2>1, <2>3
  <1>4. ASSUME NEW s \in Server, NEW p, Begins(s, p)
        PROVE  Told(server'[t])
    <2>1. server'[t] = IF t = s THEN [pay |-> p, outcomes |-> <<>>] ELSE server[t]
      BY <1>4 DEF Begins, TypeOK
    <2> QED
      BY <1>2, <2>1
  <1>5. ASSUME NEW s \in Server, NEW out, Notes(s, out)
        PROVE  Told(server'[t])
    <2>1. CASE t # s
      <3>1. server'[t] = server[t]
        BY <1>5, <2>1 DEF Notes, Note, TypeOK
      <3> QED
        BY <1>2, <3>1
    <2>2. CASE t = s
      <3> DEFINE old == server[s].outcomes
      <3>1. /\ server[s] # None /\ server[s] \in Job /\ old \in Seq(Outcome)
            /\ out \in Outcome
        BY <1>5, BusyTyped DEF Notes, HasChild
      <3>2. /\ server'[t].pay = server[s].pay
            /\ server'[t].outcomes = Append(old, out)
        BY <1>5, <2>2, <3>1 DEF Notes, Note, TypeOK, Job
      <3>3. /\ Len(old) \in Nat
            /\ DOMAIN old = 1 .. Len(old)
            /\ DOMAIN Append(old, out) = 1 .. Len(old) + 1
            /\ \A m \in 1 .. Len(old) : Append(old, out)[m] = old[m]
            /\ Append(old, out)[Len(old) + 1] = out
        BY <3>1, AppendProperties, LenProperties
      <3>4. out = "ok" => \E q \in Payload : q = Children[server[s].pay][Len(old) + 1].pay /\ Stored(q)'
        BY <1>5 DEF Notes, Child, Turn
      <3>5. Told(server[s])
        BY <1>2, <3>1
      <3> HIDE DEF old
      <3>6. ASSUME NEW m \in DOMAIN Append(old, out), Append(old, out)[m] = "ok"
            PROVE  \E q \in Payload : q = Children[server[s].pay][m].pay /\ Stored(q)'
        <4>1. m \in 1 .. Len(old) \/ m = Len(old) + 1
          BY <3>3, <3>6
        <4>2. CASE m = Len(old) + 1
          BY <3>3, <3>4, <3>6, <4>2
        <4>3. CASE m \in 1 .. Len(old)
          BY <3>3, <3>5, <3>6, <4>3 DEF old
        <4> QED
          BY <4>1, <4>2, <4>3
      <3> QED
        BY <3>2, <3>6
    <2> QED
      BY <2>1, <2>2
  <1>6. ASSUME NEW s \in Server, Ends(s)
        PROVE  Told(server'[t])
    <2>1. t # s /\ server'[t] = server[t]
      BY <1>6 DEF Ends, TypeOK
    <2> QED
      BY <1>2, <2>1
  <1> HIDE DEF Kept
  <1>7. Told(server'[t])
    <2> HIDE DEF Told
    <2>1. CASE UNCHANGED server
      <3>1. server[t] # None /\ server'[t] = server[t]
        BY <2>1
      <3> QED
        BY <1>2, <3>1
    <2> QED
      BY <1>4, <1>5, <1>6, <2>1, ServersStep
  <1> QED
    BY <1>7

(* So reports stay true.                                                   *)
LEMMA OutcomesStep ==
    ASSUME TypeOK, OutcomesTrue, [Next]_vars
    PROVE  OutcomesTrue'
  <1>1. Grows \/ Still
    BY StepsGrow
  <1>2. ASSUME NEW i \in Id, results'[i] # None, Kind[results'[i].pay] # "single",
               NEW k \in DOMAIN results'[i].outcomes, results'[i].outcomes[k] = "ok"
        PROVE  LET q == Children[results'[i].pay][k].pay
               IN results'[IdOf[q]] # None /\ results'[IdOf[q]].pay = q
    <2>1. PICK q \in Payload : q = Children[results'[i].pay][k].pay /\ Stored(q)'
      BY <1>1, <1>2, RowsTrueStep
    <2> QED
      BY <2>1 DEF Stored
  <1>3. ASSUME NEW t \in Server, server'[t] # None,
               NEW k \in DOMAIN server'[t].outcomes, server'[t].outcomes[k] = "ok"
        PROVE  LET q == Children[server'[t].pay][k].pay
               IN results'[IdOf[q]] # None /\ results'[IdOf[q]].pay = q
    <2>1. PICK q \in Payload : q = Children[server'[t].pay][k].pay /\ Stored(q)'
      BY <1>3, RunsTrueStep
    <2> QED
      BY <2>1 DEF Stored
  <1> QED
    BY <1>2, <1>3 DEF OutcomesTrue, Stored

(* A content takes effect when it is stored, and only then.                *)
LEMMA AppliedStep ==
    ASSUME TypeOK, Grows \/ Still, StoredMeansApplied
    PROVE  StoredMeansApplied'
  <1>1. CASE Still
    BY <1>1 DEF Still, StoredMeansApplied, Stored
  <1>2. CASE Grows
    <2>1. PICK rows, tx : Addable(rows, tx) /\ Insert(rows, tx)
      BY <1>2 DEF Grows
    <2>2. \A p \in Payload :
            /\ (\E r \in rows : r.pay = p) => applied'[p] = Append(applied[p], tx)
            /\ ~ (\E r \in rows : r.pay = p) => applied'[p] = applied[p]
      BY <2>1, InsertTyped
    <2>3. ASSUME NEW p \in Payload
          PROVE  Len(applied'[p]) = IF Stored(p)' THEN 1 ELSE 0
      <3>1. applied[p] \in Seq(Payload) /\ tx \in Payload
        BY <2>1 DEF TypeOK, Addable
      <3>2. CASE \E r \in rows : r.pay = p
        <4>1. ~ Stored(p)
          BY <2>1, <3>2 DEF Addable, Free, Stored
        <4>2. Len(applied[p]) = 0
          BY <4>1 DEF StoredMeansApplied
        <4>3. applied'[p] = Append(applied[p], tx)
          BY <2>2, <3>2
        <4>4. Len(applied'[p]) = 1
          BY <3>1, <4>2, <4>3, AppendProperties
        <4> QED
          BY <2>1, <3>2, <4>4, StoredAfter
      <3>3. CASE ~ \E r \in rows : r.pay = p
        <4>1. applied'[p] = applied[p]
          BY <2>2, <3>3
        <4> QED
          BY <2>1, <3>3, <4>1, StoredAfter DEF StoredMeansApplied
      <3> QED
        BY <3>2, <3>3
    <2> QED
      BY <2>3 DEF StoredMeansApplied
  <1> QED
    BY <1>1, <1>2

(* An answer is the row of its key, and rows stay.                         *)
LEMMA AnswersAgreeStep ==
    ASSUME TypeOK, OutcomesTrue, [Next]_vars, AnswersAgree
    PROVE  AnswersAgree'
  <1>1. \A i \in Id : results[i] # None => results'[i] = results[i]
    BY StepsGrow, TablesTyped
  <1>2. CASE answers' = answers
    BY <1>1, <1>2 DEF AnswersAgree
  <1>3. ASSUME NEW r, Answered(r)
        PROVE  AnswersAgree'
    <2>1. \A i \in Id : answers'[i] = IF i = IdOf[r.pay] THEN answers[i] \cup {r} ELSE answers[i]
      BY <1>3 DEF Answered, TypeOK
    <2>2. results'[IdOf[r.pay]] = r /\ r # None
      BY <1>3 DEF Answered
    <2> QED
      BY <1>1, <2>1, <2>2 DEF AnswersAgree
  <1> QED
    BY <1>2, <1>3, AnswersStep

(* What an atomic batch did, it did as a whole.                            *)
LEMMA AllOrNothingStep ==
    ASSUME TypeOK, Grows \/ Still, AllOrNothing
    PROVE  AllOrNothing'
  <1> SUFFICES ASSUME NEW p \in Payload, NEW a \in Payload, Kind[a] = "atomic",
                      NEW n \in DOMAIN applied'[p], applied'[p][n] = a
               PROVE  /\ Stored(a)'
                      /\ \A k \in DOMAIN Children[a] : Stored(Children[a][k].pay)'
    BY DEF AllOrNothing
  <1>1. \A k \in DOMAIN Children[a] : Children[a][k].pay \in Payload
    BY ChildTyped
  <1>2. CASE n \in DOMAIN applied[p] /\ applied[p][n] = a
    <2>1. Stored(a) /\ \A k \in DOMAIN Children[a] : Stored(Children[a][k].pay)
      BY <1>2 DEF AllOrNothing
    <2>2. \A q \in Payload : Stored(q) => Stored(q)'
      BY StoredStays
    <2> QED
      BY <1>1, <2>1, <2>2 DEF Stored
  <1>3. CASE ~ (n \in DOMAIN applied[p] /\ applied[p][n] = a)
    <2>1. Grows
      BY <1>3 DEF Still
    <2>2. PICK rows, tx : Addable(rows, tx) /\ Insert(rows, tx)
      BY <2>1 DEF Grows
    <2>3. applied[p] \in Seq(Payload) /\ tx \in Payload
      BY <2>2 DEF TypeOK, Addable
    <2>4. applied'[p] = Append(applied[p], tx)
      <3>1. /\ (\E r \in rows : r.pay = p) => applied'[p] = Append(applied[p], tx)
            /\ ~ (\E r \in rows : r.pay = p) => applied'[p] = applied[p]
        BY <2>2, InsertTyped
      <3>2. \E r \in rows : r.pay = p
        BY <1>3, <3>1
      <3> QED
        BY <3>1, <3>2
    <2>5. tx = a
      <3>1. n \in 1 .. Len(applied[p]) + 1
        BY <2>3, <2>4
      <3>2. CASE n = Len(applied[p]) + 1
        BY <2>3, <2>4, <3>2, AppendProperties
      <3>3. CASE n \in 1 .. Len(applied[p])
        BY <1>3, <2>3, <2>4, <3>3, AppendProperties
      <3> QED
        <4>1. Len(applied[p]) \in Nat
          BY <2>3, LenProperties
        <4> QED
          BY <3>1, <3>2, <3>3, <4>1
    <2>6. \A q \in Payload : (Stored(q) \/ \E r \in rows : r.pay = q) => Stored(q)'
      BY <2>2, StoredAfter
    <2>7. /\ \E r \in rows : r.pay = a
          /\ \A k \in DOMAIN Children[a] :
               Stored(Children[a][k].pay) \/ \E r \in rows : r.pay = Children[a][k].pay
      BY <2>2, <2>5 DEF Addable
    <2> QED
      BY <1>1, <2>6, <2>7 DEF Stored
  <1> QED
    BY <1>2, <1>3

(* A batch runs under the key that is reserved for it.                     *)
LEMMA ReservedStep ==
    ASSUME TypeOK, OutcomesTrue, [Next]_vars, RunsReserved
    PROVE  RunsReserved'
  <1>1. ASSUME NEW s \in Server, NEW p, Begins(s, p)
        PROVE  RunsReserved'
    <2> SUFFICES ASSUME NEW t \in Server, server'[t] # None
                 PROVE  batches'[IdOf[server'[t].pay]] = server'[t].pay
      BY DEF RunsReserved
    <2>1. p \in Payload /\ IdOf[p] \in Id
      BY <1>1 DEF Begins
    <2>2. \A i \in Id : batches'[i] = IF i = IdOf[p] THEN p ELSE batches[i]
      BY <1>1, <2>1 DEF Begins, TypeOK
    <2>3. CASE t = s
      BY <1>1, <2>1, <2>2, <2>3 DEF Begins, TypeOK
    <2>4. CASE t # s
      <3>1. server'[t] = server[t]
        BY <1>1, <2>4 DEF Begins, TypeOK
      <3>2. server[t].pay \in Payload /\ IdOf[server[t].pay] \in Id
        BY <3>1, BusyTyped
      <3>3. batches[IdOf[server[t].pay]] = server[t].pay
        BY <3>1 DEF RunsReserved
      <3>4. batches[IdOf[p]] \in {None, p}
        BY <1>1 DEF Begins
      <3> QED
        BY <2>2, <3>1, <3>2, <3>3, <3>4
    <2> QED
      BY <2>3, <2>4
  <1>2. ASSUME NEW s \in Server, NEW out, Notes(s, out)
        PROVE  RunsReserved'
    <2>1. server[s] # None /\ server[s] \in Job
      BY <1>2, BusyTyped DEF Notes, HasChild
    <2>2. \A t \in Server : server'[t] # None => server[t] # None /\ server'[t].pay = server[t].pay
      BY <1>2, <2>1 DEF Notes, Note, TypeOK, Job
    <2> QED
      BY <1>2, <2>2 DEF Notes, RunsReserved
  <1>3. ASSUME NEW s \in Server, Ends(s)
        PROVE  RunsReserved'
    BY <1>3 DEF Ends, RunsReserved, TypeOK
  <1>4. CASE UNCHANGED <<server, batches>>
    BY <1>4 DEF RunsReserved
  <1> QED
    BY <1>1, <1>2, <1>3, <1>4, ServersStep
-----------------------------------------------------------------------------
(* What the executor promises.                                             *)

(* The inductive invariant: a finished batch stores the outcomes its       *)
(* process collected, so the new row is true only if they are.             *)
IInv == TypeOK /\ OutcomesTrue

LEMMA Invariance == Spec => []IInv
  <1>1. Init => IInv
    BY TypeInit DEF Init, IInv, OutcomesTrue
  <1>2. IInv /\ [Next]_vars => IInv'
    BY TypeStep, OutcomesStep DEF IInv
  <1> QED
    BY <1>1, <1>2, PTL DEF Spec

(* The tables of executor.py keep their types, every row sits under its    *)
(* own key, and a run of a batch never outruns its children.               *)
THEOREM ExecutorTyped == Spec => []TypeOK
  BY Invariance, PTL DEF IInv

(* A child that batch.atomic or _independent reports as done is stored     *)
(* under its own identifier, whatever crashed or was revoked meanwhile.    *)
THEOREM OutcomesAreTrue == Spec => []OutcomesTrue
  BY Invariance, PTL DEF IInv

(* A content takes effect exactly once, in the transaction that stores its *)
(* result (save_result), in whatever batch it comes.                       *)
THEOREM AppliedWhenStored == Spec => []StoredMeansApplied
  <1>1. Init => StoredMeansApplied
    BY DEF Init, StoredMeansApplied, Stored
  <1>2. IInv /\ [Next]_vars /\ StoredMeansApplied => StoredMeansApplied'
    BY StepsGrow, AppliedStep DEF IInv
  <1> QED
    BY <1>1, <1>2, Invariance, PTL DEF Spec

(* Clients hear one answer for each identifier, that of its row: request_result. *)
THEOREM OneAnswer == Spec => []AnswersAgree
  <1>1. Init => AnswersAgree
    BY DEF Init, AnswersAgree
  <1>2. IInv /\ [Next]_vars /\ AnswersAgree => AnswersAgree'
    BY AnswersAgreeStep DEF IInv
  <1> QED
    BY <1>1, <1>2, Invariance, PTL DEF Spec

(* What batch.atomic applied, it applied together with all its children.   *)
THEOREM AtomicBatches == Spec => []AllOrNothing
  <1>1. Init => AllOrNothing
    BY DEF Init, AllOrNothing
  <1>2. IInv /\ [Next]_vars /\ AllOrNothing => AllOrNothing'
    BY StepsGrow, AllOrNothingStep DEF IInv
  <1> QED
    BY <1>1, <1>2, Invariance, PTL DEF Spec

(* Processes in the middle of _independent hold their keys in batches.     *)
THEOREM KeysReserved == Spec => []RunsReserved
  <1>1. Init => RunsReserved
    BY DEF Init, RunsReserved
  <1>2. IInv /\ [Next]_vars /\ RunsReserved => RunsReserved'
    BY ReservedStep DEF IInv
  <1> QED
    BY <1>1, <1>2, Invariance, PTL DEF Spec

(* A stored result is told again only after a check of what it names.      *)
LEMMA ToldWithAccess ==
    ASSUME TypeOK, [Next]_vars, NEW i \in Id, results[i] # None, answers'[i] # answers[i]
    PROVE  Resources(results[i]) \subseteq open
  <1>1. ASSUME NEW p \in Payload, NEW r, r.pay = p, Tell(r), Free(p)
        PROVE  FALSE
    BY <1>1 DEF Tell, TypeOK, Free
  <1>2. ASSUME NEW p \in Payload, NEW r, r.pay = p, Tell(r), Readable(p)
        PROVE  Resources(results[i]) \subseteq open
    <2>1. i = IdOf[p]
      BY <1>2 DEF Tell, TypeOK
    <2> QED
      BY <1>2, <2>1 DEF Readable
  <1>3. ASSUME NEW c \in Request, ExecuteSingle(c)
        PROVE  FALSE
    <2>1. c.pay \in Payload /\ SingleRow(c).pay = c.pay
      BY SingleRowTyped DEF Request
    <2> QED
      BY <1>1, <1>3, <2>1 DEF ExecuteSingle
  <1>4. ASSUME NEW p \in Payload, ExecuteAtomic(p)
        PROVE  FALSE
    <2>1. BatchRow(p, AllOk(p)).pay = p
      BY DEF BatchRow
    <2> QED
      BY <1>1, <1>4, <2>1 DEF ExecuteAtomic
  <1>5. ASSUME NEW c \in Request, Replay(c)
        PROVE  Resources(results[i]) \subseteq open
    <2>1. c.pay \in Payload /\ Readable(c.pay)
      BY <1>5 DEF Replay, Request
    <2>2. i = IdOf[c.pay]
      BY <1>5, <2>1 DEF Replay, TypeOK
    <2> QED
      BY <2>1, <2>2 DEF Readable
  <1>6. ASSUME NEW s \in Server, Finish(s)
        PROVE  Resources(results[i]) \subseteq open
    <2> DEFINE p == server[s].pay
    <2>1. p \in Payload
      BY <1>6, BusyTyped DEF Finish, Complete
    <2>2. CASE Free(p)
      <3>1. OwnRow(s).pay = p /\ Tell(OwnRow(s))
        BY <1>6, <2>2 DEF Finish, Verdict, OwnRow, BatchRow
      <3> QED
        BY <1>1, <2>1, <2>2, <3>1
    <2>3. CASE ~ Free(p)
      <3>1. Readable(p)
        BY <1>6, <2>3 DEF Finish
      <3>2. Verdict(s).pay = p /\ Tell(Verdict(s))
        BY <1>6, <2>3, <3>1 DEF Finish, Verdict, Readable, Stored
      <3> QED
        BY <1>2, <2>1, <3>1, <3>2
    <2> QED
      BY <2>2, <2>3
  <1>7. ASSUME NEW s \in Server, NEW p \in Payload, Reserve(s, p)
        PROVE  answers' = answers
    BY <1>7 DEF Reserve
  <1>8. ASSUME NEW s \in Server,
               CommitChild(s) \/ ReplayChild(s) \/ RefuseChild(s) \/ Abandon(s)
        PROVE  answers' = answers
    BY <1>8 DEF CommitChild, ReplayChild, RefuseChild, Abandon
  <1>9. ASSUME NEW p, ChangeAccess(p) \/ Age(p) \/ Revoke(p)
        PROVE  answers' = answers
    BY <1>9 DEF ChangeAccess, Age, Revoke
  <1>10. CASE UNCHANGED vars
    BY <1>10 DEF vars
  <1> QED
    BY <1>3, <1>4, <1>5, <1>6, <1>7, <1>8, <1>9, <1>10 DEF Next

(* No step tells a client again what the subject may no longer read, the   *)
(* check execute makes before it replays a result.                         *)
THEOREM RepliesNeedAccess == Spec => ReplayNeedsAccess
  <1>1. IInv /\ [Next]_vars =>
          [\A i \in Id : results[i] # None /\ answers'[i] # answers[i] =>
             Resources(results[i]) \subseteq open]_vars
    BY ToldWithAccess DEF IInv
  <1> QED
    BY <1>1, Invariance, PTL DEF Spec, ReplayNeedsAccess

(* Adding rows binds their keys, and counts one effect for each of them.   *)
LEMMA GrowsPerforms ==
    ASSUME TypeOK, Grows
    PROVE  Promise!Next
  <1>1. PICK rows, tx : Addable(rows, tx) /\ Insert(rows, tx)
    BY DEF Grows
  <1> DEFINE C == {r.pay : r \in rows}
  <1>2. \A r \in rows : r.pay \in Payload /\ IdOf[r.pay] \in Id /\ r # None
    BY <1>1 DEF Addable, Row
  <1>3. C \in SUBSET Payload
    BY <1>2
  <1>4. \A c \in C : IdOf[c] \in Id /\ BoundTo[IdOf[c]] = None
    <2>1. \A r \in rows : BoundTo[IdOf[r.pay]] = None
      BY <1>1, <1>2 DEF BoundTo, Addable, Free
    <2> QED
      BY <1>2, <2>1
  <1>5. \A c, d \in C : IdOf[c] = IdOf[d] => c = d
    BY <1>1 DEF Addable
  <1>6. ASSUME NEW i \in Id
        PROVE  (IF results'[i] = None THEN None ELSE results'[i].pay)
                 = (IF \E c \in C : IdOf[c] = i THEN CHOOSE c \in C : IdOf[c] = i
                    ELSE BoundTo[i])
    <2>1. CASE \E c \in C : IdOf[c] = i
      <3>1. PICK r \in rows : IdOf[r.pay] = i
        BY <2>1
      <3>2. results'[i] = r /\ r # None
        BY <1>1, <1>2, <3>1, SavedRows
      <3>3. r.pay \in C
        BY <3>1
      <3>4. (CHOOSE c \in C : IdOf[c] = i) = r.pay
        BY <1>5, <3>1, <3>3
      <3> QED
        BY <2>1, <3>2, <3>4
    <2>2. CASE ~ \E c \in C : IdOf[c] = i
      <3>1. results'[i] = results[i]
        <4>1. \A r \in rows : IdOf[r.pay] # i
          BY <2>2
        <4>2. \A r \in rows : results'[i] # r
          BY <1>1, <1>2, <4>1, SavedRows
        <4> QED
          BY <1>1, <4>2, SavedRows
      <3> QED
        BY <2>2, <3>1 DEF BoundTo
    <2> QED
      BY <2>1, <2>2
  <1>7. BoundTo' = [i \in Id |-> IF \E c \in C : IdOf[c] = i THEN CHOOSE c \in C : IdOf[c] = i
                                                            ELSE BoundTo[i]]
    BY <1>6 DEF BoundTo
  <1>8. ASSUME NEW p \in Payload
        PROVE  Len(applied'[p]) = (IF p \in C THEN Effects[p] + 1 ELSE Effects[p])
    <2>1. applied[p] \in Seq(Payload) /\ tx \in Payload
      BY <1>1 DEF TypeOK, Addable
    <2>2. p \in C <=> \E r \in rows : r.pay = p
      OBVIOUS
    <2> HIDE DEF C
    <2>3. /\ p \in C => applied'[p] = Append(applied[p], tx)
          /\ p \notin C => applied'[p] = applied[p]
      BY <1>1, <2>2, InsertTyped
    <2>4. Len(Append(applied[p], tx)) = Len(applied[p]) + 1
      BY <2>1, AppendProperties
    <2> QED
      BY <2>3, <2>4 DEF Effects
  <1>9. Effects' = [p \in Payload |-> IF p \in C THEN Effects[p] + 1 ELSE Effects[p]]
    BY <1>8 DEF Effects
  <1> HIDE DEF C
  <1>10. Promise!Perform(C)
    BY <1>4, <1>5, <1>7, <1>9 DEF Promise!Perform
  <1> QED
    BY <1>3, <1>10 DEF Promise!Next

(* Every identifier is bound to one content for ever, and the content      *)
(* takes effect at that moment only: the executor implements OncePerKey.   *)
THEOREM PromiseImplemented == Spec => KeysBoundOnce
  <1>1. Init => Promise!Init
    BY DEF Init, Promise!Init, BoundTo, Effects
  <1>2. IInv /\ [Next]_vars => Promise!Next \/ UNCHANGED <<BoundTo, Effects>>
    <2>1. CASE Still
      BY <2>1 DEF Still, BoundTo, Effects
    <2> QED
      BY <2>1, StepsGrow, GrowsPerforms DEF IInv
  <1> QED
    BY <1>1, <1>2, Invariance, PTL DEF Spec, KeysBoundOnce, Promise!Spec

-----------------------------------------------------------------------------
(* Counting the uses of the limited delegation.                            *)

(* The keys of the results it paid for, and what a transaction adds.       *)
Paid == {i \in Rows : results[i].by = "delegate"}
Charged(rows) == {r \in rows : r.by = "delegate"}

(* A one-to-one image is as large as what it is the image of.              *)
LEMMA ImageSize ==
    ASSUME NEW S, IsFiniteSet(S), NEW T, NEW f \in [S -> T],
           \A t \in T : \E s \in S : f[s] = t,
           \A r, s \in S : f[r] = f[s] => r = s
    PROVE  IsFiniteSet(T) /\ Cardinality(T) = Cardinality(S)
  <1>1. f \in Surjection(S, T) /\ f \in Injection(S, T)
    BY DEF Surjection, Injection, IsInjective
  <1> QED
    BY <1>1, FS_Surjection

(* New rows sit under keys of their own, so a use is counted for each.     *)
LEMMA PaidAfter ==
    ASSUME TypeOK, NEW rows, NEW tx, Addable(rows, tx), Insert(rows, tx),
           uses = Cardinality(Paid)
    PROVE  uses' = Cardinality(Paid')
  <1> DEFINE new == {IdOf[r.pay] : r \in Charged(rows)}
             f == [r \in Charged(rows) |-> IdOf[r.pay]]
  <1>1. IsFiniteSet(Charged(rows)) /\ Charged(rows) \subseteq rows
    BY FS_Subset DEF Addable, Charged
  <1>2. IsFiniteSet(new) /\ Cardinality(new) = Cardinality(Charged(rows))
    <2>1. f \in [Charged(rows) -> new]
      OBVIOUS
    <2>2. \A r, s \in Charged(rows) : f[r] = f[s] => r = s
      BY <1>1 DEF Addable
    <2>3. \A t \in new : \E r \in Charged(rows) : f[r] = t
      OBVIOUS
    <2> HIDE DEF f, new
    <2> QED
      BY <1>1, <2>1, <2>2, <2>3, ImageSize
  <1>3. IsFiniteSet(Paid) /\ Paid \subseteq Id
    BY FS_Subset DEF Paid, Rows
  <1>4. Paid' = Paid \cup new
    <2>1. ASSUME NEW i \in Paid' PROVE i \in Paid \/ i \in new
      <3>1. i \in Id /\ results'[i] # None /\ results'[i].by = "delegate"
        BY <2>1 DEF Paid, Rows
      <3>2. CASE results'[i] = results[i]
        BY <3>1, <3>2 DEF Paid, Rows
      <3>3. CASE results'[i] # results[i]
        <4>1. results'[i] \in Charged(rows) /\ IdOf[results'[i].pay] = i
          BY <3>1, <3>3, SavedRows DEF Charged
        <4> QED
          BY <4>1
      <3> QED
        BY <3>2, <3>3
    <2>2. ASSUME NEW i \in Paid PROVE i \in Paid'
      BY <2>2, SavedRows DEF Paid, Rows
    <2>3. ASSUME NEW r \in Charged(rows) PROVE IdOf[r.pay] \in Paid'
      <3>1. /\ r \in rows /\ r.by = "delegate" /\ IdOf[r.pay] \in Id /\ r # None
            /\ results'[IdOf[r.pay]] = r
        <4>1. r \in rows /\ r.by = "delegate" /\ r \in Row
          BY <2>3 DEF Charged, Addable
        <4>2. r.pay \in Payload
          BY <4>1 DEF Row
        <4> QED
          BY <4>1, <4>2, SavedRows
      <3> QED
        BY <3>1 DEF Paid, Rows
    <2> QED
      BY <2>1, <2>2, <2>3
  <1>5. Paid \cap new = {}
    BY <1>1 DEF Paid, Rows, Addable, Free
  <1>6. Cardinality(Paid \cup new) = Cardinality(Paid) + Cardinality(new) - 0
    BY <1>2, <1>3, <1>5, FS_Union, FS_EmptySet
  <1>7. Cardinality(Paid) \in Nat /\ Cardinality(new) \in Nat
    BY <1>2, <1>3, FS_CardinalityType
  <1>8. uses' = uses + Cardinality(Charged(rows))
    BY DEF Insert, Cost, Charged
  <1> HIDE DEF new, f
  <1> QED
    BY <1>2, <1>4, <1>6, <1>7, <1>8

(* A single request that is executed is paid for out of what is left.      *)
LEMMA SinglePaid ==
    ASSUME TypeOK, uses <= MaxUses, NEW c \in Request, Admitted(c, uses), Free(c.pay),
           Insert({SingleRow(c)}, c.pay)
    PROVE  uses' <= MaxUses
  <1>1. SingleRow(c).by = c.by
    BY DEF SingleRow
  <1>2. uses' = uses + Cardinality(Charged({SingleRow(c)})) /\ uses \in Nat
    BY DEF Insert, Cost, Charged, TypeOK
  <1>3. CASE c.by = "delegate"
    <2>1. ~Stored(c.pay)
      BY DEF Free, Stored
    <2>2. uses < MaxUses
      BY <1>3, <2>1 DEF Admitted, Authentic
    <2>3. Charged({SingleRow(c)}) = {SingleRow(c)}
      BY <1>1, <1>3 DEF Charged
    <2>4. Cardinality(Charged({SingleRow(c)})) = 1
      BY <2>3, FS_Singleton
    <2> QED
      BY <1>2, <2>2, <2>4
  <1>4. CASE c.by # "delegate"
    <2>1. Charged({SingleRow(c)}) = {}
      BY <1>1, <1>4 DEF Charged
    <2>2. Cardinality(Charged({SingleRow(c)})) = 0
      BY <2>1, FS_EmptySet
    <2> QED
      BY <1>2, <2>2
  <1> QED
    BY <1>3, <1>4

(* So are the children of an atomic batch together: the last of them to    *)
(* use the delegation found room for itself after all the others.          *)
LEMMA AtomicPaid ==
    ASSUME TypeOK, uses <= MaxUses, NEW p \in Payload, ExecuteAtomic(p)
    PROVE  uses' <= MaxUses
  <1> DEFINE row(k) == SingleRow(Children[p][k])
             own == BatchRow(p, AllOk(p))
             rows == {row(k) : k \in Fresh(p)} \cup {own}
             F == {k \in Fresh(p) : Children[p][k].by = "delegate"}
             f == [k \in F |-> row(k)]
  <1>1. Addable(rows, p) /\ Packets(p) /\ Admissible(p)
    BY AtomicAddable DEF ExecuteAtomic
  <1>2. uses' = uses + Cardinality(Charged(rows)) /\ uses \in Nat
    BY DEF ExecuteAtomic, Insert, Cost, Charged, TypeOK
  <1>3. /\ Children[p] \in Seq(Request) /\ Fresh(p) \subseteq DOMAIN Children[p]
        /\ Len(Children[p]) \in Nat /\ DOMAIN Children[p] = 1 .. Len(Children[p])
    <2>1. Children[p] \in Seq(Request)
      OBVIOUS
    <2> QED
      BY <2>1 DEF Fresh
  <1>4. \A k \in DOMAIN Children[p] : row(k).by = Children[p][k].by /\ row(k).pay = Children[p][k].pay
    BY DEF SingleRow
  <1>5. own.by = "owner"
    BY DEF BatchRow
  <1>6. F \subseteq Nat /\ IsFiniteSet(F) /\ \A k \in F : k <= Len(Children[p])
    <2>1. F \subseteq 1 .. Len(Children[p])
      BY <1>3
    <2>2. \A k \in 1 .. Len(Children[p]) : k \in Nat /\ k <= Len(Children[p])
      BY <1>3
    <2>3. IsFiniteSet(1 .. Len(Children[p]))
      BY <1>3, FS_Interval
    <2> HIDE DEF F
    <2> QED
      BY <2>1, <2>2, <2>3, FS_Subset
  <1>7. Cardinality(Charged(rows)) = Cardinality(F)
    <2>1. Charged(rows) = {row(k) : k \in F}
      BY <1>3, <1>4, <1>5 DEF Charged
    <2>2. f \in [F -> Charged(rows)] /\ \A r \in Charged(rows) : \E k \in F : f[k] = r
      BY <2>1
    <2>3. \A k, m \in F : f[k] = f[m] => k = m
      <3> SUFFICES ASSUME NEW k \in F, NEW m \in F, row(k) = row(m) PROVE k = m
        OBVIOUS
      <3>1. k \in DOMAIN Children[p] /\ m \in DOMAIN Children[p]
        BY <1>3
      <3>2. Children[p][k].pay = Children[p][m].pay
        BY <1>4, <3>1
      <3> QED
        BY <1>1, <3>1, <3>2 DEF Packets
    <2> HIDE DEF f, F, rows, row, own
    <2> QED
      BY <1>6, <2>2, <2>3, ImageSize
  <1> HIDE DEF row, own, rows, f
  <1>8. CASE F = {}
    <2>1. Cardinality(F) = 0
      BY <1>8, FS_EmptySet
    <2> HIDE DEF F
    <2> QED
      BY <1>2, <1>7, <2>1
  <1>9. CASE F # {}
    <2>1. PICK k \in F : \A m \in F : m <= k
      BY <1>3, <1>6, <1>9, GreatestExists
    <2>2. k \in DOMAIN Children[p] /\ Children[p][k].by = "delegate" /\ Free(Children[p][k].pay)
      BY <1>3, <2>1 DEF Fresh
    <2>3. Admitted(Children[p][k], SpentBefore(p, k)) /\ ~Stored(Children[p][k].pay)
      BY <1>1, <2>2 DEF Admissible, Free, Stored
    <2>4. SpentBefore(p, k) < MaxUses
      BY <2>2, <2>3 DEF Admitted, Authentic
    <2>5. {j \in Fresh(p) : j < k /\ Children[p][j].by = "delegate"} = F \ {k}
      BY <1>3, <1>6, <2>1
    <2>6. Cardinality(F \ {k}) = Cardinality(F) - 1
      BY <1>6, <2>1, FS_RemoveElement
    <2>7. SpentBefore(p, k) = uses + Cardinality(F \ {k})
      BY <2>5 DEF SpentBefore
    <2>8. Cardinality(F) \in Nat
      BY <1>6, FS_CardinalityType
    <2> HIDE DEF F
    <2> QED
      BY <1>2, <1>7, <2>4, <2>6, <2>7, <2>8
  <1> QED
    BY <1>8, <1>9

(* execute adds one to the `uses` of a limited delegation with each result *)
(* it stores for it.  The count is the number of those results and within  *)
(* the limit, however requests are nested, repeated or interrupted.        *)
THEOREM UsesAlwaysCounted == Spec => []UsesCounted
  <1>1. Init => UsesCounted
    <2> SUFFICES ASSUME Init PROVE UsesCounted
      OBVIOUS
    <2>1. Paid = {}
      BY DEF Init, Paid, Rows
    <2>2. uses = 0 /\ Cardinality(Paid) = 0
      BY <2>1, FS_EmptySet DEF Init
    <2> QED
      BY <2>2 DEF UsesCounted, Paid
  <1>2. IInv /\ [Next]_vars /\ UsesCounted => UsesCounted'
    <2> SUFFICES ASSUME TypeOK, OutcomesTrue, [Next]_vars, UsesCounted
                 PROVE  uses' = Cardinality(Paid') /\ uses' <= MaxUses
      BY DEF IInv, UsesCounted, Paid
    <2>1. uses = Cardinality(Paid) /\ uses <= MaxUses
      BY DEF UsesCounted, Paid
    <2>2. Still => uses' = Cardinality(Paid') /\ uses' <= MaxUses
      BY <2>1 DEF Still, Paid, Rows
    <2>3. uses' = Cardinality(Paid')
      BY <2>1, <2>2, StepsGrow, PaidAfter DEF Grows
    <2>4. uses' <= MaxUses
      <3>1. ASSUME NEW c \in Request, ExecuteSingle(c) PROVE uses' <= MaxUses
        BY <2>1, <3>1, SinglePaid DEF ExecuteSingle
      <3>2. ASSUME NEW p \in Payload, ExecuteAtomic(p) PROVE uses' <= MaxUses
        BY <2>1, <3>2, AtomicPaid
      <3>3. ASSUME NEW s \in Server, CommitChild(s) PROVE uses' <= MaxUses
        <4>1. Child(s) \in Request
          BY <3>3, NextChildTyped DEF CommitChild
        <4> QED
          BY <2>1, <3>3, <4>1, SinglePaid DEF CommitChild
      <3>4. ASSUME NEW s \in Server, Finish(s) PROVE uses' <= MaxUses
        <4>1. CASE Insert({OwnRow(s)}, server[s].pay)
          <5>1. Charged({OwnRow(s)}) = {}
            BY DEF Charged, OwnRow, BatchRow
          <5>2. uses' = uses + 0 /\ uses \in Nat
            BY <4>1, <5>1, FS_EmptySet DEF Insert, Cost, Charged, TypeOK
          <5> QED
            BY <2>1, <5>2
        <4> QED
          BY <2>1, <3>4, <4>1 DEF Finish
      <3>5. ASSUME NEW s \in Server, NEW p \in Payload,
                   Reserve(s, p) \/ ReplayChild(s) \/ RefuseChild(s) \/ Abandon(s)
            PROVE  Still
        BY <3>5 DEF Reserve, ReplayChild, RefuseChild, Abandon, Still
      <3>6. ASSUME NEW c \in Request, Replay(c) PROVE Still
        BY <3>6 DEF Replay, Still
      <3>7. ASSUME NEW p, ChangeAccess(p) \/ Age(p) \/ Revoke(p) PROVE Still
        BY <3>7 DEF ChangeAccess, Age, Revoke, Still
      <3>8. ASSUME NEW s \in Server, ReplayChild(s) \/ RefuseChild(s) \/ Abandon(s) PROVE Still
        BY <3>8 DEF ReplayChild, RefuseChild, Abandon, Still
      <3>9. CASE UNCHANGED vars
        BY <2>2, <3>9 DEF vars, Still
      <3> QED
        BY <2>2, <3>1, <3>2, <3>3, <3>4, <3>5, <3>6, <3>7, <3>8, <3>9 DEF Next
    <2> QED
      BY <2>3, <2>4
  <1> QED
    BY <1>1, <1>2, Invariance, PTL DEF Spec

-----------------------------------------------------------------------------
(* Between any two transactions of any number of processes, what the       *)
(* executor stored, did and answered agree.                                *)
THEOREM ExecutorAlwaysSound == Spec => []ExecutorSound
  <1>1. TypeOK /\ StoredMeansApplied /\ AnswersAgree /\ AllOrNothing /\ OutcomesTrue
          /\ RunsReserved => ExecutorSound
    BY DEF ExecutorSound
  <1> QED
    BY <1>1, ExecutorTyped, AppliedWhenStored, OneAnswer, AtomicBatches, OutcomesAreTrue,
       KeysReserved, PTL
=============================================================================
