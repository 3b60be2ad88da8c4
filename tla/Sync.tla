-------------------------------- MODULE Sync --------------------------------
(* A client keeps a copy of what it follows (plugins/communication.py): pages *)
(* of the event log with a cursor that holds its position, or with a stored   *)
(* checkpoint that moves only when a page is acknowledged.  A page tells of   *)
(* events about things the client may read and follows, and of things it has  *)
(* been told of and may read no longer.  An action is one transaction, or the *)
(* arrival of an answer; an answer may arrive late or not at all.  The client *)
(* presents the same certificates each time, and takes a page of a checkpoint *)
(* into its copy when it hears that the page is acknowledged.                 *)
EXTENDS Integers, FiniteSets, Sequences, FiniteSetsExt

CONSTANTS
    Things,        \* resources
    Own,           \* those whose events are the subject's own
    MaxSeen,       \* 64: things a cursor may know of
    MaxKept,       \* 10000: the same for a checkpoint
    MaxScan,       \* 5000: events one call looks at
    Limits,        \* page sizes a client asks for
    MaxEvents, MaxEpoch, MaxPages, MaxAcks   \* bounds

SyncAssumption ==
    /\ IsFiniteSet(Things) /\ Own \subseteq Things /\ Limits \subseteq Nat \ {0}
    /\ {MaxSeen, MaxKept, MaxScan, MaxEvents, MaxEpoch, MaxPages, MaxAcks} \subseteq Nat
ASSUME SyncAssumption

VARIABLES
    events,        \* the log: the things each event is about
    access,        \* [Things -> "read", "lent" by a share that ends, or "none"]
    epoch,         \* setting authorization_epoch
    watched,       \* table watches
    checkpoint,    \* the row of sync_checkpoints it has a token of
    reader         \* the client: copy, position, pages not yet acknowledged, asked

sync_vars == <<events, access, epoch, watched, checkpoint, reader>>

Nowhere == [kind |-> "none"]
NoPage  == [version |-> -1]
Origin  == [seq |-> 0, seen |-> {}, watched |-> watched, epoch |-> epoch]
Unopened == [version |-> 0, body |-> [seq |-> 0, seen |-> {}, watched |-> {}, epoch |-> 0]]

InitSync ==
    /\ events = <<>> /\ access = [t \in Things |-> "read"]
    /\ epoch = 0 /\ watched = Things
    /\ checkpoint = Unopened
    /\ reader = [copy |-> [t \in Things |-> 0], position |-> Nowhere, pages |-> {}, asked |-> NoPage]
-----------------------------------------------------------------------------
MayRead(t) == access[t] # "none"
Followed(t) == t \in Own \cup watched

(* What an event tells this client now, and all it is told from one to n.     *)
Told(e) == {t \in events[e] : MayRead(t) /\ Followed(t)}
News(from, n) == {new \in (from + 1..n) \X Things : new[2] \in Told(new[1])}

Stale(body) == body.epoch # epoch

(* The first of the known things that are lost, as many as fit in a page.     *)
Lost(body, limit) ==
    LET lost == {t \in body.seen : ~MayRead(t)}
    IN  CHOOSE part \in SUBSET lost :
            Cardinality(part) = IF Cardinality(lost) < limit THEN Cardinality(lost) ELSE limit

(* How far the log is read: up to the event that no longer fits.              *)
Reach(body, room) ==
    IF Stale(body) \/ room = 0 THEN body.seq
    ELSE Max({n \in body.seq..Len(events) : Cardinality(News(body.seq, n)) <= room})

(* One page from a position: sync() and checkpoint_delta().                   *)
Delta(body, limit) ==
    LET gone  == Lost(body, limit)
        reach == Reach(body, limit - Cardinality(gone))
        news  == News(body.seq, reach)
    IN  [gone |-> gone, news |-> news, stale |-> Stale(body),
         next |-> [body EXCEPT !.seq = reach,
                               !.seen = (@ \ gone) \cup {n[2] : n \in news}]]

(* Otherwise the answer is resync_required.                                   *)
Answerable(body, limit, most) ==
    LET page == Delta(body, limit)
        looked == {e \in body.seq + 1..page.next.seq + 1 :
                      e <= Len(events) /\ ~page.stale /\ Cardinality(page.gone) < limit}
    IN  /\ body.watched = watched
        /\ page.stale => page.gone # {}
        /\ Cardinality(looked) <= MaxScan /\ \A e \in looked : Cardinality(Told(e)) <= limit
        /\ Cardinality(page.next.seen) <= most

(* The client's copy: the event each thing is as new as, 0 when it has none.  *)
Applied(copy, page) ==
    [t \in Things |-> IF t \in page.gone THEN 0
                      ELSE Max({copy[t]} \cup {n[1] : n \in {m \in page.news : m[2] = t}})]
-----------------------------------------------------------------------------
Publish(about) ==
    /\ Len(events) < MaxEvents    \* bound
    /\ events' = Append(events, about)
    /\ UNCHANGED <<access, epoch, watched, checkpoint, reader>>

(* Modes, owners, memberships, shares and states change with the epoch; a     *)
(* share ends by itself.                                                      *)
ChangeReading(t, to) ==
    /\ access[t] # to /\ epoch < MaxEpoch    \* bound
    /\ access' = [access EXCEPT ![t] = to] /\ epoch' = epoch + 1
    /\ UNCHANGED <<events, watched, checkpoint, reader>>

ShareEnds(t) ==
    /\ access[t] = "lent"
    /\ access' = [access EXCEPT ![t] = "none"]
    /\ UNCHANGED <<events, epoch, watched, checkpoint, reader>>

Watch(t) ==
    /\ watched' = IF t \in watched THEN watched \ {t} ELSE watched \cup {t}
    /\ UNCHANGED <<events, access, epoch, checkpoint, reader>>
-----------------------------------------------------------------------------
(* communication.sync without a cursor: the client starts over.               *)
Start(limit) ==
    /\ Answerable(Origin, limit, MaxSeen)
    /\ LET page == Delta(Origin, limit)
       IN  reader' = [copy |-> Applied([t \in Things |-> 0], page), pages |-> {}, asked |-> NoPage,
                      position |-> [kind |-> "cursor", at |-> page.next]]
    /\ checkpoint' = Unopened
    /\ UNCHANGED <<events, access, epoch, watched>>

(* communication.sync with one: after a change of authority it tells of       *)
(* losses alone, and gives no new cursor.                                     *)
Continue(limit) ==
    /\ reader.position.kind = "cursor" /\ Answerable(reader.position.at, limit, MaxSeen)
    /\ LET page == Delta(reader.position.at, limit)
       IN  reader' = [reader EXCEPT
               !.copy = Applied(@, page),
               !.position = IF page.stale THEN Nowhere ELSE [kind |-> "cursor", at |-> page.next]]
    /\ UNCHANGED <<events, access, epoch, watched, checkpoint>>

(* A cursor is good for 15 minutes, a checkpoint for 30 days.                 *)
PositionExpires ==
    /\ reader.position # Nowhere
    /\ reader' = [reader EXCEPT !.position = Nowhere, !.pages = {}, !.asked = NoPage]
    /\ checkpoint' = Unopened
    /\ UNCHANGED <<events, access, epoch, watched>>

(* sync_checkpoint_open.                                                      *)
OpenCheckpoint ==
    /\ reader.position.kind = "cursor"
    /\ LET body == reader.position.at
       IN  /\ body.watched = watched /\ body.epoch = epoch
           /\ checkpoint' = [version |-> 0, body |-> body]
    /\ reader' = [reader EXCEPT !.position = [kind |-> "token", version |-> 0], !.pages = {}]
    /\ UNCHANGED <<events, access, epoch, watched>>

(* communication.sync with the token of a checkpoint: nothing is written.     *)
GetPage(limit) ==
    /\ reader.position = [kind |-> "token", version |-> checkpoint.version]
    /\ reader.asked = NoPage
    /\ Cardinality(reader.pages) < MaxPages /\ checkpoint.version < MaxAcks    \* bounds
    /\ Answerable(checkpoint.body, limit, MaxKept)
    /\ reader' = [reader EXCEPT !.pages = @ \cup
           {[version |-> checkpoint.version, limit |-> limit, delta |-> Delta(checkpoint.body, limit)]}]
    /\ UNCHANGED <<events, access, epoch, watched, checkpoint>>

Accepted_Unchecked(page) ==     \* mutant: the page is not compared with the present one
    page.version = checkpoint.version /\ Answerable(checkpoint.body, page.limit, MaxKept)

(* sync_checkpoint_ack: the page is what it would be now.                     *)
Accepted(page) ==
    /\ page.version = checkpoint.version
    /\ Answerable(checkpoint.body, page.limit, MaxKept)
    /\ page.delta = Delta(checkpoint.body, page.limit)

Acknowledge(page) ==
    /\ reader.position.kind = "token" /\ reader.asked = NoPage
    /\ IF Accepted(page)
       THEN /\ checkpoint' = [version |-> checkpoint.version + 1,
                              body |-> Delta(checkpoint.body, page.limit).next]
            /\ reader' = [reader EXCEPT !.asked = page, !.pages = @ \ {page}]
       ELSE /\ reader' = [reader EXCEPT !.pages = @ \ {page}]
            /\ UNCHANGED checkpoint
    /\ UNCHANGED <<events, access, epoch, watched>>

(* Its answer arrives, the first one or the one to the same request again.    *)
HearAccepted ==
    /\ reader.asked # NoPage
    /\ reader' = [reader EXCEPT !.copy = Applied(@, reader.asked.delta), !.asked = NoPage,
                                !.position.version = reader.asked.version + 1]
    /\ UNCHANGED <<events, access, epoch, watched, checkpoint>>

NextSync ==
    \/ \E about \in (SUBSET Things) \ {{}} : Publish(about)
    \/ \E t \in Things : ShareEnds(t) \/ Watch(t)
                            \/ \E to \in {"read", "lent", "none"} : ChangeReading(t, to)
    \/ \E limit \in Limits : Start(limit) \/ Continue(limit) \/ GetPage(limit)
    \/ PositionExpires \/ OpenCheckpoint \/ HearAccepted
    \/ \E page \in reader.pages : Acknowledge(page)

SyncSpec == InitSync /\ [][NextSync]_sync_vars
-----------------------------------------------------------------------------
SyncTyped ==
    /\ events \in Seq((SUBSET Things) \ {{}}) /\ Len(events) <= MaxEvents
    /\ access \in [Things -> {"read", "lent", "none"}]
    /\ epoch \in 0..MaxEpoch /\ watched \subseteq Things
    /\ checkpoint.version \in Nat /\ checkpoint.body.seq \in 0..Len(events)
    /\ reader.copy \in [Things -> 0..MaxEvents]
    /\ reader.position.kind \in {"none", "cursor", "token"}

(* Where the client stands, with a page that is acknowledged and not heard of.*)
Body == IF reader.position.kind = "cursor" THEN reader.position.at ELSE checkpoint.body
Held == IF reader.asked = NoPage THEN reader.copy ELSE Applied(reader.copy, reader.asked.delta)

(* The service knows exactly what the client holds, so it can tell it when it *)
(* may no longer.                                                             *)
LossesTellable == reader.position # Nowhere => {t \in Things : Held[t] > 0} = Body.seen

(* While nothing is said of a resync, the client has everything it follows    *)
(* and may read as new as its position in the log.                            *)
NothingMissed ==
    reader.position # Nowhere /\ Body.epoch = epoch /\ Body.watched = watched =>
        \A t \in Things, e \in 1..Body.seq :
            MayRead(t) /\ Followed(t) /\ t \in events[e] => Held[t] >= e

(* A client that keeps a copy in step neither misses nor keeps anything that  *)
(* it should not, whatever arrives twice, late or after a change.             *)
SyncSound == SyncTyped /\ LossesTellable /\ NothingMissed
=============================================================================
