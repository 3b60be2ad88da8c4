---------------------------- MODULE TokenDelivery ----------------------------
(* Delivering the secret of a new credential once (security/token_delivery.py, *)
(* plugins/identity.py) to a client that keeps a journal (client.py,           *)
(* client_tokens.py).  A credential is named by the request that issues it, so *)
(* requests and credentials are both numbers here.  Calls may be slow, lost or *)
(* repeated, and the client may stop between any two writes of its files.      *)
EXTENDS Integers, FiniteSets

CONSTANTS
    Calls,         \* calls the service can be working on at once
    TokenTTL,      \* lifetime of an issued credential
    Window,        \* token_recovery_window
    Patience,      \* lifetime of a request
    MaxRequests, LastMoment   \* bounds

DeliveryAssumption ==
    {TokenTTL, Window, Patience, MaxRequests, LastMoment} \subseteq Nat \ {0}
ASSUME DeliveryAssumption

VARIABLES
    keys,      \* the credential of each request and its row in token_deliveries
    asked,     \* what each request asks for, from the client's journal
    calls,     \* [Calls -> a request the service is working on]
    client,    \* the client: its saved token, its journal, what it is doing
    moment     \* the service's clock

delivery_vars == <<keys, asked, calls, client, moment>>

Keys == 1..MaxRequests
NoIntent == [key |-> 0, recovery |-> 0, moved |-> FALSE]
NoCall == [phase |-> "none", request |-> 0, proof |-> 0, until |-> 0]

InitDelivery ==
    /\ keys = [n \in Keys |-> [state |-> "none", expires |-> 0, from |-> 0, deadline |-> 0,
                               claimed |-> FALSE, consumed |-> FALSE, released |-> 0]]
    /\ asked = [n \in Keys |-> [kind |-> "none", old |-> 0]]
    /\ calls = [c \in Calls |-> NoCall]
    /\ client = [token |-> 0, journal |-> NoIntent, waits |-> {}, saved |-> FALSE,
                 requests |-> 0, mixed |-> FALSE]
    /\ moment = 0

DeliveryTyped ==
    /\ \A n \in Keys :
          /\ keys[n].state \in {"none", "live", "revoked"}
          /\ keys[n].from \in 0..MaxRequests /\ asked[n].old \in 0..MaxRequests
          /\ keys[n].deadline <= keys[n].expires
          /\ keys[n].consumed => keys[n].state = "revoked"
          /\ asked[n].kind \in {"none", "create", "rotate", "recover"}
    /\ \A c \in Calls : calls[c].phase \in {"none", "sent", "issued", "secret", "gone"}
    /\ client.waits \subseteq Calls /\ client.token \in 0..MaxRequests
    /\ client.requests \in 0..MaxRequests
    /\ moment \in 0..LastMoment

Usable(n)  == n > 0 /\ keys[n].state = "live" /\ moment < keys[n].expires
Issued(n)  == n > 0 /\ keys[n].state # "none"
Least(a, b) == IF a < b THEN a ELSE b
-----------------------------------------------------------------------------
(* The service.  Every call is one transaction of the executor and, when it    *)
(* answers ok, the response hook with a transaction of its own.                *)

NewKey(from, expires, deadline) ==
    [state |-> "live", expires |-> expires, from |-> from,
     deadline |-> Least(expires, deadline),
     claimed |-> FALSE, consumed |-> FALSE, released |-> 0]

Answered(c, phase) == calls' = [calls EXCEPT ![c].phase = phase]

InTime(c) == moment < calls[c].until

(* identity.temporary and custodial_create.                                    *)
IssueFirst(c) ==
    LET n == calls[c].request
    IN  /\ calls[c].phase = "sent" /\ InTime(c) /\ asked[n].kind = "create" /\ ~Issued(n)
        /\ keys' = [keys EXCEPT ![n] = NewKey(0, moment + TokenTTL, moment + Window)]
        /\ Answered(c, "issued")
        /\ UNCHANGED <<asked, client, moment>>

(* identity.token_rotate, with the credential that signed it.                  *)
IssueRotated(c) ==
    LET n == calls[c].request   old == calls[c].proof
    IN  /\ calls[c].phase = "sent" /\ InTime(c) /\ asked[n].kind = "rotate" /\ ~Issued(n)
        /\ Usable(old)
        /\ keys' = [keys EXCEPT ![n] = NewKey(old, moment + TokenTTL, moment + Window),
                                ![old].state = "revoked"]
        /\ Answered(c, "issued")
        /\ UNCHANGED <<asked, client, moment>>

(* identity.token_recover.                                                     *)
IssueRecovered(c) ==
    LET n == calls[c].request   old == asked[n].old
    IN  /\ calls[c].phase = "sent" /\ InTime(c) /\ asked[n].kind = "recover" /\ ~Issued(n)
        /\ Usable(old) /\ ~keys[old].consumed /\ moment < keys[old].deadline
        /\ keys' = [keys EXCEPT ![n] = NewKey(old, keys[old].expires, keys[old].deadline),
                                ![old].state = "revoked", ![old].consumed = TRUE]
        /\ Answered(c, "issued")
        /\ UNCHANGED <<asked, client, moment>>

(* The same request again finds its result, if what authenticates it still     *)
(* does: a credential its own rotation revoked may, while its successor lives, *)
(* and a recovery secret its own recovery consumed may.                        *)
ReplayAllowed(n, proof) ==
    CASE asked[n].kind = "create" -> TRUE
      [] asked[n].kind = "rotate" ->
            \/ Usable(proof)
            \/ keys[n].from = proof /\ moment < keys[proof].expires /\ Usable(n)
      [] asked[n].kind = "recover" -> moment < keys[asked[n].old].deadline

AnswerAgain(c) ==
    /\ calls[c].phase = "sent" /\ InTime(c)
    /\ Issued(calls[c].request) /\ ReplayAllowed(calls[c].request, calls[c].proof)
    /\ Answered(c, "issued")
    /\ UNCHANGED <<keys, asked, client, moment>>

(* release(): the claim commits before the secret is answered.                 *)
Release(c) ==
    LET n == calls[c].request
    IN  /\ calls[c].phase = "issued" /\ Usable(n)
        /\ IF keys[n].claimed \/ keys[n].consumed
           THEN Answered(c, "gone") /\ UNCHANGED keys
           ELSE /\ keys' = [keys EXCEPT ![n].claimed = TRUE, ![n].released = @ + 1]
                /\ Answered(c, "secret")
        /\ UNCHANGED <<asked, client, moment>>

(* The call or its answer is lost, or it is refused; the client sees either.   *)
CallEnds(c) ==
    /\ calls[c].phase # "none"
    /\ calls' = [calls EXCEPT ![c] = NoCall]
    /\ client' = [client EXCEPT !.waits = @ \ {c}]
    /\ UNCHANGED <<keys, asked, moment>>

Passes ==
    /\ moment < LastMoment    \* bound
    /\ moment' = moment + 1
    /\ UNCHANGED <<keys, asked, calls, client>>
-----------------------------------------------------------------------------
(* The client.                                                                 *)

Ready == client.waits = {} /\ ~client.saved
Journaled == client.journal.key # 0
NextRequest == client.requests + 1

Send(c, n) ==
    /\ calls[c].phase = "none"
    /\ calls' = [calls EXCEPT ![c] = [phase |-> "sent", request |-> n,
                                      proof |-> client.token, until |-> moment + Patience]]

(* temporary(), custodial(), rotate_token(): the journal is durable before     *)
(* anything is sent.                                                           *)
BeginOperation ==
    /\ Ready /\ ~Journaled /\ client.requests < MaxRequests    \* bound
    /\ asked' = [asked EXCEPT ![NextRequest] =
                    [kind |-> IF client.token = 0 THEN "create" ELSE "rotate", old |-> 0]]
    /\ client' = [client EXCEPT !.journal = [NoIntent EXCEPT !.key = NextRequest],
                                !.requests = NextRequest]
    /\ UNCHANGED <<keys, calls, moment>>

(* The same command again sends the request of the journal.  Once the journal  *)
(* has moved on to a recovered credential, its nonce is not that request's and *)
(* the service refuses it.                                                     *)
Ask(c) ==
    /\ Ready /\ Journaled /\ ~client.journal.moved
    /\ Send(c, client.journal.key)
    /\ client' = [client EXCEPT !.waits = {c}, !.mixed = @ \/ client.journal.recovery # 0]
    /\ UNCHANGED <<keys, asked, moment>>

(* recover_token(): a token that is already saved only ends the journal ...    *)
SavedAlready == client.token # 0 /\ client.token \in {client.journal.key, client.journal.recovery}

Forget ==
    /\ Ready /\ Journaled /\ SavedAlready
    /\ client' = [client EXCEPT !.journal = NoIntent]
    /\ UNCHANGED <<keys, asked, calls, moment>>

(* ... otherwise the recovery is written to the journal ...                    *)
BeginRecovery ==
    /\ Ready /\ Journaled /\ ~SavedAlready /\ client.journal.recovery = 0
    /\ client.requests < MaxRequests    \* bound
    /\ asked' = [asked EXCEPT ![NextRequest] = [kind |-> "recover", old |-> client.journal.key]]
    /\ client' = [client EXCEPT !.journal.recovery = NextRequest, !.requests = NextRequest]
    /\ UNCHANGED <<keys, calls, moment>>

(* ... and sent.                                                               *)
Recover(c) ==
    /\ Ready /\ Journaled /\ ~SavedAlready /\ client.journal.recovery # 0
    /\ Send(c, client.journal.recovery)
    /\ client' = [client EXCEPT !.waits = {c}]
    /\ UNCHANGED <<keys, asked, moment>>

(* The token is saved, and then the journal is removed.                        *)
Save(c) ==
    /\ c \in client.waits /\ calls[c].phase = "secret"
    /\ calls' = [calls EXCEPT ![c] = NoCall]
    /\ client' = [client EXCEPT !.waits = {}, !.token = calls[c].request, !.saved = TRUE]
    /\ UNCHANGED <<keys, asked, moment>>

RemoveIntent ==
    /\ client.saved
    /\ client' = [client EXCEPT !.saved = FALSE, !.journal = NoIntent]
    /\ UNCHANGED <<keys, asked, calls, moment>>

MoveOn_Restart(c) ==    \* mutant: a secret that is gone ends the journal
    /\ c \in client.waits /\ calls[c].phase = "gone"
    /\ calls' = [calls EXCEPT ![c] = NoCall]
    /\ client' = [client EXCEPT !.waits = {}, !.journal = NoIntent]
    /\ UNCHANGED <<keys, asked, moment>>

(* token_delivery_unavailable: claimed, but for an answer that was lost.  A    *)
(* recovery leaves its own credential to be recovered.                         *)
MoveOn(c) ==
    /\ c \in client.waits /\ calls[c].phase = "gone"
    /\ calls' = [calls EXCEPT ![c] = NoCall]
    /\ client' = [client EXCEPT !.waits = {},
                     !.journal = IF asked[calls[c].request].kind = "recover"
                                 THEN [key |-> @.recovery, recovery |-> 0, moved |-> TRUE]
                                 ELSE @]
    /\ UNCHANGED <<keys, asked, moment>>

(* It times out or dies; the call goes on.                                     *)
GiveUp ==
    /\ ~Ready
    /\ client' = [client EXCEPT !.waits = {}, !.saved = FALSE]
    /\ UNCHANGED <<keys, asked, calls, moment>>

NextDelivery ==
    \/ \E c \in Calls :
          \/ IssueFirst(c) \/ IssueRotated(c) \/ IssueRecovered(c) \/ AnswerAgain(c) \/ Release(c)
          \/ CallEnds(c) \/ Ask(c) \/ Recover(c) \/ Save(c) \/ MoveOn(c)
    \/ BeginOperation \/ Forget \/ BeginRecovery \/ RemoveIntent \/ GiveUp \/ Passes

DeliverySpec == InitDelivery /\ [][NextDelivery]_delivery_vars
-----------------------------------------------------------------------------
(* However often a request is repeated, also while an earlier copy is at work, *)
(* one call at most answers with the secret.                                   *)
SecretOnce == \A n \in Keys : keys[n].released <= 1

(* Rotations and recoveries, lost or not, leave one usable credential at most. *)
OneUsable == Cardinality({n \in Keys : Usable(n)}) <= 1

(* The client can always get at the credential that is usable: it has its      *)
(* token, or the journal names it or a recovery that leads there.  The code    *)
(* does not keep this for a client that repeats the original command after it  *)
(* has begun to recover (mixed): a recovery still on its way then revokes what *)
(* the command was answered with.                                              *)
NeverStranded ==
    ~client.mixed => \A n \in Keys : Usable(n) =>
        \/ client.token = n
        \/ client.journal.key = n
        \/ client.journal.recovery = n /\ keys[n].from = client.journal.key

(* client.py:903: "Never revoke that already accepted credential."  A saved    *)
(* token is revoked by a rotation the client asked for and has in its journal, *)
(* never by recovering what was already saved.                                 *)
AcceptedStays ==
    ~client.mixed /\ client.token # 0 /\ keys[client.token].state = "revoked"
        => Journaled /\ ~SavedAlready

(* A secret is told once, one key of the identity works at a time, its owner   *)
(* can always go on with one, and what was accepted stays accepted.            *)
DeliverySound == SecretOnce /\ OneUsable /\ NeverStranded /\ AcceptedStays
=============================================================================
