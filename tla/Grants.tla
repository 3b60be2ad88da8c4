------------------------------- MODULE Grants -------------------------------
(* Browser sign-in, authorization codes, device codes and token families       *)
(* (security/oauth.py, transports/oauth_http.py).  Everything derives from one *)
(* subject's signing key: a login approved by it opens a browser session, a    *)
(* session issues codes and approves devices, a code or a device code is       *)
(* exchanged for a family of tokens, and a family is renewed by its refresh    *)
(* tokens.  A row past its expiry is as good as deleted, which rate() does.    *)
EXTENDS Integers, FiniteSets

CONSTANTS
    Browsers,      \* sign-ins, one session each
    Devices,       \* device codes
    Codes,         \* authorization codes
    PendingTTL, CodeTTL, AccessTTL, SessionTTL,
    KeyExpiry,     \* when the signing key itself expires
    MaxRenewals,   \* bound: token pairs of one family
    MaxVersion,    \* bound: changes to the subject's keys
    LastTick       \* bound: the clock stops

NoSession == "no session"

GrantsAssumption ==
    /\ NoSession \notin Browsers
    /\ Devices \cap Codes = {} /\ Browsers \cap (Devices \cup Codes) = {}
    /\ {PendingTTL, CodeTTL, AccessTTL, SessionTTL} \subseteq Nat \ {0}
    /\ {KeyExpiry, MaxVersion, LastTick} \subseteq Nat
    /\ MaxRenewals \in Nat \ {0}
ASSUME GrantsAssumption

VARIABLES
    now,
    version,    \* subject.auth_version, raised by every change of its keys
    pending,    \* [Browsers \cup Devices -> rows of kind pending]
    session,    \* [Browsers -> rows of kind session]
    code,       \* [Codes -> rows of kind code]
    family,     \* [Families -> rows of kind family, with their tokens]
    reused,     \* history: families whose code or refresh token came twice
    consent     \* history: [Families -> the browser in which they were approved]

grants_vars == <<now, version, pending, session, code, family, reused, consent>>

Families == Devices \cup Codes
Smaller(a, b) == IF a < b THEN a ELSE b
Times == 0..(LastTick + PendingTTL + CodeTTL + AccessTTL + SessionTTL)

NewPending == [status |-> "none", expires |-> 0, version |-> 0, session |-> NoSession]
NewSession == [state |-> "none", expires |-> 0, version |-> 0]
NewCode    == [state |-> "none", expires |-> 0, version |-> 0, session |-> NoSession]
NewFamily  == [state |-> "none", expires |-> 0, version |-> 0, session |-> NoSession,
               born |-> 0, issued |-> 0, used |-> {}, access |-> [n \in 1..MaxRenewals |-> 0]]

InitGrants ==
    /\ now = 0 /\ version = 0
    /\ reused = {} /\ consent = [f \in Families |-> NoSession]
    /\ pending = [g \in Browsers \cup Devices |-> NewPending]
    /\ session = [b \in Browsers |-> NewSession]
    /\ code = [c \in Codes |-> NewCode]
    /\ family = [f \in Families |-> NewFamily]

(* One type invariant: the rows have the shapes the code gives them.           *)
GrantsTyped ==
    /\ now \in 0..LastTick /\ version \in 0..MaxVersion /\ reused \subseteq Families
    /\ consent \in [Families -> Browsers \cup {NoSession}]
    /\ pending \in [Browsers \cup Devices ->
          [status : {"none", "pending", "approved", "denied", "consumed"}, expires : Times,
           version : 0..MaxVersion, session : Browsers \cup {NoSession}]]
    /\ session \in [Browsers -> [state : {"none", "open", "revoked"}, expires : Times,
                                 version : 0..MaxVersion]]
    /\ code \in [Codes -> [state : {"none", "issued", "consumed"}, expires : Times,
                           version : 0..MaxVersion, session : Browsers \cup {NoSession}]]
    /\ \A f \in Families :
          /\ family[f].state \in {"none", "live", "revoked"}
          /\ family[f].expires \in Times /\ family[f].born \in Times
          /\ family[f].version \in 0..MaxVersion
          /\ family[f].session \in Browsers \cup {NoSession}
          /\ family[f].issued \in 0..MaxRenewals
          /\ family[f].used \subseteq 1..family[f].issued
          /\ family[f].access \in [1..MaxRenewals -> 0..family[f].expires]
-----------------------------------------------------------------------------
(* require_source: the key is live and unchanged, and so is the session.       *)

KeyLive(v) == version = v /\ now < KeyExpiry
SessionLive(b) ==
    /\ session[b].state = "open" /\ now < session[b].expires
    /\ KeyLive(session[b].version)
SourceLive(row) ==
    /\ KeyLive(row.version)
    /\ row.session # NoSession => SessionLive(row.session)

(* require_binding: what bearer and the executor accept.                       *)
FamilyLive(f) ==
    /\ family[f].state = "live" /\ now < family[f].expires
    /\ SourceLive(family[f])
Accepted(f, n) ==
    n \in 1..family[f].issued /\ now < family[f].access[n] /\ FamilyLive(f)
-----------------------------------------------------------------------------
(* Sign-in and approval.                                                       *)

Begin(g) ==
    /\ pending[g].status = "none"
    /\ pending' = [pending EXCEPT ![g].status = "pending", ![g].expires = now + PendingTTL]
    /\ UNCHANGED <<now, version, session, code, family, reused, consent>>

Decided(g, decision, b) ==
    [pending EXCEPT ![g] = [@ EXCEPT !.status = decision,
        !.version = IF decision = "approved" THEN version ELSE pending[g].version,
        !.session = IF decision = "approved" THEN b ELSE pending[g].session]]

(* The signing key approves or denies a code it was shown.                     *)
Approve(g, decision) ==
    /\ pending[g].status = "pending" /\ now < pending[g].expires /\ now < KeyExpiry
    /\ pending' = Decided(g, decision, NoSession)
    /\ UNCHANGED <<now, version, session, code, family, reused, consent>>

(* A device is approved or denied in a signed-in browser.                      *)
ConsentDevice(d, b, decision) ==
    /\ pending[d].status = "pending" /\ now < pending[d].expires /\ SessionLive(b)
    /\ pending' = Decided(d, decision, b)
    /\ consent' = [consent EXCEPT ![d] = IF decision = "approved" THEN b ELSE @]
    /\ UNCHANGED <<now, version, session, code, family, reused>>

Answerable(g) ==
    pending[g].status = "approved" /\ now < pending[g].expires /\ SourceLive(pending[g])

PollLogin(b) ==
    /\ Answerable(b)
    /\ pending' = [pending EXCEPT ![b].status = "consumed"]
    /\ session' = [session EXCEPT ![b] = [state |-> "open", version |-> pending[b].version,
                       expires |-> Smaller(now + SessionTTL, KeyExpiry)]]
    /\ UNCHANGED <<now, version, code, family, reused, consent>>

Logout(b) ==
    /\ session[b].state = "open" /\ now < session[b].expires
    /\ session' = [session EXCEPT ![b].state = "revoked"]
    /\ UNCHANGED <<now, version, pending, code, family, reused, consent>>

AuthorizeCode(c, b) ==
    /\ code[c].state = "none" /\ SessionLive(b)
    /\ code' = [code EXCEPT ![c] = [state |-> "issued", version |-> session[b].version,
                    session |-> b, expires |-> Smaller(session[b].expires, now + CodeTTL)]]
    /\ consent' = [consent EXCEPT ![c] = b]
    /\ UNCHANGED <<now, version, pending, session, family, reused>>
-----------------------------------------------------------------------------
(* Tokens.                                                                     *)

FamilyExpiry(row) ==
    Smaller(Smaller(now + SessionTTL, KeyExpiry),
            IF row.session = NoSession THEN now + SessionTTL ELSE session[row.session].expires)

(* A pair of tokens is added to a family; it lives no longer than the family.  *)
WithTokens(fam) ==
    [fam EXCEPT !.issued = @ + 1,
                !.access[fam.issued + 1] = Smaller(fam.expires, now + AccessTTL)]

Founded(row) ==
    WithTokens([NewFamily EXCEPT !.state = "live", !.expires = FamilyExpiry(row), !.born = now,
                                 !.version = row.version, !.session = row.session])

PollDevice(d) ==
    /\ Answerable(d)
    /\ pending' = [pending EXCEPT ![d].status = "consumed"]
    /\ family' = [family EXCEPT ![d] = Founded(pending[d])]
    /\ UNCHANGED <<now, version, session, code, reused, consent>>

ExchangeCode_Again(c) ==    \* mutant: the code is not marked as consumed
    /\ code[c].state = "issued" /\ now < code[c].expires /\ SourceLive(code[c])
    /\ family' = [family EXCEPT ![c] = Founded(code[c])]
    /\ UNCHANGED <<now, version, pending, session, code, reused, consent>>

ExchangeCode(c) ==
    /\ code[c].state = "issued" /\ now < code[c].expires /\ SourceLive(code[c])
    /\ code' = [code EXCEPT ![c].state = "consumed"]
    /\ family' = [family EXCEPT ![c] = Founded(code[c])]
    /\ UNCHANGED <<now, version, pending, session, reused, consent>>

(* A code that comes again ends its family; the refusal is an answer, not an   *)
(* exception, so that this commits.                                            *)
ReplayCode(c) ==
    /\ code[c].state = "consumed" /\ now < code[c].expires /\ now < family[c].expires
    /\ family' = [family EXCEPT ![c].state = "revoked"]
    /\ reused' = reused \cup {c}
    /\ UNCHANGED <<now, version, pending, session, code, consent>>

Refresh(f, n) ==
    /\ n \in (1..family[f].issued) \ family[f].used
    /\ FamilyLive(f)
    /\ family[f].issued < MaxRenewals    \* bound
    /\ family' = [family EXCEPT ![f] = WithTokens([family[f] EXCEPT !.used = @ \cup {n}])]
    /\ UNCHANGED <<now, version, pending, session, code, reused, consent>>

ReplayRefresh_Raised(f, n) ==    \* mutant: the refusal is raised and undoes the revocation
    /\ n \in family[f].used /\ now < family[f].expires
    /\ reused' = reused \cup {f}
    /\ UNCHANGED <<now, version, pending, session, code, family, consent>>

ReplayRefresh(f, n) ==
    /\ n \in family[f].used /\ now < family[f].expires
    /\ family' = [family EXCEPT ![f].state = "revoked"]
    /\ reused' = reused \cup {f}
    /\ UNCHANGED <<now, version, pending, session, code, consent>>

(* oauth.revoke, with a refresh token in any state or an accepted access token. *)
RevokeGrant(f) ==
    /\ family[f].issued > 0 /\ family[f].state = "live" /\ now < family[f].expires
    /\ family' = [family EXCEPT ![f].state = "revoked"]
    /\ UNCHANGED <<now, version, pending, session, code, reused, consent>>
-----------------------------------------------------------------------------
ChangeKeys ==
    /\ version < MaxVersion
    /\ version' = version + 1
    /\ UNCHANGED <<now, pending, session, code, family, reused, consent>>

TickGrants ==
    /\ now < LastTick
    /\ now' = now + 1
    /\ UNCHANGED <<version, pending, session, code, family, reused, consent>>

NextGrants ==
    \/ \E g \in Browsers \cup Devices :
          Begin(g) \/ \E decision \in {"approved", "denied"} : Approve(g, decision)
    \/ \E b \in Browsers :
          \/ PollLogin(b) \/ Logout(b)
          \/ \E d \in Devices, decision \in {"approved", "denied"} : ConsentDevice(d, b, decision)
          \/ \E c \in Codes : AuthorizeCode(c, b)
    \/ \E d \in Devices : PollDevice(d)
    \/ \E c \in Codes : ExchangeCode(c) \/ ReplayCode(c)
    \/ \E f \in Families : RevokeGrant(f) \/ \E n \in 1..MaxRenewals : Refresh(f, n) \/ ReplayRefresh(f, n)
    \/ ChangeKeys \/ TickGrants

GrantsSpec == InitGrants /\ [][NextGrants]_grants_vars
-----------------------------------------------------------------------------
(* Once a code or a refresh token has come twice, nothing of its family is     *)
(* accepted or renewed.                                                        *)
ReuseEndsFamily == \A f \in reused : ~FamilyLive(f)

(* A family can be renewed by one token at a time.                             *)
OneRenewal ==
    \A f \in Families : family[f].issued > 0 =>
        \A n, m \in (1..family[f].issued) \ family[f].used : n = m

(* However often it is renewed, a family ends with the lifetime it was given,  *)
(* with the session it came from and with the key that session came from.      *)
LifetimeHolds ==
    \A f \in Families : \A n \in 1..MaxRenewals : Accepted(f, n) =>
        /\ now < family[f].born + SessionTTL /\ now < KeyExpiry
        /\ \A b \in Browsers : family[f].session = b => now < session[b].expires

(* A sign-out ends everything that was granted in that browser.                *)
LogoutEndsGrants ==
    \A f \in Families : consent[f] # NoSession /\ session[consent[f]].state = "revoked"
        => ~FamilyLive(f)

(* A family begins once and what has ended stays ended, whatever is presented  *)
(* again: GrantPromise, with a family live while its tokens could be accepted. *)
TheGrant == INSTANCE GrantPromise WITH
    Grantees <- Families,
    stage <- [f \in Families |-> IF family[f].state = "none" THEN "none"
                                 ELSE IF FamilyLive(f) THEN "live" ELSE "over"]
GrantsKeepPromise == TheGrant!PromiseSpec

(* A refresh token renews one grant at most, its reuse ends the family, and   *)
(* no grant outlives the login it came from.                                 *)
GrantsSound == OneRenewal /\ ReuseEndsFamily /\ LifetimeHolds /\ LogoutEndsGrants
=============================================================================
