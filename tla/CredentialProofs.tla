-------------------------- MODULE CredentialProofs --------------------------
(* The keys of an account for every number of browsers, devices and requests:  *)
(* Grants (and the promise of GrantPromise), RootRotation, Recovery and        *)
(* TokenDelivery, and what keys are good for, Authority; each with the         *)
(* inductive invariant it needs.                                               *)
EXTENDS Grants, RootRotation, Recovery, TokenDelivery, Authority, FiniteSetTheorems,
        WellFoundedInduction, TLAPS

-----------------------------------------------------------------------------
(* Grants.                                                                     *)

PendingRows ==
    [status : {"none", "pending", "approved", "denied", "consumed"}, expires : Times,
     version : 0..MaxVersion, session : Browsers \cup {NoSession}]
SessionRows ==
    [state : {"none", "open", "revoked"}, expires : Times, version : 0..MaxVersion]
CodeRows ==
    [state : {"none", "issued", "consumed"}, expires : Times, version : 0..MaxVersion,
     session : Browsers \cup {NoSession}]
FamilyRows ==
    [state : {"none", "live", "revoked"}, expires : Times, version : 0..MaxVersion,
     session : Browsers \cup {NoSession}, born : Times, issued : 0..MaxRenewals,
     used : SUBSET (1..MaxRenewals), access : [1..MaxRenewals -> Times]]

RowsTyped ==
    /\ now \in 0..LastTick /\ version \in 0..MaxVersion /\ reused \subseteq Families
    /\ consent \in [Families -> Browsers \cup {NoSession}]
    /\ pending \in [Browsers \cup Devices -> PendingRows]
    /\ session \in [Browsers -> SessionRows]
    /\ code \in [Codes -> CodeRows]
    /\ family \in [Families -> FamilyRows]

(* Every row is written once: what was opened or founded was asked for, and    *)
(* what names a session names one that was opened.                             *)
WrittenOnce ==
    /\ \A b \in Browsers : session[b].state # "none" <=> pending[b].status = "consumed"
    /\ \A d \in Devices : family[d].state # "none" <=> pending[d].status = "consumed"
    /\ \A c \in Codes : family[c].state # "none" <=> code[c].state = "consumed"
    /\ \A f \in Families : family[f].issued > 0 => family[f].state # "none"

SessionsOpened ==
    /\ \A g \in Browsers \cup Devices :
          pending[g].session # NoSession => session[pending[g].session].state # "none"
    /\ \A c \in Codes : code[c].session # NoSession => session[code[c].session].state # "none"
    /\ \A f \in Families :
          family[f].session # NoSession => session[family[f].session].state # "none"
    /\ \A f \in Families : consent[f] # NoSession => session[consent[f]].state # "none"

(* Nothing carries a version of the keys that is still to come.                *)
NoFutureKeys ==
    /\ \A g \in Browsers \cup Devices : pending[g].version <= version
    /\ \A b \in Browsers : session[b].version <= version
    /\ \A c \in Codes : code[c].version <= version
    /\ \A f \in Families : family[f].version <= version

(* Only the last refresh token of a family is unused.                          *)
LastRenews ==
    \A f \in Families :
        /\ family[f].used \subseteq 1..family[f].issued
        /\ \A n \in 1..family[f].issued : n \notin family[f].used => n = family[f].issued

(* What a family was given when it was founded.                                *)
Lifetimes ==
    \A f \in Families :
        /\ \A n \in 1..MaxRenewals : family[f].access[n] <= family[f].expires
        /\ family[f].state # "none" =>
              /\ family[f].expires <= family[f].born + SessionTTL
              /\ family[f].expires <= KeyExpiry
              /\ family[f].session # NoSession =>
                    family[f].expires <= session[family[f].session].expires

(* The session a family hangs on is the one it was approved in.                *)
Consents ==
    /\ \A d \in Devices :
          /\ pending[d].status \in {"none", "pending", "denied"} => consent[d] = NoSession
          /\ pending[d].status \in {"approved", "consumed"} => pending[d].session = consent[d]
    /\ \A c \in Codes : code[c].state # "none" => code[c].session = consent[c]
    /\ \A c \in Codes : code[c].state = "none" => consent[c] = NoSession
    /\ \A f \in Families : family[f].state # "none" => family[f].session = consent[f]

ReusedRevoked == \A f \in reused : family[f].state = "revoked"

GrantsInv ==
    /\ RowsTyped /\ WrittenOnce /\ SessionsOpened /\ NoFutureKeys
    /\ LastRenews /\ Lifetimes /\ Consents /\ ReusedRevoked

LEMMA SmallerOf ==
    ASSUME NEW a \in Int, NEW b \in Int
    PROVE  Smaller(a, b) \in {a, b} /\ Smaller(a, b) <= a /\ Smaller(a, b) <= b
  BY DEF Smaller

(* Every time the code computes is one of Times.                               *)
LEMMA TimesGiven ==
    ASSUME GrantsAssumption, now \in 0..LastTick
    PROVE  /\ 0 \in Times /\ now \in Times
           /\ now + PendingTTL \in Times /\ now + CodeTTL \in Times
           /\ now + AccessTTL \in Times /\ now + SessionTTL \in Times
           /\ Smaller(now + SessionTTL, KeyExpiry) \in Times
           /\ \A e \in Times : /\ e \in Nat
                               /\ Smaller(e, now + CodeTTL) \in Times
                               /\ Smaller(e, now + AccessTTL) \in Times
  <1>1. /\ PendingTTL \in Nat /\ CodeTTL \in Nat /\ AccessTTL \in Nat /\ SessionTTL \in Nat
        /\ KeyExpiry \in Nat /\ LastTick \in Nat
    BY DEF GrantsAssumption
  <1>2. \A e \in Times : e \in Nat
    BY <1>1 DEF Times
  <1>3. /\ 0 \in Times /\ now \in Times
        /\ now + PendingTTL \in Times /\ now + CodeTTL \in Times
        /\ now + AccessTTL \in Times /\ now + SessionTTL \in Times
    BY <1>1 DEF Times
  <1>4. Smaller(now + SessionTTL, KeyExpiry) \in Times
    BY <1>1 DEF Times, Smaller
  <1> QED  BY <1>2, <1>3, <1>4 DEF Smaller

LEMMA GrantsInit == ASSUME GrantsAssumption, InitGrants PROVE GrantsInv
  <1>1. 0 \in Times /\ MaxRenewals \in Nat /\ MaxVersion \in Nat /\ LastTick \in Nat
    BY DEF GrantsAssumption, Times
  <1>2. /\ NewPending \in PendingRows /\ NewSession \in SessionRows /\ NewCode \in CodeRows
        /\ NewFamily \in FamilyRows
    BY <1>1 DEF NewPending, NewSession, NewCode, NewFamily,
                PendingRows, SessionRows, CodeRows, FamilyRows
  <1>3. RowsTyped
    BY <1>1, <1>2 DEF RowsTyped, InitGrants
  <1> USE DEF InitGrants, NewPending, NewSession, NewCode, NewFamily, GrantsAssumption
  <1>4. WrittenOnce /\ SessionsOpened /\ NoFutureKeys /\ Consents
    BY DEF WrittenOnce, SessionsOpened, NoFutureKeys, Consents, Families
  <1>5. LastRenews /\ Lifetimes /\ ReusedRevoked
    BY DEF LastRenews, Lifetimes, ReusedRevoked, Families
  <1> QED  BY <1>3, <1>4, <1>5 DEF GrantsInv

LEMMA BeginKeeps ==
    ASSUME GrantsAssumption, GrantsInv, NEW g \in Browsers \cup Devices, Begin(g)
    PROVE  GrantsInv'
  <1>1. [pending[g] EXCEPT !.status = "pending", !.expires = now + PendingTTL] \in PendingRows
    BY TimesGiven DEF GrantsInv, RowsTyped, PendingRows
  <1>2. pending' = [pending EXCEPT ![g] =
                       [pending[g] EXCEPT !.status = "pending", !.expires = now + PendingTTL]]
    BY DEF Begin, GrantsInv, RowsTyped
  <1>3. RowsTyped'
    BY <1>1, <1>2 DEF Begin, GrantsInv, RowsTyped
  <1>4. \A h \in Browsers \cup Devices :
           /\ pending'[h].version = pending[h].version /\ pending'[h].session = pending[h].session
           /\ h # g => pending'[h].status = pending[h].status
    BY <1>2 DEF GrantsInv, RowsTyped, PendingRows
  <1>5. pending'[g].status = "pending"
    BY <1>2 DEF GrantsInv, RowsTyped, PendingRows
  <1>6. WrittenOnce' /\ SessionsOpened' /\ NoFutureKeys' /\ Consents'
    BY <1>4, <1>5 DEF Begin, GrantsInv, RowsTyped, WrittenOnce, SessionsOpened, NoFutureKeys,
                      Consents
  <1> QED
    BY <1>3, <1>6 DEF Begin, GrantsInv, LastRenews, Lifetimes, ReusedRevoked

LEMMA DecidedKeeps ==
    ASSUME GrantsAssumption, GrantsInv, NEW g \in Browsers \cup Devices,
           NEW decision \in {"approved", "denied"}, NEW b \in Browsers \cup {NoSession},
           pending[g].status = "pending", b # NoSession => session[b].state # "none",
           pending' = Decided(g, decision, b),
           consent' = [f \in Families |->
                          IF f = g /\ decision = "approved" THEN b ELSE consent[f]],
           UNCHANGED <<now, version, session, code, family, reused>>
    PROVE  GrantsInv'
  <1> DEFINE row == [pending[g] EXCEPT !.status = decision,
                         !.version = IF decision = "approved" THEN version ELSE pending[g].version,
                         !.session = IF decision = "approved" THEN b ELSE pending[g].session]
  <1>1. row \in PendingRows /\ row.status = decision
    BY DEF GrantsInv, RowsTyped, PendingRows
  <1>2. /\ row.version = IF decision = "approved" THEN version ELSE pending[g].version
        /\ row.session = IF decision = "approved" THEN b ELSE pending[g].session
    BY DEF GrantsInv, RowsTyped, PendingRows
  <1>3. pending' = [pending EXCEPT ![g] = row]
    BY DEF Decided
  <1> HIDE DEF row
  <1>4. RowsTyped'
    BY <1>1, <1>3 DEF GrantsInv, RowsTyped
  <1>5. \A h \in Browsers \cup Devices : pending'[h] = IF h = g THEN row ELSE pending[h]
    BY <1>3 DEF GrantsInv, RowsTyped
  <1>6. NoFutureKeys'
    BY <1>2, <1>5 DEF GrantsInv, RowsTyped, NoFutureKeys
  <1>7. WrittenOnce' /\ SessionsOpened'
    BY <1>1, <1>2, <1>5 DEF GrantsInv, RowsTyped, WrittenOnce, SessionsOpened
  <1>8. Consents'
    BY <1>1, <1>2, <1>5
       DEF GrantsInv, RowsTyped, WrittenOnce, Consents, Families, GrantsAssumption
  <1> QED
    BY <1>4, <1>6, <1>7, <1>8 DEF GrantsInv, LastRenews, Lifetimes, ReusedRevoked

LEMMA ApprovalKeeps ==
    ASSUME GrantsAssumption, GrantsInv, NEW decision \in {"approved", "denied"},
           \/ \E g \in Browsers \cup Devices : Approve(g, decision)
           \/ \E d \in Devices, b \in Browsers : ConsentDevice(d, b, decision)
    PROVE  GrantsInv'
  <1>1. CASE \E g \in Browsers \cup Devices : Approve(g, decision)
    <2>1. PICK g \in Browsers \cup Devices : Approve(g, decision)
      BY <1>1
    <2>2. g \in Families => consent[g] = NoSession
      BY <2>1 DEF Approve, GrantsInv, Consents, Families, GrantsAssumption
    <2>3. consent' = [f \in Families |->
                         IF f = g /\ decision = "approved" THEN NoSession ELSE consent[f]]
      BY <2>1, <2>2 DEF Approve, GrantsInv, RowsTyped
    <2> QED  BY <2>1, <2>3, DecidedKeeps DEF Approve
  <1>2. CASE \E d \in Devices, b \in Browsers : ConsentDevice(d, b, decision)
    <2>1. PICK d \in Devices, b \in Browsers : ConsentDevice(d, b, decision)
      BY <1>2
    <2>2. consent' = [f \in Families |->
                         IF f = d /\ decision = "approved" THEN b ELSE consent[f]]
      BY <2>1 DEF ConsentDevice, GrantsInv, RowsTyped
    <2>3. session[b].state # "none"
      BY <2>1 DEF ConsentDevice, SessionLive
    <2>4. pending' = Decided(d, decision, b) /\ pending[d].status = "pending"
      BY <2>1 DEF ConsentDevice
    <2>5. UNCHANGED <<now, version, session, code, family, reused>>
      BY <2>1 DEF ConsentDevice
    <2> QED  BY <2>2, <2>3, <2>4, <2>5, DecidedKeeps
  <1> QED  BY <1>1, <1>2

(* An approval that is taken up leaves the request behind as consumed.         *)
LEMMA ConsumedRow ==
    ASSUME GrantsInv, NEW g \in Browsers \cup Devices,
           pending' = [pending EXCEPT ![g].status = "consumed"]
    PROVE  /\ pending' \in [Browsers \cup Devices -> PendingRows]
           /\ pending'[g].status = "consumed"
           /\ \A h \in Browsers \cup Devices :
                 /\ pending'[h].version = pending[h].version
                 /\ pending'[h].session = pending[h].session
                 /\ h # g => pending'[h].status = pending[h].status
  <1>1. [pending[g] EXCEPT !.status = "consumed"] \in PendingRows
    BY DEF GrantsInv, RowsTyped, PendingRows
  <1>2. pending' = [pending EXCEPT ![g] = [pending[g] EXCEPT !.status = "consumed"]]
    BY DEF GrantsInv, RowsTyped
  <1> QED  BY <1>1, <1>2 DEF GrantsInv, RowsTyped, PendingRows

LEMMA PollLoginKeeps ==
    ASSUME GrantsAssumption, GrantsInv, NEW b \in Browsers, PollLogin(b)
    PROVE  GrantsInv'
  <1> DEFINE row == [state |-> "open", version |-> pending[b].version,
                     expires |-> Smaller(now + SessionTTL, KeyExpiry)]
  <1>1. session[b].state = "none" /\ pending[b].status = "approved"
    BY DEF PollLogin, Answerable, GrantsInv, RowsTyped, SessionRows, WrittenOnce
  <1>2. row \in SessionRows /\ row.state = "open" /\ row.version = pending[b].version
    BY TimesGiven DEF GrantsInv, RowsTyped, PendingRows, SessionRows
  <1>3. session' = [session EXCEPT ![b] = row]
    BY DEF PollLogin
  <1> HIDE DEF row
  <1>4. \A a \in Browsers : session'[a] = IF a = b THEN row ELSE session[a]
    BY <1>3 DEF GrantsInv, RowsTyped
  <1>5. /\ pending' \in [Browsers \cup Devices -> PendingRows]
        /\ pending'[b].status = "consumed"
        /\ \A h \in Browsers \cup Devices :
                 /\ pending'[h].version = pending[h].version
                 /\ pending'[h].session = pending[h].session
                 /\ h # b => pending'[h].status = pending[h].status
    BY ConsumedRow DEF PollLogin
  <1>6. RowsTyped'
    BY <1>2, <1>3, <1>5 DEF PollLogin, GrantsInv, RowsTyped
  <1>7. NoFutureKeys'
    BY <1>2, <1>4, <1>5 DEF PollLogin, GrantsInv, NoFutureKeys
  <1>8. WrittenOnce' /\ Consents'
    BY <1>2, <1>4, <1>5 DEF PollLogin, GrantsInv, WrittenOnce, Consents, GrantsAssumption
  <1>9. \A a \in Browsers : session[a].state # "none" => session'[a] = session[a]
    BY <1>1, <1>4
  <1>10. SessionsOpened'
    BY <1>5, <1>9, <1>6 DEF PollLogin, GrantsInv, SessionsOpened, RowsTyped, PendingRows, CodeRows, FamilyRows
  <1>11. Lifetimes'
    BY <1>9 DEF PollLogin, GrantsInv, Lifetimes, SessionsOpened, RowsTyped, FamilyRows
  <1> QED
    BY <1>6, <1>7, <1>8, <1>10, <1>11 DEF PollLogin, GrantsInv, LastRenews, ReusedRevoked

LEMMA LogoutKeeps ==
    ASSUME GrantsAssumption, GrantsInv, NEW b \in Browsers, Logout(b)
    PROVE  GrantsInv'
  <1>1. [session[b] EXCEPT !.state = "revoked"] \in SessionRows
    BY DEF GrantsInv, RowsTyped, SessionRows
  <1>2. session' = [session EXCEPT ![b] = [session[b] EXCEPT !.state = "revoked"]]
    BY DEF Logout, GrantsInv, RowsTyped
  <1>3. RowsTyped'
    BY <1>1, <1>2 DEF Logout, GrantsInv, RowsTyped
  <1>4. \A a \in Browsers :
           /\ session'[a].version = session[a].version /\ session'[a].expires = session[a].expires
           /\ session'[a].state # "none" <=> session[a].state # "none"
    BY <1>2 DEF Logout, GrantsInv, RowsTyped, SessionRows
  <1>5. WrittenOnce' /\ NoFutureKeys' /\ Consents'
    BY <1>4 DEF Logout, GrantsInv, WrittenOnce, NoFutureKeys, Consents
  <1>6. SessionsOpened'
    BY <1>4 DEF Logout, GrantsInv, SessionsOpened, RowsTyped, PendingRows, CodeRows, FamilyRows
  <1>7. Lifetimes'
    BY <1>4 DEF Logout, GrantsInv, Lifetimes, RowsTyped, FamilyRows
  <1> QED  BY <1>3, <1>5, <1>6, <1>7 DEF Logout, GrantsInv, LastRenews, ReusedRevoked

LEMMA AuthorizeCodeKeeps ==
    ASSUME GrantsAssumption, GrantsInv, NEW b \in Browsers, NEW c \in Codes, AuthorizeCode(c, b)
    PROVE  GrantsInv'
  <1> DEFINE row == [state |-> "issued", version |-> session[b].version,
                     session |-> b, expires |-> Smaller(session[b].expires, now + CodeTTL)]
  <1>1. /\ row \in CodeRows /\ row.state = "issued" /\ row.session = b
        /\ row.version = session[b].version
    BY TimesGiven DEF GrantsInv, RowsTyped, SessionRows, CodeRows
  <1>2. code' = [code EXCEPT ![c] = row] /\ session[b].state = "open"
    BY DEF AuthorizeCode, SessionLive
  <1> HIDE DEF row
  <1>3. RowsTyped'
    BY <1>1, <1>2 DEF AuthorizeCode, GrantsInv, RowsTyped, Families
  <1>4. \A a \in Codes : code'[a] = IF a = c THEN row ELSE code[a]
    BY <1>2 DEF GrantsInv, RowsTyped
  <1>5. \A f \in Families : consent'[f] = IF f = c THEN b ELSE consent[f]
    BY DEF AuthorizeCode, GrantsInv, RowsTyped
  <1>6. WrittenOnce' /\ NoFutureKeys' /\ SessionsOpened'
    BY <1>1, <1>2, <1>4, <1>5
       DEF AuthorizeCode, GrantsInv, WrittenOnce, NoFutureKeys, SessionsOpened
  <1>7. Consents'
    BY <1>1, <1>2, <1>4, <1>5
       DEF AuthorizeCode, GrantsInv, Consents, WrittenOnce, Families, GrantsAssumption
  <1> QED  BY <1>3, <1>6, <1>7 DEF AuthorizeCode, GrantsInv, LastRenews, Lifetimes, ReusedRevoked

(* A pair of tokens changes nothing else of its family.                        *)
LEMMA WithTokensRow ==
    ASSUME GrantsAssumption, now \in 0..LastTick, NEW fam \in FamilyRows,
           fam.issued < MaxRenewals,
           \A n \in 1..MaxRenewals : fam.access[n] <= fam.expires
    PROVE  /\ WithTokens(fam) \in FamilyRows
           /\ WithTokens(fam).issued = fam.issued + 1
           /\ \A n \in 1..MaxRenewals : WithTokens(fam).access[n] <= fam.expires
           /\ WithTokens(fam).state = fam.state /\ WithTokens(fam).expires = fam.expires
           /\ WithTokens(fam).version = fam.version /\ WithTokens(fam).session = fam.session
           /\ WithTokens(fam).born = fam.born /\ WithTokens(fam).used = fam.used
  <1> DEFINE until == Smaller(fam.expires, now + AccessTTL)
             access == [fam.access EXCEPT ![fam.issued + 1] = until]
  <1>1. fam.expires \in Times /\ fam.issued \in 0..MaxRenewals /\ MaxRenewals \in Nat
    BY DEF FamilyRows, GrantsAssumption
  <1>2. until \in Times
    BY <1>1, TimesGiven
  <1>3. until <= fam.expires
    <2>1. fam.expires \in Int /\ now + AccessTTL \in Int
      BY <1>1, TimesGiven DEF Times
    <2> QED  BY <2>1, SmallerOf
  <1>4. fam.access \in [1..MaxRenewals -> Times] /\ fam.issued + 1 \in 1..MaxRenewals
    BY <1>1 DEF FamilyRows
  <1>5. WithTokens(fam) = [fam EXCEPT !.issued = fam.issued + 1, !.access = access]
    BY <1>1 DEF WithTokens, FamilyRows
  <1> HIDE DEF until
  <1>6. access \in [1..MaxRenewals -> Times]
    BY <1>2, <1>4
  <1>7. \A n \in 1..MaxRenewals : access[n] <= fam.expires
    BY <1>3, <1>4
  <1> HIDE DEF access
  <1>8. WithTokens(fam) \in FamilyRows
    <2>1. \A i \in 0..MaxRenewals, a \in [1..MaxRenewals -> Times] :
             [fam EXCEPT !.issued = i, !.access = a] \in FamilyRows
      BY DEF FamilyRows
    <2>2. fam.issued + 1 \in 0..MaxRenewals
      BY <1>4
    <2> QED  BY <1>5, <1>6, <2>1, <2>2
  <1>9. WithTokens(fam).access = access /\ WithTokens(fam).issued = fam.issued + 1
    BY <1>5 DEF FamilyRows
  <1>10. /\ WithTokens(fam).state = fam.state /\ WithTokens(fam).expires = fam.expires
         /\ WithTokens(fam).version = fam.version /\ WithTokens(fam).session = fam.session
         /\ WithTokens(fam).born = fam.born /\ WithTokens(fam).used = fam.used
    BY <1>5 DEF FamilyRows
  <1> QED  BY <1>7, <1>8, <1>9, <1>10

(* A family begins with one pair of tokens, within every lifetime it hangs on. *)
LEMMA FoundedRow ==
    ASSUME GrantsAssumption, GrantsInv, NEW row, row.version \in 0..MaxVersion,
           row.session \in Browsers \cup {NoSession}
    PROVE  /\ Founded(row) \in FamilyRows /\ Founded(row).state = "live"
           /\ Founded(row).version = row.version /\ Founded(row).session = row.session
           /\ Founded(row).issued = 1 /\ Founded(row).used = {}
           /\ \A n \in 1..MaxRenewals : Founded(row).access[n] <= Founded(row).expires
           /\ Founded(row).expires <= Founded(row).born + SessionTTL
           /\ Founded(row).expires <= KeyExpiry
           /\ row.session # NoSession =>
                 Founded(row).expires <= session[row.session].expires
  <1> DEFINE own == IF row.session = NoSession THEN now + SessionTTL
                    ELSE session[row.session].expires
             new == [NewFamily EXCEPT !.state = "live", !.expires = FamilyExpiry(row),
                         !.born = now, !.version = row.version, !.session = row.session]
  <1>1. now \in 0..LastTick /\ now \in Int /\ SessionTTL \in Nat /\ KeyExpiry \in Int
        /\ MaxRenewals \in Nat \ {0}
    BY DEF GrantsInv, RowsTyped, GrantsAssumption
  <1>2. own \in Times /\ now \in Times /\ now + SessionTTL \in Times
    <2>1. row.session # NoSession => session[row.session].expires \in Times
      BY DEF GrantsInv, RowsTyped, SessionRows
    <2> QED  BY <1>1, <2>1, TimesGiven
  <1> HIDE DEF own, new
  <1>3. own \in Int /\ 0 \in Times /\ \A e \in Times : e \in Int /\ 0 <= e
    <2>1. 0 \in Times /\ \A e \in Times : e \in Nat
      BY <1>1, TimesGiven
    <2> QED  BY <1>2, <2>1
  <1>4. /\ FamilyExpiry(row) = Smaller(Smaller(now + SessionTTL, KeyExpiry), own)
        /\ Smaller(now + SessionTTL, KeyExpiry) \in Times
    BY <1>1, <1>2, TimesGiven DEF FamilyExpiry, own
  <1>5. /\ FamilyExpiry(row) \in Times
        /\ FamilyExpiry(row) <= now + SessionTTL /\ FamilyExpiry(row) <= KeyExpiry
        /\ FamilyExpiry(row) <= own
    <2>1. /\ Smaller(now + SessionTTL, KeyExpiry) <= now + SessionTTL
          /\ Smaller(now + SessionTTL, KeyExpiry) <= KeyExpiry
      BY <1>1, SmallerOf
    <2>2. LET e == Smaller(now + SessionTTL, KeyExpiry)
          IN  Smaller(e, own) \in {e, own} /\ Smaller(e, own) <= e /\ Smaller(e, own) <= own
      BY <1>3, <1>4, SmallerOf
    <2>3. FamilyExpiry(row) \in Times
      BY <1>2, <1>4, <2>2
    <2>4. /\ FamilyExpiry(row) <= own
          /\ FamilyExpiry(row) <= Smaller(now + SessionTTL, KeyExpiry)
      BY <1>4, <2>2
    <2>5. /\ FamilyExpiry(row) \in Int /\ now + SessionTTL \in Int
          /\ Smaller(now + SessionTTL, KeyExpiry) \in Int
      BY <1>1, <1>3, <1>4, <2>3
    <2> QED  BY <1>1, <2>1, <2>3, <2>4, <2>5
  <1>6. /\ new \in FamilyRows /\ new.issued = 0 /\ new.used = {} /\ new.state = "live"
        /\ new.expires = FamilyExpiry(row) /\ new.born = now
        /\ new.version = row.version /\ new.session = row.session
        /\ \A n \in 1..MaxRenewals : new.access[n] = 0
    <2>1. NewFamily \in FamilyRows /\ 0 \in 0..MaxVersion
      BY <1>1, <1>3 DEF NewFamily, FamilyRows, GrantsAssumption
    <2>2. \A e, t \in Times, v \in 0..MaxVersion, b \in Browsers \cup {NoSession} :
             [NewFamily EXCEPT !.state = "live", !.expires = e, !.born = t, !.version = v,
                               !.session = b] \in FamilyRows
      BY <2>1 DEF FamilyRows
    <2>3. new \in FamilyRows
      BY <1>2, <1>5, <2>2 DEF new
    <2> QED  BY <2>3 DEF new, NewFamily
  <1>7. Founded(row) = WithTokens(new)
    BY DEF Founded, new
  <1>8. \A n \in 1..MaxRenewals : new.access[n] <= new.expires
    BY <1>3, <1>5, <1>6
  <1>9. row.session # NoSession => own = session[row.session].expires
    BY DEF own
  <1>10. new.issued < MaxRenewals
    BY <1>1, <1>6
  <1>11. /\ WithTokens(new) \in FamilyRows
         /\ WithTokens(new).issued = new.issued + 1
         /\ \A n \in 1..MaxRenewals : WithTokens(new).access[n] <= new.expires
         /\ WithTokens(new).state = new.state /\ WithTokens(new).expires = new.expires
         /\ WithTokens(new).version = new.version /\ WithTokens(new).session = new.session
         /\ WithTokens(new).born = new.born /\ WithTokens(new).used = new.used
    BY <1>1, <1>6, <1>8, <1>10, WithTokensRow
  <1> QED  BY <1>5, <1>6, <1>7, <1>9, <1>11

(* Founding a family on a row that was approved, once.                         *)
LEMMA FoundingKeeps ==
    ASSUME GrantsAssumption, GrantsInv, NEW f \in Families, family[f].state = "none",
           NEW row, row.version \in 0..MaxVersion, row.version <= version,
           row.session \in Browsers \cup {NoSession}, row.session = consent[f],
           row.session # NoSession => session[row.session].state # "none",
           family' = [family EXCEPT ![f] = Founded(row)],
           UNCHANGED <<now, version, session, reused, consent>>
    PROVE  /\ family' \in [Families -> FamilyRows]
           /\ \A g \in Families : g # f => family'[g] = family[g]
           /\ family'[f].state = "live"
           /\ LastRenews' /\ Lifetimes' /\ ReusedRevoked'
           /\ \A g \in Families :
                 /\ family'[g].version <= version
                 /\ family'[g].session # NoSession => session[family'[g].session].state # "none"
                 /\ family'[g].state # "none" => family'[g].session = consent[g]
  <1> DEFINE new == Founded(row)
  <1>1. /\ new \in FamilyRows /\ new.state = "live"
        /\ new.version = row.version /\ new.session = row.session
        /\ new.issued = 1 /\ new.used = {}
        /\ \A n \in 1..MaxRenewals : new.access[n] <= new.expires
        /\ new.expires <= new.born + SessionTTL
        /\ new.expires <= KeyExpiry
        /\ row.session # NoSession => new.expires <= session[row.session].expires
    BY FoundedRow
  <1>2. family' = [family EXCEPT ![f] = new]
    OBVIOUS
  <1> HIDE DEF new
  <1>3. /\ family' \in [Families -> FamilyRows]
        /\ \A g \in Families : family'[g] = IF g = f THEN new ELSE family[g]
    BY <1>1, <1>2 DEF GrantsInv, RowsTyped
  <1>4. LastRenews' /\ Lifetimes'
    BY <1>1, <1>3 DEF GrantsInv, LastRenews, Lifetimes
  <1>5. ReusedRevoked'
    BY <1>3 DEF GrantsInv, RowsTyped, ReusedRevoked
  <1> QED
    BY <1>1, <1>3, <1>4, <1>5 DEF GrantsInv, NoFutureKeys, SessionsOpened, Consents

LEMMA PollDeviceKeeps ==
    ASSUME GrantsAssumption, GrantsInv, NEW d \in Devices, PollDevice(d)
    PROVE  GrantsInv' /\ family[d].state = "none"
  <1>1. pending[d].status = "approved" /\ family[d].state = "none" /\ d \in Families
    BY DEF PollDevice, Answerable, GrantsInv, RowsTyped, FamilyRows, WrittenOnce, Families
  <1>2. /\ pending[d].version \in 0..MaxVersion /\ pending[d].version <= version
        /\ pending[d].session \in Browsers \cup {NoSession} /\ pending[d].session = consent[d]
        /\ pending[d].session # NoSession => session[pending[d].session].state # "none"
    BY <1>1 DEF GrantsInv, RowsTyped, PendingRows, NoFutureKeys, SessionsOpened, Consents
  <1>3. /\ pending' \in [Browsers \cup Devices -> PendingRows]
        /\ pending'[d].status = "consumed"
        /\ \A h \in Browsers \cup Devices :
                 /\ pending'[h].version = pending[h].version
                 /\ pending'[h].session = pending[h].session
                 /\ h # d => pending'[h].status = pending[h].status
    BY ConsumedRow DEF PollDevice
  <1>4. /\ family' \in [Families -> FamilyRows]
        /\ \A g \in Families : g # d => family'[g] = family[g]
        /\ family'[d].state = "live"
        /\ LastRenews' /\ Lifetimes' /\ ReusedRevoked'
        /\ \A g \in Families :
              /\ family'[g].version <= version
              /\ family'[g].session # NoSession => session[family'[g].session].state # "none"
              /\ family'[g].state # "none" => family'[g].session = consent[g]
    BY <1>1, <1>2, FoundingKeeps DEF PollDevice
  <1>5. RowsTyped'
    BY <1>3, <1>4 DEF PollDevice, GrantsInv, RowsTyped
  <1>6. WrittenOnce' /\ SessionsOpened' /\ NoFutureKeys' /\ Consents'
    BY <1>1, <1>3, <1>4 DEF PollDevice, GrantsInv, WrittenOnce, SessionsOpened, NoFutureKeys,
                            Consents, Families, GrantsAssumption
  <1> QED  BY <1>1, <1>4, <1>5, <1>6 DEF GrantsInv

LEMMA ExchangeCodeKeeps ==
    ASSUME GrantsAssumption, GrantsInv, NEW c \in Codes, ExchangeCode(c)
    PROVE  GrantsInv' /\ family[c].state = "none"
  <1>1. code[c].state = "issued" /\ family[c].state = "none" /\ c \in Families
    BY DEF ExchangeCode, GrantsInv, RowsTyped, FamilyRows, WrittenOnce, Families
  <1>2. /\ code[c].version \in 0..MaxVersion /\ code[c].version <= version
        /\ code[c].session \in Browsers \cup {NoSession} /\ code[c].session = consent[c]
        /\ code[c].session # NoSession => session[code[c].session].state # "none"
    BY <1>1 DEF GrantsInv, RowsTyped, CodeRows, NoFutureKeys, SessionsOpened, Consents
  <1>3. [code[c] EXCEPT !.state = "consumed"] \in CodeRows
    BY DEF GrantsInv, RowsTyped, CodeRows
  <1>4. code' = [code EXCEPT ![c] = [code[c] EXCEPT !.state = "consumed"]]
    BY DEF ExchangeCode, GrantsInv, RowsTyped
  <1>5. /\ code' \in [Codes -> CodeRows] /\ code'[c].state = "consumed"
        /\ \A a \in Codes :
              /\ code'[a].version = code[a].version /\ code'[a].session = code[a].session
              /\ a # c => code'[a].state = code[a].state
    BY <1>3, <1>4 DEF GrantsInv, RowsTyped, CodeRows
  <1>6. /\ family' \in [Families -> FamilyRows]
        /\ \A g \in Families : g # c => family'[g] = family[g]
        /\ family'[c].state = "live"
        /\ LastRenews' /\ Lifetimes' /\ ReusedRevoked'
        /\ \A g \in Families :
              /\ family'[g].version <= version
              /\ family'[g].session # NoSession => session[family'[g].session].state # "none"
              /\ family'[g].state # "none" => family'[g].session = consent[g]
    BY <1>1, <1>2, FoundingKeeps DEF ExchangeCode
  <1>7. RowsTyped'
    BY <1>5, <1>6 DEF ExchangeCode, GrantsInv, RowsTyped
  <1>8. WrittenOnce' /\ SessionsOpened' /\ NoFutureKeys' /\ Consents'
    BY <1>1, <1>5, <1>6 DEF ExchangeCode, GrantsInv, WrittenOnce, SessionsOpened, NoFutureKeys,
                            Consents, Families, GrantsAssumption
  <1> QED  BY <1>1, <1>6, <1>7, <1>8 DEF GrantsInv

(* A family that is revoked stays as it was otherwise.                         *)
LEMMA RevokingKeeps ==
    ASSUME GrantsAssumption, GrantsInv, NEW f \in Families, family[f].state # "none",
           family' = [family EXCEPT ![f].state = "revoked"],
           reused' \in {reused, reused \cup {f}},
           UNCHANGED <<now, version, pending, session, code, consent>>
    PROVE  GrantsInv'
  <1>1. [family[f] EXCEPT !.state = "revoked"] \in FamilyRows
    BY DEF GrantsInv, RowsTyped, FamilyRows
  <1>2. family' = [family EXCEPT ![f] = [family[f] EXCEPT !.state = "revoked"]]
    BY DEF GrantsInv, RowsTyped
  <1>3. RowsTyped'
    BY <1>1, <1>2 DEF GrantsInv, RowsTyped
  <1>4. \A g \in Families :
           /\ family'[g].version = family[g].version /\ family'[g].session = family[g].session
           /\ family'[g].used = family[g].used /\ family'[g].issued = family[g].issued
           /\ family'[g].access = family[g].access /\ family'[g].expires = family[g].expires
           /\ family'[g].born = family[g].born
           /\ g # f => family'[g].state = family[g].state
    BY <1>2 DEF GrantsInv, RowsTyped, FamilyRows
  <1>5. family'[f].state = "revoked"
    BY <1>2 DEF GrantsInv, RowsTyped, FamilyRows
  <1>6. WrittenOnce' /\ SessionsOpened' /\ NoFutureKeys' /\ Consents'
    BY <1>4, <1>5 DEF GrantsInv, WrittenOnce, SessionsOpened, NoFutureKeys, Consents, Families
  <1>7. LastRenews' /\ Lifetimes'
    BY <1>4, <1>5 DEF GrantsInv, LastRenews, Lifetimes
  <1>8. ReusedRevoked'
    BY <1>4, <1>5 DEF GrantsInv, ReusedRevoked, RowsTyped
  <1> QED  BY <1>3, <1>6, <1>7, <1>8 DEF GrantsInv

LEMMA RevocationKeeps ==
    ASSUME GrantsAssumption, GrantsInv, NEW f \in Families,
           \/ f \in Codes /\ ReplayCode(f)
           \/ \E n \in 1..MaxRenewals : ReplayRefresh(f, n)
           \/ RevokeGrant(f)
    PROVE  GrantsInv'
  <1>1. CASE f \in Codes /\ ReplayCode(f)
    <2>1. family[f].state # "none"
      BY <1>1 DEF ReplayCode, GrantsInv, WrittenOnce
    <2> QED  BY <1>1, <2>1, RevokingKeeps DEF ReplayCode
  <1>2. CASE \E n \in 1..MaxRenewals : ReplayRefresh(f, n)
    <2>1. PICK n \in 1..MaxRenewals : ReplayRefresh(f, n)
      BY <1>2
    <2>2. n \in 1..family[f].issued /\ family[f].issued \in 0..MaxRenewals
      BY <2>1 DEF ReplayRefresh, GrantsInv, LastRenews, RowsTyped, FamilyRows
    <2>3. family[f].issued > 0
      BY <2>2
    <2>4. family[f].state # "none"
      BY <2>3 DEF GrantsInv, WrittenOnce
    <2> QED  BY <2>1, <2>4, RevokingKeeps DEF ReplayRefresh
  <1>3. CASE RevokeGrant(f)
    BY <1>3, RevokingKeeps DEF RevokeGrant
  <1> QED  BY <1>1, <1>2, <1>3

LEMMA RefreshKeeps ==
    ASSUME GrantsAssumption, GrantsInv, NEW f \in Families, NEW n \in 1..MaxRenewals,
           Refresh(f, n)
    PROVE  GrantsInv'
  <1> DEFINE spent == [family[f] EXCEPT !.used = family[f].used \cup {n}]
             new == WithTokens(spent)
  <1>1. /\ family[f] \in FamilyRows /\ family[f].state = "live"
        /\ family[f].issued < MaxRenewals /\ family[f].issued \in 0..MaxRenewals
        /\ n \in 1..family[f].issued /\ n \notin family[f].used /\ now \in 0..LastTick
    BY DEF Refresh, FamilyLive, GrantsInv, RowsTyped, FamilyRows
  <1>2. /\ spent \in FamilyRows /\ spent.issued = family[f].issued
        /\ spent.state = family[f].state /\ spent.expires = family[f].expires
        /\ spent.version = family[f].version /\ spent.session = family[f].session
        /\ spent.born = family[f].born /\ spent.access = family[f].access
        /\ spent.used = family[f].used \cup {n}
    BY <1>1 DEF FamilyRows
  <1>3. /\ family' = [family EXCEPT ![f] = new]
        /\ UNCHANGED <<now, version, pending, session, code, reused, consent>>
    BY DEF Refresh
  <1>4. \A m \in 1..MaxRenewals : spent.access[m] <= spent.expires
    BY <1>2 DEF GrantsInv, Lifetimes
  <1> HIDE DEF spent
  <1>5. /\ new \in FamilyRows
        /\ new.issued = spent.issued + 1
        /\ \A m \in 1..MaxRenewals : new.access[m] <= spent.expires
        /\ new.state = spent.state /\ new.expires = spent.expires
        /\ new.version = spent.version /\ new.session = spent.session
        /\ new.born = spent.born /\ new.used = spent.used
    BY <1>1, <1>2, <1>4, WithTokensRow
  <1> HIDE DEF new
  <1>6. \A g \in Families : family'[g] = IF g = f THEN new ELSE family[g]
    BY <1>3 DEF GrantsInv, RowsTyped
  <1>7. RowsTyped'
    BY <1>3, <1>5 DEF GrantsInv, RowsTyped
  <1>8. LastRenews'
    <2>1. /\ family[f].used \subseteq 1..family[f].issued
          /\ \A m \in 1..family[f].issued : m \notin family[f].used => m = family[f].issued
      BY DEF GrantsInv, LastRenews
    <2>2. /\ new.used \subseteq 1..new.issued
          /\ \A m \in 1..new.issued : m \notin new.used => m = new.issued
      BY <1>1, <1>2, <1>5, <2>1
    <2> QED  BY <1>6, <2>2 DEF GrantsInv, LastRenews
  <1>9. Lifetimes'
    BY <1>1, <1>2, <1>3, <1>5, <1>6 DEF GrantsInv, Lifetimes
  <1>10. ReusedRevoked'
    BY <1>1, <1>3, <1>6 DEF GrantsInv, ReusedRevoked
  <1>11. WrittenOnce' /\ SessionsOpened' /\ NoFutureKeys' /\ Consents'
    BY <1>1, <1>2, <1>3, <1>5, <1>6
       DEF GrantsInv, WrittenOnce, SessionsOpened, NoFutureKeys, Consents, Families
  <1> QED  BY <1>7, <1>8, <1>9, <1>10, <1>11 DEF GrantsInv

LEMMA TimeKeeps ==
    ASSUME GrantsAssumption, GrantsInv, ChangeKeys \/ TickGrants \/ UNCHANGED grants_vars
    PROVE  GrantsInv'
  <1>1. /\ now' \in 0..LastTick /\ version' \in 0..MaxVersion /\ version <= version'
        /\ UNCHANGED <<pending, session, code, family, reused, consent>>
    BY DEF ChangeKeys, TickGrants, grants_vars, GrantsInv, RowsTyped, GrantsAssumption
  <1>2. RowsTyped'
    BY <1>1 DEF GrantsInv, RowsTyped
  <1>3. NoFutureKeys'
    BY <1>1 DEF GrantsInv, RowsTyped, NoFutureKeys, PendingRows, SessionRows, CodeRows,
                FamilyRows
  <1> QED
    BY <1>1, <1>2, <1>3 DEF GrantsInv, WrittenOnce, SessionsOpened, LastRenews, Lifetimes,
                            Consents, ReusedRevoked

LEMMA GrantsStep ==
    ASSUME GrantsAssumption, GrantsInv, [NextGrants]_grants_vars
    PROVE  GrantsInv'
  BY BeginKeeps, ApprovalKeeps, PollLoginKeeps, LogoutKeeps, AuthorizeCodeKeeps,
     PollDeviceKeeps, ExchangeCodeKeeps, RevocationKeeps, RefreshKeeps, TimeKeeps
     DEF NextGrants, Families

(* security/oauth.py and oauth_http.py, whatever is asked in what order: a     *)
(* consent, a session and a token are written once, only the last token of a   *)
(* family renews, none outlives what it derives from, and a reuse revokes.     *)
THEOREM GrantsInvariance == GrantsSpec => []GrantsInv
  BY GrantsInit, GrantsStep, GrantsAssumption, PTL DEF GrantsSpec

(* The rows of every kind keep their shapes, whatever is asked in what order.  *)
THEOREM GrantsAlwaysTyped == GrantsSpec => []GrantsTyped
  <1>1. GrantsInv => GrantsTyped
    <2> SUFFICES ASSUME GrantsInv PROVE GrantsTyped
      OBVIOUS
    <2>1. \A f \in Families :
             /\ family[f].state \in {"none", "live", "revoked"}
             /\ family[f].expires \in Times /\ family[f].born \in Times
             /\ family[f].version \in 0..MaxVersion
             /\ family[f].session \in Browsers \cup {NoSession}
             /\ family[f].issued \in 0..MaxRenewals
             /\ family[f].used \subseteq 1..family[f].issued
             /\ family[f].access \in [1..MaxRenewals -> Times]
      BY DEF GrantsInv, RowsTyped, FamilyRows, LastRenews
    <2>2. \A f \in Families : family[f].access \in [1..MaxRenewals -> 0..family[f].expires]
      <3> SUFFICES ASSUME NEW f \in Families
                   PROVE  family[f].access \in [1..MaxRenewals -> 0..family[f].expires]
        OBVIOUS
      <3>1. \A n \in 1..MaxRenewals : family[f].access[n] <= family[f].expires
        BY DEF GrantsInv, Lifetimes
      <3>2. \A e \in Times : e \in Nat
        BY TimesGiven, GrantsAssumption DEF GrantsInv, RowsTyped
      <3>3. \A n \in 1..MaxRenewals : family[f].access[n] \in Times
        BY <2>1
      <3>4. \A n \in 1..MaxRenewals : family[f].access[n] \in 0..family[f].expires
        BY <2>1, <3>1, <3>2, <3>3
      <3> QED  BY <2>1, <3>4
    <2> QED
      BY <2>1, <2>2 DEF GrantsInv, RowsTyped, PendingRows, SessionRows, CodeRows, GrantsTyped
  <1> QED  BY <1>1, GrantsInvariance, PTL

(* A refresh token renews one grant at most, its reuse ends the family, and no *)
(* grant outlives its login, its session or the key: what exchange(), refresh()*)
(* and require_source() keep together.                                         *)
THEOREM GrantsAlwaysSound == GrantsSpec => []GrantsSound
  <1>1. GrantsInv => GrantsSound
    <2> SUFFICES ASSUME GrantsInv PROVE GrantsSound
      OBVIOUS
    <2>1. OneRenewal
      BY DEF GrantsInv, LastRenews, OneRenewal
    <2>2. ReuseEndsFamily
      BY DEF GrantsInv, ReusedRevoked, ReuseEndsFamily, FamilyLive
    <2>3. LifetimeHolds
      <3> SUFFICES ASSUME NEW f \in Families, NEW n \in 1..MaxRenewals, Accepted(f, n)
                   PROVE  /\ now < family[f].born + SessionTTL /\ now < KeyExpiry
                          /\ \A b \in Browsers :
                                family[f].session = b => now < session[b].expires
        BY DEF LifetimeHolds
      <3>1. /\ now < family[f].expires /\ family[f].state # "none"
            /\ now < KeyExpiry
            /\ family[f].session # NoSession => SessionLive(family[f].session)
        BY DEF Accepted, FamilyLive, SourceLive, KeyLive
      <3>2. /\ family[f].expires \in Nat /\ family[f].born \in Nat /\ SessionTTL \in Nat
            /\ now \in Nat
        BY TimesGiven, GrantsAssumption
           DEF GrantsInv, RowsTyped, FamilyRows, GrantsAssumption
      <3>3. family[f].expires <= family[f].born + SessionTTL
        BY <3>1 DEF GrantsInv, Lifetimes
      <3>4. now < family[f].born + SessionTTL
        BY <3>1, <3>2, <3>3
      <3> QED  BY <3>1, <3>4, GrantsAssumption DEF SessionLive, GrantsAssumption
    <2>4. LogoutEndsGrants
      BY DEF GrantsInv, Consents, LogoutEndsGrants, FamilyLive, SourceLive, SessionLive
    <2> QED  BY <2>1, <2>2, <2>3, <2>4 DEF GrantsSound
  <1> QED  BY <1>1, GrantsInvariance, PTL

(* Time and the keys only move on, and no row is opened a second time.         *)
Onward ==
    /\ now <= now' /\ version <= version'
    /\ \A b \in Browsers : session[b].state # "none" =>
          /\ session'[b].state \in {session[b].state, "revoked"}
          /\ session'[b].expires = session[b].expires /\ session'[b].version = session[b].version
    /\ \A f \in Families : family[f].state # "none" =>
          /\ family'[f].state \in {family[f].state, "revoked"}
          /\ family'[f].expires = family[f].expires /\ family'[f].version = family[f].version
          /\ family'[f].session = family[f].session

LEMMA StepsOnward ==
    ASSUME GrantsAssumption, GrantsInv, [NextGrants]_grants_vars
    PROVE  Onward
  <1>1. now \in Nat /\ version \in Nat
    BY DEF GrantsInv, RowsTyped, GrantsAssumption
  <1>2. CASE UNCHANGED <<session, family>> /\ (ChangeKeys \/ TickGrants \/ UNCHANGED <<now, version>>)
    BY <1>1, <1>2 DEF ChangeKeys, TickGrants, Onward
  <1>3. ASSUME NEW b \in Browsers, PollLogin(b) \/ Logout(b)  PROVE Onward
    <2>1. PollLogin(b) => session[b].state = "none"
      BY DEF PollLogin, Answerable, GrantsInv, RowsTyped, SessionRows, WrittenOnce
    <2>2. \A a \in Browsers : a # b => session'[a] = session[a]
      BY <1>3 DEF PollLogin, Logout, GrantsInv, RowsTyped
    <2>3. Logout(b) => /\ session'[b].state = "revoked"
                       /\ session'[b].expires = session[b].expires
                       /\ session'[b].version = session[b].version
      BY DEF Logout, GrantsInv, RowsTyped, SessionRows
    <2>4. now' = now /\ version' = version /\ family' = family
      BY <1>3 DEF PollLogin, Logout
    <2> QED  BY <1>1, <1>3, <2>1, <2>2, <2>3, <2>4 DEF Onward
  <1>4. ASSUME NEW f \in Families,
               \/ f \in Devices /\ PollDevice(f)
               \/ f \in Codes /\ ExchangeCode(f)
        PROVE  Onward
    <2>1. family[f].state = "none"
      BY <1>4, PollDeviceKeeps, ExchangeCodeKeeps
    <2>2. \A g \in Families : g # f => family'[g] = family[g]
      BY <1>4 DEF PollDevice, ExchangeCode, GrantsInv, RowsTyped
    <2>3. now' = now /\ version' = version /\ session' = session
      BY <1>4 DEF PollDevice, ExchangeCode
    <2> QED  BY <1>1, <2>1, <2>2, <2>3 DEF Onward
  <1>5. ASSUME NEW f \in Families, family' = [family EXCEPT ![f].state = "revoked"],
               UNCHANGED <<now, version, session>>
        PROVE  Onward
    <2>1. \A g \in Families :
             /\ family'[g].expires = family[g].expires /\ family'[g].version = family[g].version
             /\ family'[g].session = family[g].session
             /\ family'[g].state \in {family[g].state, "revoked"}
      BY <1>5 DEF GrantsInv, RowsTyped, FamilyRows
    <2> QED  BY <1>1, <1>5, <2>1 DEF Onward
  <1>6. ASSUME NEW f \in Families, NEW n \in 1..MaxRenewals, Refresh(f, n)  PROVE Onward
    <2> DEFINE spent == [family[f] EXCEPT !.used = family[f].used \cup {n}]
    <2>1. family' = [family EXCEPT ![f] = WithTokens(spent)]
          /\ UNCHANGED <<now, version, session>>
      BY <1>6 DEF Refresh
    <2>2. /\ spent \in FamilyRows /\ spent.issued = family[f].issued
          /\ spent.state = family[f].state /\ spent.expires = family[f].expires
          /\ spent.version = family[f].version /\ spent.session = family[f].session
          /\ spent.access = family[f].access
      BY DEF GrantsInv, RowsTyped, FamilyRows
    <2>3. \A m \in 1..MaxRenewals : spent.access[m] <= spent.expires
      BY <2>2 DEF GrantsInv, Lifetimes
    <2>4. spent.issued < MaxRenewals /\ now \in 0..LastTick
      BY <1>6, <2>2 DEF Refresh, GrantsInv, RowsTyped
    <2> HIDE DEF spent
    <2>5. /\ WithTokens(spent).state = spent.state /\ WithTokens(spent).expires = spent.expires
          /\ WithTokens(spent).version = spent.version
          /\ WithTokens(spent).session = spent.session
      BY <2>2, <2>3, <2>4, WithTokensRow
    <2>6. \A g \in Families : family'[g] = IF g = f THEN WithTokens(spent) ELSE family[g]
      BY <2>1 DEF GrantsInv, RowsTyped
    <2> QED  BY <1>1, <2>1, <2>2, <2>5, <2>6 DEF Onward
  <1>7. ASSUME NEW f \in Families,
               \/ f \in Codes /\ ReplayCode(f)
               \/ \E n \in 1..MaxRenewals : ReplayRefresh(f, n)
               \/ RevokeGrant(f)
        PROVE  Onward
    BY <1>5, <1>7 DEF ReplayCode, ReplayRefresh, RevokeGrant
  <1> QED
    BY <1>2, <1>3, <1>4, <1>6, <1>7
       DEF NextGrants, Begin, Approve, ConsentDevice, AuthorizeCode, ChangeKeys, TickGrants,
           grants_vars, Families

(* What has ended stays ended.                                                 *)
LEMMA EndedStaysEnded ==
    ASSUME GrantsAssumption, GrantsInv, Onward, GrantsInv', NEW f \in Families,
           family[f].state # "none"
    PROVE  family'[f].state # "none" /\ (FamilyLive(f)' => FamilyLive(f))
  <1>1. /\ now \in Nat /\ now' \in Nat /\ version \in Nat /\ version' \in Nat /\ KeyExpiry \in Nat
        /\ family[f].version \in Nat /\ family[f].version <= version /\ family[f].expires \in Nat
    BY TimesGiven, SMTT(30) DEF GrantsInv, RowsTyped, FamilyRows, GrantsAssumption, NoFutureKeys
  <1>2. /\ family'[f].state \in {family[f].state, "revoked"}
        /\ family'[f].expires = family[f].expires /\ family'[f].version = family[f].version
        /\ family'[f].session = family[f].session /\ now <= now' /\ version <= version'
    BY DEF Onward
  <1>3. \A v \in Nat : v <= version /\ version' = v => version = v
    BY <1>1, <1>2
  <1>4. \A b \in Browsers :
           session[b].state # "none" /\ SessionLive(b)' => SessionLive(b)
    <2> SUFFICES ASSUME NEW b \in Browsers, session[b].state # "none", SessionLive(b)'
                 PROVE  SessionLive(b)
      OBVIOUS
    <2>1. /\ session[b].version \in Nat /\ session[b].version <= version
          /\ session[b].expires \in Nat
      <3>1. session[b].version \in 0..MaxVersion /\ session[b].expires \in Times
        BY DEF GrantsInv, RowsTyped, SessionRows
      <3>2. session[b].expires \in Nat
        BY <3>1, TimesGiven DEF GrantsInv, RowsTyped
      <3> QED  BY <3>1, <3>2 DEF GrantsInv, NoFutureKeys
    <2>2. /\ session'[b].state \in {session[b].state, "revoked"}
          /\ session'[b].expires = session[b].expires /\ session'[b].version = session[b].version
      BY DEF Onward
    <2>3. /\ session'[b].state = "open" /\ now' < session'[b].expires
          /\ version' = session'[b].version /\ now' < KeyExpiry
      BY DEF SessionLive, KeyLive
    <2> QED  BY <1>1, <1>2, <1>3, <2>1, <2>2, <2>3 DEF SessionLive, KeyLive
  <1>5. ASSUME FamilyLive(f)'  PROVE FamilyLive(f)
    <2>1. /\ family'[f].state = "live" /\ now' < family'[f].expires
          /\ version' = family'[f].version /\ now' < KeyExpiry
          /\ family'[f].session # NoSession => SessionLive(family[f].session)'
      BY <1>5 DEF FamilyLive, SourceLive, KeyLive
    <2>2. KeyLive(family[f].version)
      BY <1>1, <1>2, <1>3, <2>1 DEF KeyLive
    <2>3. ASSUME family[f].session # NoSession  PROVE SessionLive(family[f].session)
      <3>1. PICK b \in Browsers : b = family[f].session
        BY <2>3 DEF GrantsInv, RowsTyped, FamilyRows
      <3>2. session[b].state # "none"
        BY <2>3, <3>1 DEF GrantsInv, SessionsOpened
      <3>3. SessionLive(b)'
        BY <1>2, <2>1, <2>3, <3>1 DEF SessionLive, KeyLive
      <3> QED  BY <1>4, <3>1, <3>2, <3>3
    <2> QED  BY <1>1, <1>2, <2>1, <2>2, <2>3 DEF FamilyLive, SourceLive
  <1> QED  BY <1>2, <1>5

(* A family begins once and what has ended stays ended, whatever is presented  *)
(* again and whenever: the service's rows implement GrantPromise.              *)
THEOREM GrantsImplementPromise == GrantsSpec => GrantsKeepPromise
  <1> DEFINE Stage(f) == IF family[f].state = "none" THEN "none"
                         ELSE IF FamilyLive(f) THEN "live" ELSE "over"
             Stages == [f \in Families |-> Stage(f)]
  <1>1. InitGrants => TheGrant!PromiseInit
    BY DEF InitGrants, NewFamily, TheGrant!PromiseInit
  <1>2. GrantsInv /\ GrantsInv' /\ [NextGrants]_grants_vars => [TheGrant!PromiseNext]_Stages
    <2> SUFFICES ASSUME GrantsInv, GrantsInv', [NextGrants]_grants_vars
                 PROVE  TheGrant!PromiseNext
      OBVIOUS
    <2>1. \A f \in Families : Stage(f)' \in TheGrant!After[Stage(f)]
      BY StepsOnward, EndedStaysEnded, GrantsAssumption DEF TheGrant!After
    <2>2. DOMAIN Stages' = Families /\ \A f \in Families : Stages'[f] = Stage(f)'
      OBVIOUS
    <2> QED  BY <2>1, <2>2 DEF TheGrant!PromiseNext
  <1> QED
    BY <1>1, <1>2, GrantsInvariance, PTL DEF GrantsSpec, GrantsKeepPromise, TheGrant!PromiseSpec
-----------------------------------------------------------------------------
(* Recovery.                                                                   *)

Databases ==
    [generation : Nat, gate : 0..MaxProofs, receipt : [proof : Nat, generation : Nat],
     data : 0..MaxData]
Sites ==
    [home : 0..MaxRestores, ready : BOOLEAN, marker : BOOLEAN, opened : Nat, fresh : Nat]
SignedProofs ==
    [id : 0..MaxProofs, backup : 0..MaxProofs, data : 0..MaxData, generation : Nat]
Processes ==
    [phase : {"down", "loading", "up", "checked"}, home : Nat, generation : Nat,
     stale : BOOLEAN, quarantined : BOOLEAN, since : Nat]

RecoveryShapes ==
    /\ database \in Databases /\ site \in Sites /\ proof \in SignedProofs
    /\ copies \in [1..MaxProofs -> Databases]
    /\ process \in [Procs -> Processes]
    /\ promoter \in {"idle", "recorded", "unlinked"}

(* Every generation anyone knows was given out before the next fresh one.      *)
OldGenerations ==
    /\ database.generation < site.fresh /\ proof.generation < site.fresh
    /\ \A n \in 1..MaxProofs : copies[n].generation < site.fresh
    /\ \A p \in Procs : process[p].generation < site.fresh

(* A copy is older than the proof made for it, and open.                       *)
CopiesProved ==
    /\ proof.backup = proof.id /\ database.receipt.proof <= proof.id
    /\ \A n \in 1..MaxProofs : copies[n].gate = 0 /\ copies[n].receipt.proof < n
    /\ proof.id > 0 => /\ copies[proof.id].data = proof.data
                       /\ copies[proof.id].generation = proof.generation

(* Behind the gate everything is as proved; only the receipt moves it on.      *)
GatedAsProved ==
    /\ ~Gated => site.opened = site.home /\ site.ready /\ ~site.marker
    /\ Gated => /\ database.gate = proof.id /\ database.data = proof.data
                /\ site.opened <= site.home
                /\ database.generation =
                      IF database.receipt.proof = proof.id THEN database.receipt.generation
                                                           ELSE proof.generation
    /\ promoter # "idle" => Gated /\ site.ready
    /\ promoter # "idle" => database.receipt.proof = proof.id
    /\ promoter = "unlinked" => ~site.marker

(* Whoever holds the generation of a receipt was started after it, and what    *)
(* was loaded behind the gate is in quarantine.                                *)
HoldersStartedLate ==
    /\ \A p \in Procs : process[p].phase = "checked" => ~process[p].quarantined
    /\ (~Gated \/ Pending) =>
          \A p \in Procs :
              process[p].phase # "down" /\ process[p].generation = database.generation =>
                  /\ process[p].home = site.home
                  /\ process[p].phase # "loading" =>
                        process[p].quarantined \/ (~Gated /\ process[p].since = site.opened)

RecoveryInv ==
    RecoveryShapes /\ OldGenerations /\ CopiesProved /\ GatedAsProved /\ HoldersStartedLate

LEMMA ShapesOpened ==
    ASSUME RecoveryAssumption, RecoveryInv
    PROVE  /\ database \in Databases /\ site \in Sites /\ proof \in SignedProofs
           /\ copies \in [1..MaxProofs -> Databases] /\ process \in [Procs -> Processes]
           /\ promoter \in {"idle", "recorded", "unlinked"}
           /\ MaxProofs \in Nat /\ MaxRestores \in Nat /\ MaxData \in Nat
           /\ proof.id \in 0..MaxProofs /\ proof.generation \in Nat /\ proof.backup = proof.id
           /\ proof.data \in 0..MaxData
           /\ site.home \in 0..MaxRestores /\ site.fresh \in Nat /\ site.opened \in Nat
           /\ database.gate \in 0..MaxProofs /\ database.generation \in Nat
           /\ database.receipt \in [proof : Nat, generation : Nat]
           /\ database.receipt.proof \in Nat
           /\ \A n \in 1..MaxProofs : copies[n] \in Databases /\ copies[n].generation \in Nat
                                      /\ copies[n].receipt.proof \in Nat
           /\ \A p \in Procs : process[p] \in Processes /\ process[p].generation \in Nat
                               /\ process[p].home \in Nat
  <1>1. /\ database \in Databases /\ site \in Sites /\ proof \in SignedProofs
        /\ copies \in [1..MaxProofs -> Databases] /\ process \in [Procs -> Processes]
        /\ promoter \in {"idle", "recorded", "unlinked"} /\ proof.backup = proof.id
    BY DEF RecoveryInv, RecoveryShapes, CopiesProved
  <1>2. MaxProofs \in Nat /\ MaxRestores \in Nat /\ MaxData \in Nat
    BY DEF RecoveryAssumption
  <1>3. /\ proof.id \in 0..MaxProofs /\ proof.generation \in Nat /\ proof.data \in 0..MaxData
        /\ site.home \in 0..MaxRestores /\ site.fresh \in Nat /\ site.opened \in Nat
    BY <1>1 DEF Sites, SignedProofs
  <1>4. \A d \in Databases :
           /\ d.gate \in 0..MaxProofs /\ d.generation \in Nat
           /\ d.receipt \in [proof : Nat, generation : Nat] /\ d.receipt.proof \in Nat
    BY DEF Databases
  <1>5. \A p \in Procs : process[p] \in Processes /\ process[p].generation \in Nat
                         /\ process[p].home \in Nat
    BY <1>1 DEF Processes
  <1> QED  BY <1>1, <1>2, <1>3, <1>4, <1>5

LEMMA RecoveryInit == ASSUME RecoveryAssumption, InitRecovery PROVE RecoveryInv
  <1> USE DEF RecoveryAssumption, InitRecovery, NoReceipt, NoProof, Down
  <1>1. RecoveryShapes
    BY DEF RecoveryShapes, Databases, Processes, Sites, SignedProofs
  <1> QED
    BY <1>1 DEF RecoveryInv, OldGenerations, CopiesProved, GatedAsProved, HoldersStartedLate,
                Gated, Pending

(* What the steps of a restore and a promotion do to the installation.         *)
LEMMA SiteMoves ==
    ASSUME RecoveryAssumption, NEW old \in Sites, NEW new,
           \/ old.home < MaxRestores
                 /\ new = [old EXCEPT !.home = @ + 1, !.ready = FALSE, !.marker = FALSE]
           \/ new = [old EXCEPT !.fresh = @ + 1]
           \/ new = [old EXCEPT !.marker = FALSE]
           \/ new = [old EXCEPT !.opened = old.home]
    PROVE  new \in Sites
  <1>1. /\ old.home \in 0..MaxRestores /\ old.fresh \in Nat /\ MaxRestores \in Nat
    BY DEF Sites, RecoveryAssumption
  <1>2. CASE old.home < MaxRestores
                /\ new = [old EXCEPT !.home = @ + 1, !.ready = FALSE, !.marker = FALSE]
    <2>1. old.home + 1 \in 0..MaxRestores
      BY <1>1, <1>2
    <2>2. \A h \in 0..MaxRestores :
             [old EXCEPT !.home = h, !.ready = FALSE, !.marker = FALSE] \in Sites
      BY DEF Sites
    <2> QED  BY <1>2, <2>1, <2>2
  <1>3. CASE new = [old EXCEPT !.fresh = @ + 1]
    BY <1>1, <1>3 DEF Sites
  <1>4. CASE new = [old EXCEPT !.marker = FALSE]
    BY <1>4 DEF Sites
  <1>5. CASE new = [old EXCEPT !.opened = old.home]
    BY <1>1, <1>5 DEF Sites
  <1> QED  BY <1>2, <1>3, <1>4, <1>5

LEMMA BackupKeeps ==
    ASSUME RecoveryAssumption, RecoveryInv, BackupAndProve PROVE RecoveryInv'
  <1> USE ShapesOpened
  <1>1. /\ ~Gated /\ site.ready /\ proof.id + 1 \in 1..MaxProofs
        /\ UNCHANGED <<database, site, process, promoter>>
        /\ copies' = [copies EXCEPT ![proof.id + 1] = database]
        /\ proof' = [id |-> proof.id + 1, backup |-> proof.id + 1,
                     data |-> database.data, generation |-> database.generation]
    BY DEF BackupAndProve
  <1>2. database.data \in 0..MaxData
    BY DEF Databases
  <1>3. \A n \in 1..MaxProofs : copies'[n] = IF n = proof.id + 1 THEN database ELSE copies[n]
    BY <1>1
  <1>4. proof' \in SignedProofs
    BY <1>1, <1>2 DEF SignedProofs
  <1>5. RecoveryShapes'
    BY <1>1, <1>4 DEF RecoveryInv, RecoveryShapes
  <1>6. OldGenerations'
    BY <1>1, <1>3 DEF RecoveryInv, OldGenerations
  <1>7. CopiesProved'
    BY <1>1, <1>3 DEF RecoveryInv, CopiesProved, Gated
  <1>8. GatedAsProved'
    BY <1>1 DEF RecoveryInv, GatedAsProved, Gated
  <1>9. HoldersStartedLate'
    BY <1>1 DEF RecoveryInv, HoldersStartedLate, Gated, Pending
  <1> QED  BY <1>5, <1>6, <1>7, <1>8, <1>9 DEF RecoveryInv

LEMMA RestoreKeeps ==
    ASSUME RecoveryAssumption, RecoveryInv, RestoreDatabase \/ RestoreFiles PROVE RecoveryInv'
  <1> USE ShapesOpened
  <1>1. CASE RestoreDatabase
    <2>1. /\ proof.id \in 1..MaxProofs /\ proof.backup = proof.id
          /\ site.home < MaxRestores /\ site.home \in Nat /\ promoter = "idle"
      BY <1>1 DEF RestoreDatabase, RecoveryInv, RecoveryShapes, CopiesProved, RecoveryAssumption
    <2>2. /\ database' \in Databases /\ database'.gate = proof.id
          /\ database'.generation = copies[proof.id].generation
          /\ database'.data = copies[proof.id].data
          /\ database'.receipt = copies[proof.id].receipt
      <3>1. database' = [copies[proof.id] EXCEPT !.gate = proof.id]
        BY <1>1, <2>1 DEF RestoreDatabase
      <3> QED  BY <2>1, <3>1 DEF Databases
    <2>3. /\ site' \in Sites
          /\ site'.home = site.home + 1 /\ site'.opened = site.opened /\ site'.fresh = site.fresh
      <3>1. site' = [site EXCEPT !.home = @ + 1, !.ready = FALSE, !.marker = FALSE]
        BY <1>1 DEF RestoreDatabase
      <3>2. site' \in Sites
        BY <2>1, <3>1, SiteMoves
      <3>3. DOMAIN site = {"home", "ready", "marker", "opened", "fresh"}
        BY DEF Sites
      <3> QED  BY <3>1, <3>2, <3>3
    <2>4. UNCHANGED <<copies, proof, process, promoter>>
      BY <1>1 DEF RestoreDatabase
    <2>5. RecoveryShapes'
      BY <2>2, <2>3, <2>4 DEF RecoveryInv, RecoveryShapes
    <2>6. Gated' /\ ~Pending'
      BY <2>1, <2>2, <2>4 DEF Gated, Pending, RecoveryInv, CopiesProved
    <2>7. OldGenerations' /\ CopiesProved'
      BY <2>1, <2>2, <2>3, <2>4, SMTT(30) DEF RecoveryInv, OldGenerations, CopiesProved
    <2>8. site.opened <= site.home /\ site.opened \in Nat
      BY <2>1 DEF RecoveryInv, RecoveryShapes, GatedAsProved
    <2>9. database'.generation = proof.generation /\ database'.data = proof.data
      BY <2>1, <2>2 DEF RecoveryInv, CopiesProved
    <2>10. GatedAsProved'
      BY <2>1, <2>2, <2>3, <2>4, <2>6, <2>8, <2>9 DEF RecoveryInv, GatedAsProved, Pending
    <2>11. HoldersStartedLate'
      BY <2>4, <2>6 DEF RecoveryInv, HoldersStartedLate
    <2> QED  BY <2>5, <2>7, <2>10, <2>11 DEF RecoveryInv
  <1>2. CASE RestoreFiles
    <2>1. Gated
      BY <1>2 DEF RestoreFiles, RecoveryInv, GatedAsProved
    <2>2. promoter = "idle"
      BY <1>2 DEF RestoreFiles, RecoveryInv, GatedAsProved
    <2>3. /\ site' \in Sites
          /\ site'.home = site.home /\ site'.opened = site.opened /\ site'.fresh = site.fresh
          /\ site'.ready
      <3>1. site' = [site EXCEPT !.marker = TRUE, !.ready = TRUE]
        BY <1>2 DEF RestoreFiles
      <3> QED  BY <3>1 DEF Sites
    <2>4. UNCHANGED <<database, copies, proof, process, promoter>>
      BY <1>2 DEF RestoreFiles
    <2>5. RecoveryShapes' /\ OldGenerations' /\ CopiesProved'
      BY <2>3, <2>4 DEF RecoveryInv, RecoveryShapes, OldGenerations, CopiesProved
    <2>6. GatedAsProved'
      BY <2>1, <2>2, <2>3, <2>4 DEF RecoveryInv, GatedAsProved, Gated
    <2>7. HoldersStartedLate'
      BY <2>1, <2>3, <2>4 DEF RecoveryInv, HoldersStartedLate, Gated, Pending
    <2> QED  BY <2>5, <2>6, <2>7 DEF RecoveryInv
  <1> QED  BY <1>1, <1>2

LEMMA RecordKeeps == ASSUME RecoveryAssumption, RecoveryInv, Record PROVE RecoveryInv'
  <1> USE ShapesOpened
  <1>1. /\ Gated /\ ~Pending /\ promoter = "idle" /\ proof.id > 0 /\ site.ready /\ AsProved
        /\ UNCHANGED <<copies, proof, process>> /\ promoter' = "recorded"
        /\ site.fresh \in Nat /\ proof.id \in Nat
    BY DEF Record
  <1>2. /\ database' \in Databases /\ database'.gate = database.gate
        /\ database'.generation = site.fresh /\ database'.data = database.data
        /\ database'.receipt.proof = proof.id /\ database'.receipt.generation = site.fresh
    <2>1. database' = [database EXCEPT !.generation = site.fresh,
                          !.receipt = [proof |-> proof.id, generation |-> site.fresh]]
      BY DEF Record
    <2> QED  BY <1>1, <2>1 DEF Databases
  <1>3. /\ site' \in Sites
        /\ site'.home = site.home /\ site'.opened = site.opened /\ site'.fresh = site.fresh + 1
        /\ site'.ready = site.ready /\ site'.marker = site.marker
    <2>1. site' = [site EXCEPT !.fresh = @ + 1]
      BY DEF Record
    <2>2. site' \in Sites
      BY <2>1, SiteMoves
    <2>3. DOMAIN site = {"home", "ready", "marker", "opened", "fresh"}
      BY DEF Sites
    <2> QED  BY <2>1, <2>2, <2>3
  <1>4. RecoveryShapes'
    BY <1>1, <1>2, <1>3 DEF RecoveryInv, RecoveryShapes
  <1>5. /\ proof.generation \in Nat /\ \A n \in 1..MaxProofs : copies[n].generation \in Nat
        /\ \A p \in Procs : process[p].generation \in Nat
    OBVIOUS
  <1>6. OldGenerations'
    <2>1. /\ proof.generation < site.fresh
          /\ \A n \in 1..MaxProofs : copies[n].generation < site.fresh
          /\ \A p \in Procs : process[p].generation < site.fresh
      BY DEF RecoveryInv, OldGenerations
    <2>2. copies' = copies /\ proof' = proof /\ process' = process
      BY <1>1
    <2>3. \A n \in 1..MaxProofs : copies'[n].generation < site'.fresh
      BY <1>1, <1>3, <1>5, <2>1, <2>2
    <2>4. \A p \in Procs : process'[p].generation < site'.fresh
      BY <1>1, <1>3, <1>5, <2>1, <2>2
    <2>5. database'.generation < site'.fresh /\ proof'.generation < site'.fresh
      BY <1>1, <1>2, <1>3, <1>5, <2>1, <2>2
    <2> QED  BY <2>3, <2>4, <2>5 DEF OldGenerations
  <1>7. CopiesProved'
    BY <1>1, <1>2 DEF RecoveryInv, CopiesProved
  <1>8. GatedAsProved'
    BY <1>1, <1>2, <1>3 DEF RecoveryInv, GatedAsProved, Gated
  <1>9. \A p \in Procs : process[p].generation # site.fresh
    BY <1>1, <1>5 DEF RecoveryInv, OldGenerations
  <1>10. HoldersStartedLate'
    BY <1>1, <1>2, <1>9 DEF RecoveryInv, HoldersStartedLate
  <1> QED  BY <1>4, <1>6, <1>7, <1>8, <1>10 DEF RecoveryInv

LEMMA PromoterKeeps ==
    ASSUME RecoveryAssumption, RecoveryInv, ResumeRecorded \/ Unlink \/ Open \/ PromoterEnds
    PROVE  RecoveryInv'
  <1> USE ShapesOpened
  <1>1. CASE ResumeRecorded \/ PromoterEnds
    <2>1. /\ UNCHANGED <<database, site, copies, proof, process>>
          /\ promoter' \in {"idle", "recorded"}
          /\ promoter' = "recorded" => Gated /\ site.ready /\ database.receipt.proof = proof.id
      BY <1>1 DEF ResumeRecorded, PromoterEnds, Resumable, Pending
    <2> QED
      BY <2>1 DEF RecoveryInv, RecoveryShapes, OldGenerations, CopiesProved, GatedAsProved,
                  HoldersStartedLate, Gated, Pending
  <1>2. CASE Unlink \/ Open
    <2>1. /\ Gated /\ site.ready /\ database.receipt.proof = proof.id
          /\ Open => ~site.marker /\ promoter = "unlinked"
          /\ UNCHANGED <<copies, proof, process>>
      BY <1>2 DEF Unlink, Open, RecoveryInv, GatedAsProved
    <2>2. /\ site' \in Sites
          /\ site'.home = site.home /\ site'.fresh = site.fresh /\ site'.ready
          /\ Unlink => site'.opened = site.opened
          /\ Open => site'.opened = site.home
          /\ ~site'.marker
      <3>1. \/ Unlink /\ site' = [site EXCEPT !.marker = FALSE]
            \/ Open /\ site' = [site EXCEPT !.opened = site.home]
        BY <1>2 DEF Unlink, Open
      <3>2. ~(Unlink /\ Open)
        BY DEF Unlink, Open
      <3>3. site' \in Sites
        BY <3>1, SiteMoves
      <3>4. DOMAIN site = {"home", "ready", "marker", "opened", "fresh"}
        BY DEF Sites
      <3>5. site.ready /\ (Open => ~site.marker)
        BY <2>1
      <3> QED  BY <3>1, <3>2, <3>3, <3>4, <3>5
    <2>3. /\ database' \in Databases /\ database'.generation = database.generation
          /\ database'.data = database.data /\ database'.receipt = database.receipt
          /\ Unlink => database'.gate = database.gate /\ promoter' = "unlinked"
          /\ Open => database'.gate = 0 /\ promoter' = "idle"
      <3>1. \/ Unlink /\ database' = database /\ promoter' = "unlinked"
            \/ Open /\ database' = [database EXCEPT !.gate = 0] /\ promoter' = "idle"
        BY <1>2 DEF Unlink, Open
      <3>2. ~(Unlink /\ Open)
        BY DEF Unlink, Open
      <3> QED  BY <3>1, <3>2 DEF Databases
    <2>4. RecoveryShapes'
      BY <1>2, <2>1, <2>2, <2>3 DEF RecoveryInv, RecoveryShapes
    <2>5. OldGenerations' /\ CopiesProved'
      BY <2>1, <2>2, <2>3 DEF RecoveryInv, OldGenerations, CopiesProved
    <2>6. GatedAsProved'
      BY <1>2, <2>1, <2>2, <2>3 DEF RecoveryInv, GatedAsProved, Gated
    <2>7. Pending
      BY <2>1 DEF Pending, RecoveryInv, GatedAsProved, Gated, RecoveryShapes, RecoveryAssumption
    <2>8. HoldersStartedLate'
      BY <1>2, <2>1, <2>2, <2>3, <2>7 DEF RecoveryInv, HoldersStartedLate, Gated, Pending
    <2> QED  BY <2>4, <2>5, <2>6, <2>8 DEF RecoveryInv
  <1> QED  BY <1>1, <1>2

(* Only processes move.                                                        *)
LEMMA ProcessKeeps ==
    ASSUME RecoveryAssumption, RecoveryInv, NEW p \in Procs,
           Capture(p) \/ Load(p) \/ Arrive(p) \/ Stop(p)
    PROVE  RecoveryInv'
  <1> USE ShapesOpened
  <1>1. UNCHANGED <<database, site, copies, proof, promoter>>
    BY DEF Capture, Load, Arrive, Stop
  <1>2. Down \in Processes /\ Down.generation = 0 /\ Down.phase = "down"
    BY DEF Down, Processes
  <1>3. PICK row \in Processes :
           /\ process' = [process EXCEPT ![p] = row]
           /\ row.generation \in {0, process[p].generation, database.generation}
           /\ row.phase = "checked" => ~row.quarantined
           /\ \/ row.phase = "down"
              \/ row.home = site.home /\ row.phase = "loading"
              \/ /\ row.home = process[p].home /\ row.generation = process[p].generation
                 /\ process[p].phase = "loading"
                 /\ row.quarantined \/ (~Gated /\ row.since = site.opened)
              \/ /\ row.home = process[p].home /\ row.generation = process[p].generation
                 /\ row.quarantined = process[p].quarantined /\ row.since = process[p].since
                 /\ process[p].phase \notin {"down", "loading"}
    <2>1. CASE Capture(p)
      <3> DEFINE row == [Down EXCEPT !.phase = "loading", !.home = site.home,
                                     !.generation = database.generation]
      <3>1. /\ row \in Processes /\ row.phase = "loading" /\ row.home = site.home
            /\ row.generation = database.generation
        <4>1. site.home \in Nat /\ database.generation \in Nat
          OBVIOUS
        <4> HIDE ShapesOpened
        <4> QED  BY <1>2, <4>1 DEF Processes
      <3>2. process' = [process EXCEPT ![p] = row]
        BY <2>1 DEF Capture
      <3> HIDE DEF row
      <3> QED  BY <3>1, <3>2
    <2>2. CASE Load(p)
      <3> DEFINE row == [process[p] EXCEPT !.phase = "up", !.quarantined = Gated \/ Marked(p),
                                           !.since = IF Gated THEN 0 ELSE site.opened]
      <3>1. (Gated \/ Marked(p)) \in BOOLEAN /\ (IF Gated THEN 0 ELSE site.opened) \in Nat
        BY DEF Gated, Marked
      <3>2. /\ row \in Processes /\ row.phase = "up" /\ row.home = process[p].home
            /\ row.generation = process[p].generation
            /\ row.quarantined = (Gated \/ Marked(p))
            /\ row.since = IF Gated THEN 0 ELSE site.opened
        BY <3>1 DEF Processes
      <3>3. process' = [process EXCEPT ![p] = row] \/ process' = [process EXCEPT ![p] = Down]
        BY <2>2 DEF Load
      <3>4. process[p].phase = "loading"
        BY <2>2 DEF Load
      <3> HIDE DEF row
      <3> QED  BY <1>2, <3>2, <3>3, <3>4
    <2>3. CASE Arrive(p)
      <3> DEFINE row == [process[p] EXCEPT !.phase = "checked"]
      <3>1. /\ row \in Processes /\ row.phase = "checked" /\ row.home = process[p].home
            /\ row.generation = process[p].generation /\ row.since = process[p].since
            /\ row.quarantined = process[p].quarantined
        BY DEF Processes
      <3>2. process' = [process EXCEPT ![p] = row]
        BY <2>3 DEF Arrive
      <3>3. process[p].phase = "up" /\ ~process[p].quarantined
        BY <2>3 DEF Arrive
      <3> HIDE DEF row
      <3> QED  BY <3>1, <3>2, <3>3
    <2>4. CASE Stop(p)
      BY <1>2, <2>4 DEF Stop
    <2> QED  BY <2>1, <2>2, <2>3, <2>4
  <1>4. \A q \in Procs : process'[q] = IF q = p THEN row ELSE process[q]
    BY <1>3
  <1>5. RecoveryShapes'
    BY <1>1, <1>3 DEF RecoveryInv, RecoveryShapes
  <1>6. OldGenerations'
    <2>1. 0 < site.fresh
      BY DEF RecoveryInv, OldGenerations
    <2> QED  BY <1>1, <1>3, <1>4, <2>1 DEF RecoveryInv, OldGenerations
  <1>7. CopiesProved' /\ GatedAsProved'
    BY <1>1 DEF RecoveryInv, CopiesProved, GatedAsProved, Gated
  <1>8. HoldersStartedLate'
    BY <1>1, <1>3, <1>4 DEF RecoveryInv, HoldersStartedLate, Gated, Pending
  <1> QED  BY <1>5, <1>6, <1>7, <1>8 DEF RecoveryInv

LEMMA ExecuteKeeps ==
    ASSUME RecoveryAssumption, RecoveryInv, NEW p \in Procs, Execute(p)
    PROVE  RecoveryInv'
  <1> USE ShapesOpened
  <1> DEFINE row == [process[p] EXCEPT !.phase = "up",
                        !.stale = process[p].stale \/ process[p].generation # database.generation]
  <1>1. /\ UNCHANGED <<site, copies, proof, promoter>> /\ process[p].phase = "checked"
        /\ process' = [process EXCEPT ![p] = row]
    BY DEF Execute
  <1>2. /\ row \in Processes /\ row.phase = "up" /\ row.home = process[p].home
        /\ row.generation = process[p].generation /\ row.since = process[p].since
        /\ row.quarantined = process[p].quarantined
    BY DEF Processes
  <1> HIDE DEF row
  <1>3. \A q \in Procs : process'[q] = IF q = p THEN row ELSE process[q]
    BY <1>1
  <1>4. /\ database' \in Databases /\ database'.gate = database.gate
        /\ database'.generation = database.generation /\ database'.receipt = database.receipt
        /\ Gated => database' = database
    <2>1. database.data \in 0..MaxData
      BY DEF Databases
    <2>2. CASE AcceptedNow(p) /\ database.data < MaxData
      <3>1. database' = [database EXCEPT !.data = @ + 1] /\ ~Gated
        BY <2>2 DEF Execute, AcceptedNow
      <3>2. database.data + 1 \in 0..MaxData
        BY <2>1, <2>2, SMTT(30)
      <3>3. \A n \in 0..MaxData :
               LET new == [database EXCEPT !.data = n]
               IN  /\ new \in Databases /\ new.gate = database.gate
                   /\ new.generation = database.generation /\ new.receipt = database.receipt
        BY DEF Databases
      <3> QED  BY <3>1, <3>2, <3>3
    <2> QED  BY <2>2 DEF Execute
  <1>5. RecoveryShapes'
    BY <1>1, <1>2, <1>4 DEF RecoveryInv, RecoveryShapes
  <1>6. OldGenerations'
    BY <1>1, <1>2, <1>3, <1>4 DEF RecoveryInv, OldGenerations
  <1>7. CopiesProved'
    BY <1>1, <1>4 DEF RecoveryInv, CopiesProved
  <1>8. GatedAsProved'
    BY <1>1, <1>4 DEF RecoveryInv, GatedAsProved, Gated
  <1>9. HoldersStartedLate'
    BY <1>1, <1>2, <1>3, <1>4 DEF RecoveryInv, HoldersStartedLate, Gated, Pending
  <1> QED  BY <1>5, <1>6, <1>7, <1>8, <1>9 DEF RecoveryInv

LEMMA RecoveryStep ==
    ASSUME RecoveryAssumption, RecoveryInv, [NextRecovery]_recovery_vars
    PROVE  RecoveryInv'
  <1>1. CASE UNCHANGED recovery_vars
    BY <1>1 DEF recovery_vars, RecoveryInv, RecoveryShapes, OldGenerations, CopiesProved,
                GatedAsProved, HoldersStartedLate, Gated, Pending
  <1> QED
    BY <1>1, BackupKeeps, RestoreKeeps, RecordKeeps, PromoterKeeps, ProcessKeeps, ExecuteKeeps
       DEF NextRecovery

(* admin/backups.py and quarantine.py, cut off anywhere: every process, copy and *)
(* receipt belongs to a generation that is past or proved for what is closed.  *)
THEOREM RecoveryInvariance == RecoverySpec => []RecoveryInv
  BY RecoveryInit, RecoveryStep, RecoveryAssumption, PTL DEF RecoverySpec

(* The type of the gate, the site and the processes.                           *)
THEOREM RecoveryAlwaysTyped == RecoverySpec => []RecoveryTyped
  <1>1. RecoveryInv => RecoveryTyped
    <2> SUFFICES ASSUME RecoveryInv PROVE RecoveryTyped
      OBVIOUS
    <2>1. database.gate \in 0..MaxProofs /\ database.data \in 0..MaxData /\ database.generation < site.fresh
      BY DEF RecoveryInv, RecoveryShapes, OldGenerations, Databases
    <2>2. site.home \in 0..MaxRestores /\ site.opened \in 0..site.home
      BY DEF RecoveryInv, RecoveryShapes, HoldersStartedLate, GatedAsProved, Sites
    <2>3. proof.id \in 0..MaxProofs /\ promoter \in {"idle", "recorded", "unlinked"}
      BY DEF RecoveryInv, RecoveryShapes, SignedProofs
    <2>4. \A p \in Procs : process[p].phase \in {"down", "loading", "up", "checked"}
      BY DEF RecoveryInv, RecoveryShapes, Processes
    <2> QED
      BY <2>1, <2>2, <2>3, <2>4 DEF RecoveryTyped
  <1> QED
    BY <1>1, RecoveryInvariance, PTL

(* admin/backups.py and quarantine.py: a restored instance is promoted or      *)
(* still closed, a promotion can be finished from wherever it was cut off, and *)
(* no process that was started before serves what was opened.                  *)
THEOREM RecoveryAlwaysSound == RecoverySpec => []RecoverySound
  <1>1. RecoveryInv => RecoverySound
    <2> SUFFICES ASSUME RecoveryInv PROVE RecoverySound
      OBVIOUS
    <2>1. PromotionResumable
      BY DEF PromotionResumable, Resumable, Pending, AsProved, RecoveryInv, GatedAsProved,
             CopiesProved
    <2>2. OpenMeansOpen
      BY DEF OpenMeansOpen, RecoveryInv, GatedAsProved
    <2>3. OnlyCurrentServe
      BY DEF OnlyCurrentServe, AcceptedNow, RecoveryInv, HoldersStartedLate, GatedAsProved
    <2> QED  BY <2>1, <2>2, <2>3 DEF RecoverySound
  <1> QED  BY <1>1, RecoveryInvariance, PTL
-----------------------------------------------------------------------------
(* Root rotation.                                                              *)

Boxes == Envelopes \cup {NoEnvelope}
Journals == [old : Roots, new : Roots, previous : Boxes]
PastRuns == [runs : 0..MaxRotations, held : BOOLEAN, repinned : BOOLEAN]

RotationShapes ==
    /\ anchor \in [active : Roots, retired : SUBSET Roots]
    /\ anchor.retired = 0..(anchor.active - 1)
    /\ envelope \in Boxes /\ archive \in [Roots -> Boxes]
    /\ trust \in [Aliases -> Roots \cup {NoRoot}] /\ Published # {}
    /\ journal \in Journals \cup {NoJournal}
    /\ rotation \in [step : Steps, journal : Journals \cup {NoJournal}, left : SUBSET Aliases]
    /\ past \in PastRuns

(* The root that was active when the last rotation was prepared.               *)
Settled == IF journal = NoJournal THEN anchor.active ELSE journal.old

(* What was archived, and what not yet.                                        *)
ArchiveInv ==
    /\ \A r \in Roots : archive[r] # NoEnvelope => archive[r].root = r
    /\ \A r \in Roots : r < Settled /\ (r # 0 \/ past.held) => archive[r].root = r
    /\ \A r \in Roots : r > Settled => archive[r] = NoEnvelope
    /\ journal = NoJournal => archive[Settled] = NoEnvelope

(* Only an installation that never had its first key in its file lacks one.    *)
KeyFileInv == envelope = NoEnvelope => Settled = 0 /\ ~past.held

SettledInv ==
    journal = NoJournal =>
        /\ envelope # NoEnvelope => envelope.root = anchor.active
        /\ \A a \in Published : trust[a] = anchor.active

JournalInv ==
    journal # NoJournal =>
        /\ journal.new = journal.old + 1
        /\ anchor.active \in {journal.old, journal.new}
        /\ journal.previous = NoEnvelope => journal.old = 0 /\ ~past.held
        /\ journal.previous # NoEnvelope => journal.previous.root = journal.old
        /\ envelope # NoEnvelope => envelope.root \in {journal.old, journal.new}
        /\ envelope.root = journal.old => journal.previous # NoEnvelope
        /\ envelope = NoEnvelope => journal.previous = NoEnvelope
        /\ ~past.repinned => envelope \in {journal.previous, NewEnvelope(journal)}
        /\ archive[journal.old] \in {NoEnvelope, journal.previous}
        /\ anchor.active = journal.old => archive[journal.old] = NoEnvelope
        /\ envelope.root = journal.new => /\ anchor.active = journal.new
                                          /\ archive[journal.old] = journal.previous
        /\ \A a \in Published :
              \/ trust[a] = journal.old
              \/ (trust[a] = journal.new /\ envelope.root = journal.new)

(* Where the command is.                                                       *)
CommandInv ==
    /\ rotation.step # "ended" => journal # NoJournal /\ rotation.journal = journal
    /\ rotation.step \in {"switched", "archived", "installed"} => anchor.active = journal.new
    /\ rotation.step \in {"archived", "installed"} => archive[journal.old] = journal.previous
    /\ rotation.step = "installed" =>
          /\ envelope.root = journal.new /\ rotation.left \subseteq Published
          /\ \A a \in Published \ rotation.left : trust[a] = journal.new

RotationInv ==
    RotationShapes /\ ArchiveInv /\ KeyFileInv /\ SettledInv /\ JournalInv /\ CommandInv

LEMMA RootsTyped ==
    ASSUME RotationAssumption
    PROVE  /\ MaxRoot \in Nat /\ MaxSeal \in Nat /\ 0 \in Roots /\ NoRoot = -1
           /\ \A r \in Roots : r \in Nat /\ r # NoRoot
           /\ NoEnvelope.root = NoRoot /\ NoEnvelope \notin Envelopes
           /\ \A e \in Envelopes : e.root \in Roots /\ e.seal \in 0..MaxSeal
           /\ \A r \in Roots : [root |-> r, seal |-> 0] \in Envelopes
           /\ NoJournal.old = NoRoot /\ NoJournal.new = NoRoot /\ NoJournal \notin Journals
           /\ \A j \in Journals : j.old \in Roots /\ j.new \in Roots /\ j.previous \in Boxes
  <1>1. /\ MaxRoot \in Nat /\ MaxSeal \in Nat /\ 0 \in Roots /\ NoRoot = -1
        /\ \A r \in Roots : r \in Nat /\ r # NoRoot
    BY DEF RotationAssumption, Roots, NoRoot
  <1>2. /\ NoEnvelope.root = NoRoot
        /\ \A e \in Envelopes : e.root \in Roots /\ e.seal \in 0..MaxSeal
        /\ \A r \in Roots : [root |-> r, seal |-> 0] \in Envelopes
    BY <1>1 DEF NoEnvelope, Envelopes
  <1>3. /\ NoJournal.old = NoRoot /\ NoJournal.new = NoRoot
        /\ \A j \in Journals : j.old \in Roots /\ j.new \in Roots /\ j.previous \in Boxes
    BY DEF NoJournal, Journals
  <1> QED  BY <1>1, <1>2, <1>3

LEMMA RotationOpened ==
    ASSUME RotationAssumption, RotationInv
    PROVE  /\ anchor.active \in Roots /\ anchor.active \in Nat
           /\ anchor.retired = 0..(anchor.active - 1)
           /\ envelope \in Boxes /\ archive \in [Roots -> Boxes]
           /\ envelope # NoEnvelope => envelope \in Envelopes /\ envelope.root \in Roots
           /\ rotation.step \in Steps /\ past \in PastRuns
           /\ past.runs \in 0..MaxRotations /\ past.held \in BOOLEAN /\ past.repinned \in BOOLEAN
           /\ journal # NoJournal =>
                 /\ journal \in Journals /\ journal.old \in Roots /\ journal.new \in Roots
                 /\ journal.previous \in Boxes
                 /\ journal.old \in Nat /\ journal.new \in Nat /\ journal.new = journal.old + 1
           /\ Published \subseteq Aliases /\ Published # {}
           /\ \A a \in Published : trust[a] \in Roots
  <1>1. anchor.active \in Roots /\ rotation.step \in Steps
    BY DEF RotationInv, RotationShapes
  <1>2. past.runs \in 0..MaxRotations /\ past.held \in BOOLEAN /\ past.repinned \in BOOLEAN
    BY DEF RotationInv, RotationShapes, PastRuns
  <1>3. \A a \in Published : trust[a] \in Roots
    BY DEF RotationInv, RotationShapes, Published
  <1> QED
    BY <1>1, <1>2, <1>3, RootsTyped
       DEF RotationInv, RotationShapes, JournalInv, Boxes, Published

LEMMA RotationInit == ASSUME RotationAssumption, InitRotation PROVE RotationInv
  <1>1. PICK published \in (SUBSET Aliases) \ {{}} :
           trust = [a \in Aliases |-> IF a \in published THEN 0 ELSE NoRoot]
    BY DEF InitRotation
  <1>2. Published = published
    BY <1>1, RootsTyped DEF Published
  <1>3. /\ anchor.active = 0 /\ anchor.retired = {} /\ journal = NoJournal
        /\ rotation.step = "ended" /\ Settled = 0
        /\ envelope \in {NoEnvelope, [root |-> 0, seal |-> 0]}
        /\ archive = [r \in Roots |-> NoEnvelope] /\ past.held = (envelope # NoEnvelope)
    BY DEF InitRotation, NoRotation, Settled
  <1>4. RotationShapes
    <2>1. anchor \in [active : Roots, retired : SUBSET Roots] /\ anchor.retired = 0..(anchor.active - 1)
      BY RootsTyped DEF InitRotation
    <2>2. envelope \in Boxes /\ archive \in [Roots -> Boxes]
      BY <1>3, RootsTyped DEF Boxes
    <2>3. trust \in [Aliases -> Roots \cup {NoRoot}]
      BY <1>1, RootsTyped
    <2>4. rotation \in [step : Steps, journal : Journals \cup {NoJournal}, left : SUBSET Aliases]
      BY DEF InitRotation, NoRotation, Steps
    <2>5. past \in PastRuns
      BY DEF InitRotation, PastRuns, RotationAssumption
    <2> QED  BY <1>2, <1>3, <2>1, <2>2, <2>3, <2>4, <2>5 DEF RotationShapes
  <1>5. ArchiveInv
    BY <1>3, RootsTyped DEF ArchiveInv
  <1>6. KeyFileInv
    <2>1. envelope = NoEnvelope => ~past.held
      BY DEF InitRotation
    <2> QED  BY <1>3, <2>1 DEF KeyFileInv
  <1>7. SettledInv
    <2>1. envelope # NoEnvelope => envelope.root = 0
      BY <1>3
    <2>2. \A a \in Published : trust[a] = 0
      BY <1>1, <1>2
    <2> QED  BY <1>3, <2>1, <2>2 DEF SettledInv
  <1> QED  BY <1>3, <1>4, <1>5, <1>6, <1>7 DEF RotationInv, JournalInv, CommandInv

(* The command starts on what is settled, and its journal says so.             *)
LEMMA PrepareKeeps == ASSUME RotationAssumption, RotationInv, Prepare PROVE RotationInv'
  <1>1. PICK old \in {trust[a] : a \in Published} :
           /\ journal' = [old |-> old, new |-> old + 1, previous |-> envelope]
           /\ rotation' = [NoRotation EXCEPT !.step = "checked", !.journal = journal']
    BY DEF Prepare
  <1>2. /\ journal = NoJournal /\ past.runs < MaxRotations /\ anchor.active < MaxRoot
        /\ UNCHANGED <<anchor, envelope, archive, trust>>
        /\ past' = [past EXCEPT !.runs = @ + 1]
    BY DEF Prepare
  <1>3. old = anchor.active
    BY <1>1, <1>2 DEF RotationInv, SettledInv
  <1>4. old \in Roots /\ old + 1 \in Roots /\ old \in Nat
    BY <1>2, <1>3, RotationOpened, RootsTyped DEF Roots
  <1>5. /\ journal' \in Journals /\ journal'.old = old /\ journal'.new = old + 1
        /\ journal'.previous = envelope /\ journal' # NoJournal
    BY <1>1, <1>4, RotationOpened, RootsTyped DEF Journals
  <1>6. rotation'.step = "checked" /\ rotation'.journal = journal' /\ rotation'.left = {}
    BY <1>1 DEF NoRotation
  <1>7. past' \in PastRuns /\ past'.held = past.held /\ past'.repinned = past.repinned
    <2>1. past.runs + 1 \in 0..MaxRotations
      BY <1>2, RotationOpened DEF RotationAssumption
    <2>2. \A n \in 0..MaxRotations : LET new == [past EXCEPT !.runs = n]
                                     IN  /\ new \in PastRuns /\ new.held = past.held
                                         /\ new.repinned = past.repinned
      BY RotationOpened DEF PastRuns
    <2> QED  BY <1>2, <2>1, <2>2
  <1>8. RotationShapes'
    <2>1. rotation' \in [step : Steps, journal : Journals \cup {NoJournal}, left : SUBSET Aliases]
      BY <1>1, <1>5 DEF NoRotation, Steps
    <2> QED  BY <1>2, <1>5, <1>7, <2>1 DEF RotationInv, RotationShapes, Published
  <1>9. Settled' = old /\ Settled = old
    BY <1>2, <1>3, <1>5 DEF Settled
  <1>10. ArchiveInv' /\ KeyFileInv' /\ SettledInv'
    BY <1>2, <1>5, <1>7, <1>9 DEF RotationInv, ArchiveInv, KeyFileInv, SettledInv
  <1>11. JournalInv'
    <2>1. archive[old] = NoEnvelope /\ (envelope # NoEnvelope => envelope.root = old)
          /\ \A a \in Published : trust[a] = old
      BY <1>2, <1>3, <1>9 DEF RotationInv, ArchiveInv, SettledInv
    <2>2. envelope = NoEnvelope => old = 0 /\ ~past.held /\ envelope.root = NoRoot
      BY <1>9, RootsTyped DEF RotationInv, KeyFileInv
    <2>3. old + 1 # old /\ NoRoot # old /\ NoRoot # old + 1
      BY <1>4, RootsTyped
    <2> QED
      BY <1>2, <1>3, <1>5, <1>7, <2>1, <2>2, <2>3 DEF JournalInv, Published
  <1>12. CommandInv'
    BY <1>5, <1>6 DEF CommandInv
  <1> QED  BY <1>8, <1>10, <1>11, <1>12 DEF RotationInv

(* A run is taken up, or dies: only its own state moves.                       *)
LEMMA ResumeKeeps == ASSUME RotationAssumption, RotationInv, Resume \/ Abort PROVE RotationInv'
  <1>1. /\ UNCHANGED <<anchor, envelope, archive, trust, journal>>
        /\ \/ /\ rotation' = [NoRotation EXCEPT !.step = "checked", !.journal = journal]
              /\ journal # NoJournal /\ past' = [past EXCEPT !.runs = @ + 1]
              /\ past.runs < MaxRotations
           \/ rotation' = NoRotation /\ past' = past
    BY DEF Resume, Abort
  <1>2. /\ rotation'.step \in {"checked", "ended"}
        /\ rotation'.step = "checked" => journal # NoJournal /\ rotation'.journal = journal
    <2>1. CASE rotation' = [NoRotation EXCEPT !.step = "checked", !.journal = journal]
      BY <1>1, <2>1 DEF NoRotation
    <2>2. CASE rotation' = NoRotation
      BY <2>2 DEF NoRotation
    <2> QED  BY <1>1, <2>1, <2>2
  <1>3. rotation' \in [step : Steps, journal : Journals \cup {NoJournal}, left : SUBSET Aliases]
    <2>1. journal \in Journals \cup {NoJournal}
      BY DEF RotationInv, RotationShapes
    <2>2. CASE rotation' = [NoRotation EXCEPT !.step = "checked", !.journal = journal]
      BY <2>1, <2>2 DEF NoRotation, Steps
    <2>3. CASE rotation' = NoRotation
      BY <2>3 DEF NoRotation, Steps
    <2> QED  BY <1>1, <2>2, <2>3
  <1>4. past' \in PastRuns /\ past'.held = past.held /\ past'.repinned = past.repinned
    <2>1. past.runs < MaxRotations => past.runs + 1 \in 0..MaxRotations
      BY RotationOpened DEF RotationAssumption
    <2>2. \A n \in 0..MaxRotations : LET new == [past EXCEPT !.runs = n]
                                     IN  /\ new \in PastRuns /\ new.held = past.held
                                         /\ new.repinned = past.repinned
      BY RotationOpened DEF PastRuns
    <2> QED  BY <1>1, <2>1, <2>2, RotationOpened
  <1>5. RotationShapes'
    BY <1>1, <1>3, <1>4 DEF RotationInv, RotationShapes, Published
  <1>6. ArchiveInv' /\ KeyFileInv' /\ SettledInv' /\ JournalInv'
    BY <1>1, <1>4 DEF RotationInv, ArchiveInv, KeyFileInv, SettledInv, JournalInv, Settled,
                      Published, NewEnvelope
  <1>7. CommandInv'
    BY <1>1, <1>2 DEF CommandInv
  <1> QED  BY <1>5, <1>6, <1>7 DEF RotationInv

(* What the journal and the command agree on while a run is under way.         *)
LEMMA UnderWay ==
    ASSUME RotationAssumption, RotationInv, rotation.step # "ended"
    PROVE  /\ journal # NoJournal /\ rotation.journal = journal /\ journal \in Journals
           /\ journal.old \in Roots /\ journal.new \in Roots /\ journal.previous \in Boxes
           /\ journal.old \in Nat /\ journal.new \in Nat /\ journal.new = journal.old + 1
           /\ NewEnvelope(journal) \in Envelopes /\ NewEnvelope(journal).root = journal.new
           /\ NewEnvelope(journal) # NoEnvelope
           /\ Settled = journal.old /\ anchor.active \in {journal.old, journal.new}
  BY RotationOpened, RootsTyped DEF RotationInv, CommandInv, JournalInv, NewEnvelope, Settled

LEMMA StepMoves ==
    ASSUME RotationAssumption, RotationInv, NEW new, NEW step \in Steps,
           NEW left \in SUBSET Aliases,
           \/ new = [rotation EXCEPT !.step = step]
           \/ new = [rotation EXCEPT !.step = step, !.left = left]
           \/ new = [rotation EXCEPT !.left = left]
    PROVE  /\ new \in [step : Steps, journal : Journals \cup {NoJournal}, left : SUBSET Aliases]
           /\ new.journal = rotation.journal
           /\ new.step \in {step, rotation.step} /\ new.left \in {left, rotation.left}
           /\ new = [rotation EXCEPT !.step = step] => new.step = step
           /\ new = [rotation EXCEPT !.step = step, !.left = left] =>
                 new.step = step /\ new.left = left
           /\ new = [rotation EXCEPT !.left = left] =>
                 new.step = rotation.step /\ new.left = left
  <1>1. rotation \in [step : Steps, journal : Journals \cup {NoJournal}, left : SUBSET Aliases]
    BY DEF RotationInv, RotationShapes
  <1>2. /\ rotation.step \in Steps /\ rotation.left \in SUBSET Aliases
        /\ rotation.journal \in Journals \cup {NoJournal}
        /\ DOMAIN rotation = {"step", "journal", "left"}
    BY <1>1
  <1> QED  BY <1>1, <1>2

LEMMA SwitchKeeps == ASSUME RotationAssumption, RotationInv, SwitchAnchor PROVE RotationInv'
  <1>1. /\ rotation.step = "checked" /\ UNCHANGED <<envelope, archive, trust, journal, past>>
        /\ rotation' = [rotation EXCEPT !.step = "switched"]
    BY DEF SwitchAnchor
  <1>2. /\ rotation' \in [step : Steps, journal : Journals \cup {NoJournal}, left : SUBSET Aliases]
        /\ rotation'.step = "switched" /\ rotation'.journal = rotation.journal
    <2>1. "switched" \in Steps /\ {} \in SUBSET Aliases
      BY DEF Steps
    <2>2. /\ rotation' \in [step : Steps, journal : Journals \cup {NoJournal}, left : SUBSET Aliases]
          /\ rotation'.journal = rotation.journal
      BY <1>1, <2>1, StepMoves
    <2>3. rotation'.step = "switched"
      BY <1>1 DEF RotationInv, RotationShapes
    <2> QED
      BY <2>2, <2>3
  <1>3. /\ anchor' \in [active : Roots, retired : SUBSET Roots]
        /\ anchor'.active = journal.new /\ anchor'.retired = 0..(anchor'.active - 1)
    <2>1. CASE anchor.active = journal.new
      BY <1>1, <2>1, UnderWay DEF SwitchAnchor, RotationInv, RotationShapes
    <2>2. CASE anchor.active # journal.new
      <3>1. anchor.active = journal.old
        BY <1>1, <2>2, UnderWay
      <3>2. anchor' = [active |-> journal.new, retired |-> anchor.retired \cup {journal.old}]
        BY <1>1, <2>2, UnderWay DEF SwitchAnchor
      <3>3. anchor.retired = 0..(journal.old - 1) /\ anchor.retired \subseteq Roots
        BY <3>1 DEF RotationInv, RotationShapes
      <3>4. anchor.retired \cup {journal.old} = 0..(journal.new - 1)
        BY <1>1, <3>3, UnderWay
      <3> QED  BY <1>1, <3>2, <3>3, <3>4, UnderWay
    <2> QED  BY <2>1, <2>2
  <1>4. RotationShapes'
    BY <1>1, <1>2, <1>3 DEF RotationInv, RotationShapes, Published
  <1>5. ArchiveInv' /\ KeyFileInv' /\ SettledInv'
    BY <1>1, UnderWay DEF RotationInv, ArchiveInv, KeyFileInv, SettledInv, Settled
  <1>6. JournalInv'
    BY <1>1, <1>3, UnderWay DEF RotationInv, JournalInv, Published, NewEnvelope
  <1>7. CommandInv'
    BY <1>1, <1>2, <1>3, UnderWay DEF CommandInv
  <1> QED  BY <1>4, <1>5, <1>6, <1>7 DEF RotationInv

LEMMA ArchiveKeeps == ASSUME RotationAssumption, RotationInv, Archive PROVE RotationInv'
  <1>1. /\ rotation.step = "switched" /\ UNCHANGED <<anchor, envelope, trust, journal, past>>
        /\ rotation' = [rotation EXCEPT !.step = "archived"]
    BY DEF Archive
  <1>2. /\ rotation' \in [step : Steps, journal : Journals \cup {NoJournal}, left : SUBSET Aliases]
        /\ rotation'.step = "archived" /\ rotation'.journal = rotation.journal
    BY <1>1, StepMoves DEF Steps
  <1>3. anchor.active = journal.new
    BY <1>1 DEF RotationInv, CommandInv
  <1>4. archive' = [archive EXCEPT ![journal.old] = journal.previous]
    BY <1>1, UnderWay, RotationOpened DEF Archive, ArchiveExpected
  <1>5. /\ archive' \in [Roots -> Boxes]
        /\ \A r \in Roots : archive'[r] = IF r = journal.old THEN journal.previous ELSE archive[r]
    BY <1>1, <1>4, UnderWay, RotationOpened
  <1>6. RotationShapes'
    BY <1>1, <1>2, <1>5 DEF RotationInv, RotationShapes, Published
  <1>7. journal.previous # NoEnvelope => journal.previous.root = journal.old
    BY <1>1, UnderWay DEF RotationInv, JournalInv
  <1>8. Settled' = journal.old /\ Settled = journal.old
    BY <1>1, UnderWay DEF Settled
  <1>9. ArchiveInv'
    BY <1>1, <1>5, <1>7, <1>8, UnderWay, RootsTyped DEF RotationInv, ArchiveInv
  <1>10. KeyFileInv' /\ SettledInv'
    BY <1>1, <1>8, UnderWay DEF RotationInv, KeyFileInv, SettledInv
  <1>11. JournalInv'
    BY <1>1, <1>3, <1>5, UnderWay DEF RotationInv, JournalInv, Published, NewEnvelope
  <1>12. CommandInv'
    BY <1>1, <1>2, <1>3, <1>5, UnderWay DEF CommandInv
  <1> QED  BY <1>6, <1>9, <1>10, <1>11, <1>12 DEF RotationInv

LEMMA InstallKeeps == ASSUME RotationAssumption, RotationInv, InstallKey PROVE RotationInv'
  <1>1. /\ rotation.step = "archived" /\ UNCHANGED <<anchor, archive, trust, journal, past>>
        /\ rotation' = [rotation EXCEPT !.step = "installed", !.left = Published]
        /\ envelope' = NewEnvelope(rotation.journal)
    BY DEF InstallKey
  <1>2. /\ rotation' \in [step : Steps, journal : Journals \cup {NoJournal}, left : SUBSET Aliases]
        /\ rotation'.step = "installed" /\ rotation'.journal = rotation.journal
        /\ rotation'.left = Published
    BY <1>1, StepMoves, RotationOpened DEF Steps
  <1>3. anchor.active = journal.new /\ archive[journal.old] = journal.previous
    BY <1>1 DEF RotationInv, CommandInv
  <1>4. /\ envelope' = NewEnvelope(journal) /\ envelope' \in Boxes /\ envelope' # NoEnvelope
        /\ envelope'.root = journal.new
    BY <1>1, UnderWay DEF Boxes
  <1>5. RotationShapes'
    BY <1>1, <1>2, <1>4 DEF RotationInv, RotationShapes, Published
  <1>6. ArchiveInv' /\ KeyFileInv' /\ SettledInv'
    BY <1>1, <1>4, UnderWay DEF RotationInv, ArchiveInv, KeyFileInv, SettledInv, Settled
  <1>7. JournalInv'
    BY <1>1, <1>3, <1>4, UnderWay DEF RotationInv, JournalInv, Published, NewEnvelope
  <1>8. CommandInv'
    BY <1>1, <1>2, <1>3, <1>4, UnderWay DEF CommandInv, Published
  <1> QED  BY <1>5, <1>6, <1>7, <1>8 DEF RotationInv

LEMMA PublishKeeps ==
    ASSUME RotationAssumption, RotationInv, NEW a \in Aliases, Publish(a)
    PROVE  RotationInv'
  <1>1. /\ rotation.step = "installed" /\ a \in rotation.left
        /\ UNCHANGED <<anchor, envelope, archive, journal, past>>
        /\ trust' = [trust EXCEPT ![a] = rotation.journal.new]
        /\ rotation' = [rotation EXCEPT !.left = rotation.left \ {a}]
    BY DEF Publish
  <1>2. /\ anchor.active = journal.new /\ envelope.root = journal.new
        /\ rotation.left \subseteq Published
        /\ \A b \in Published \ rotation.left : trust[b] = journal.new
    BY <1>1 DEF RotationInv, CommandInv
  <1>3. /\ rotation' \in [step : Steps, journal : Journals \cup {NoJournal}, left : SUBSET Aliases]
        /\ rotation'.step = "installed" /\ rotation'.journal = rotation.journal
        /\ rotation'.left = rotation.left \ {a}
    <2>1. rotation.left \ {a} \in SUBSET Aliases /\ rotation.step \in Steps
      BY <1>2, RotationOpened
    <2>2. \A left \in SUBSET Aliases : rotation' = [rotation EXCEPT !.left = left] =>
             /\ rotation' \in [step : Steps, journal : Journals \cup {NoJournal},
                              left : SUBSET Aliases]
             /\ rotation'.journal = rotation.journal
             /\ rotation'.step = rotation.step /\ rotation'.left = left
      BY <2>1, StepMoves
    <2> QED  BY <1>1, <2>1, <2>2
  <1>4. /\ trust' \in [Aliases -> Roots \cup {NoRoot}]
        /\ \A b \in Aliases : trust'[b] = IF b = a THEN journal.new ELSE trust[b]
    BY <1>1, UnderWay DEF RotationInv, RotationShapes
  <1>5. Published' = Published
    BY <1>1, <1>2, <1>4, UnderWay, RootsTyped DEF Published
  <1>6. RotationShapes'
    BY <1>1, <1>3, <1>4, <1>5 DEF RotationInv, RotationShapes
  <1>7. ArchiveInv' /\ KeyFileInv' /\ SettledInv'
    BY <1>1, UnderWay DEF RotationInv, ArchiveInv, KeyFileInv, SettledInv, Settled
  <1>8. JournalInv'
    BY <1>1, <1>2, <1>4, <1>5, UnderWay, RotationOpened
       DEF RotationInv, JournalInv, NewEnvelope
  <1>9. CommandInv'
    BY <1>1, <1>2, <1>3, <1>4, <1>5, UnderWay, RotationOpened DEF RotationInv, CommandInv
  <1> QED  BY <1>6, <1>7, <1>8, <1>9 DEF RotationInv

LEMMA RemoveKeeps == ASSUME RotationAssumption, RotationInv, RemoveJournal PROVE RotationInv'
  <1>1. /\ rotation.step = "installed" /\ rotation.left = {}
        /\ UNCHANGED <<anchor, envelope, archive, trust, past>>
        /\ journal' = NoJournal /\ rotation' = NoRotation
    BY DEF RemoveJournal
  <1>2. /\ anchor.active = journal.new /\ archive[journal.old] = journal.previous
        /\ envelope.root = journal.new /\ \A a \in Published : trust[a] = journal.new
    BY <1>1 DEF RotationInv, CommandInv
  <1>3. NoRotation.step = "ended"
        /\ NoRotation \in [step : Steps, journal : Journals \cup {NoJournal}, left : SUBSET Aliases]
    BY DEF NoRotation, Steps
  <1>4. RotationShapes'
    BY <1>1, <1>3 DEF RotationInv, RotationShapes, Published
  <1>5. Settled = journal.old /\ Settled' = journal.new
    BY <1>1, <1>2, UnderWay DEF Settled
  <1>6. ArchiveInv'
    <2>1. journal.old # 0 \/ past.held => archive[journal.old].root = journal.old
      BY <1>1, <1>2, UnderWay DEF RotationInv, JournalInv
    <2>2. \A r \in Roots : r \in Nat /\ (r < journal.new => r < journal.old \/ r = journal.old)
                           /\ (r >= journal.new => r > journal.old)
      BY <1>1, UnderWay, RootsTyped
    <2>3. journal.new >= journal.new
      BY <1>1, UnderWay
    <2> QED  BY <1>1, <1>5, <2>1, <2>2, <2>3, UnderWay DEF RotationInv, ArchiveInv
  <1>7. KeyFileInv' /\ SettledInv'
    BY <1>1, <1>2, <1>5, UnderWay, RootsTyped DEF KeyFileInv, SettledInv, Published
  <1> QED  BY <1>1, <1>3, <1>4, <1>6, <1>7 DEF RotationInv, JournalInv, CommandInv

LEMMA ChangePinKeeps == ASSUME RotationAssumption, RotationInv, ChangePin PROVE RotationInv'
  <1>1. /\ envelope # NoEnvelope /\ envelope.seal < MaxSeal
        /\ envelope' = [envelope EXCEPT !.seal = @ + 1]
        /\ past' = [past EXCEPT !.repinned = past.repinned \/ journal # NoJournal]
        /\ UNCHANGED <<anchor, archive, trust, journal, rotation>>
    BY DEF ChangePin
  <1>2. /\ envelope' \in Boxes /\ envelope' # NoEnvelope /\ envelope'.root = envelope.root
    <2>1. envelope \in Envelopes /\ envelope.seal + 1 \in 0..MaxSeal
      BY <1>1, RotationOpened, RootsTyped
    <2>2. \A n \in 0..MaxSeal : LET new == [envelope EXCEPT !.seal = n]
                                IN  new \in Envelopes /\ new.root = envelope.root
      BY <2>1 DEF Envelopes
    <2> QED  BY <1>1, <2>1, <2>2, RootsTyped DEF Boxes
  <1>3. /\ past' \in PastRuns /\ past'.held = past.held
        /\ journal # NoJournal => past'.repinned
    BY <1>1, RotationOpened DEF PastRuns
  <1>4. RotationShapes'
    BY <1>1, <1>2, <1>3 DEF RotationInv, RotationShapes, Published
  <1>5. ArchiveInv' /\ KeyFileInv' /\ SettledInv'
    BY <1>1, <1>2, <1>3 DEF RotationInv, ArchiveInv, KeyFileInv, SettledInv, Settled, Published
  <1>6. JournalInv'
    BY <1>1, <1>2, <1>3 DEF RotationInv, JournalInv, Published
  <1>7. CommandInv'
    BY <1>1, <1>2 DEF RotationInv, CommandInv, Published
  <1> QED  BY <1>4, <1>5, <1>6, <1>7 DEF RotationInv

LEMMA RotationStep ==
    ASSUME RotationAssumption, RotationInv, [NextRotation]_rotation_vars
    PROVE  RotationInv'
  <1>1. CASE UNCHANGED rotation_vars
    BY <1>1 DEF rotation_vars, RotationInv, RotationShapes, ArchiveInv, KeyFileInv, SettledInv,
                JournalInv, CommandInv, Settled, Published, NewEnvelope
  <1> QED
    BY <1>1, PrepareKeeps, ResumeKeeps, SwitchKeeps, ArchiveKeeps, InstallKeeps, PublishKeeps,
       RemoveKeeps, ChangePinKeeps DEF NextRotation

(* admin/rotation.py, cut off anywhere: the anchor, the archive, the key file  *)
(* and the published certificates agree on how far the journal's run has come. *)
THEOREM RotationInvariance == RotationSpec => []RotationInv
  BY RotationInit, RotationStep, RotationAssumption, PTL DEF RotationSpec

(* The type of the anchor, the key file, the trust files and the journal.      *)
THEOREM RotationAlwaysTyped == RotationSpec => []RotationTyped
  <1>1. RotationInv => RotationTyped
    <2> SUFFICES ASSUME RotationInv PROVE RotationTyped
      OBVIOUS
    <2>1. anchor.active \in Roots /\ anchor.retired \subseteq Roots /\ anchor.retired = 0..(anchor.active - 1)
      BY DEF RotationInv, RotationShapes
    <2>2. anchor.active \notin anchor.retired
      BY <2>1 DEF Roots
    <2>3. /\ envelope \in Envelopes \cup {NoEnvelope} /\ archive \in [Roots -> Envelopes \cup {NoEnvelope}]
          /\ trust \in [Aliases -> Roots \cup {NoRoot}]
      BY DEF RotationInv, RotationShapes, Boxes
    <2>4. journal = NoJournal \/ journal.new = journal.old + 1
      BY DEF RotationInv, JournalInv
    <2>5. rotation.step \in Steps /\ rotation.left \subseteq Aliases /\ past.runs \in 0..MaxRotations
      BY DEF RotationInv, RotationShapes, PastRuns
    <2> QED
      BY <2>1, <2>2, <2>3, <2>4, <2>5 DEF RotationTyped
  <1> QED
    BY <1>1, RotationInvariance, PTL

(* admin/rotation.py, cut off anywhere and as often as it may be: a rotation   *)
(* can be taken up again, leaves nothing half done and loses no key.           *)
THEOREM RotationAlwaysSound == RotationSpec => []RotationSound
  <1>1. RotationInv => RotationSound
    <2> SUFFICES ASSUME RotationInv PROVE RotationSound
      OBVIOUS
    <2>1. RotationResumable
      <3> SUFFICES ASSUME journal # NoJournal, ~past.repinned PROVE Completable(journal)
        BY DEF RotationResumable
      <3>1. /\ journal.old \in Nat /\ journal.new = journal.old + 1
            /\ journal.old \in Roots /\ journal.new \in Roots
        BY RotationOpened, RotationAssumption
      <3>2. KeyFileExpected(journal)
        BY RootsTyped, RotationAssumption, RotationOpened, <3>1
           DEF RotationInv, JournalInv, KeyFileExpected, NewEnvelope
      <3>3. ArchiveExpected(journal)
        BY RootsTyped, RotationAssumption, RotationOpened, <3>1
           DEF RotationInv, JournalInv, ArchiveExpected, NewEnvelope
      <3>4. TrustExpected(journal)
        BY RotationAssumption, RotationOpened DEF RotationInv, JournalInv, TrustExpected
      <3>5. AnchorExpected(journal)
        BY <3>1, RotationAssumption, RotationOpened DEF RotationInv, JournalInv, AnchorExpected
      <3> QED  BY <3>2, <3>3, <3>4, <3>5 DEF Completable
    <2>2. NothingHalfDone
      <3> SUFFICES ASSUME journal = NoJournal
                   PROVE  /\ Startable /\ \A a \in Published : trust[a] = anchor.active
                          /\ envelope = NoEnvelope \/ envelope.root = anchor.active
        BY DEF NothingHalfDone
      <3>1. anchor.active \notin anchor.retired /\ anchor.active \in Roots /\ Published # {}
        BY RotationOpened, RotationAssumption
      <3>2. /\ \A a \in Published : trust[a] = anchor.active
            /\ envelope = NoEnvelope \/ envelope.root = anchor.active
        BY DEF RotationInv, SettledInv
      <3> QED  BY <3>1, <3>2 DEF Startable
    <2>3. KeysKept
      <3>1. anchor.active > 0 => envelope.root = anchor.active \/ journal.new = anchor.active
        <4>1. CASE journal = NoJournal
          BY <4>1, RotationOpened, RotationAssumption
             DEF RotationInv, SettledInv, KeyFileInv, Settled
        <4>2. CASE journal # NoJournal
          BY <4>2, RotationOpened, RotationAssumption
             DEF RotationInv, JournalInv, KeyFileInv, Settled
        <4> QED  BY <4>1, <4>2
      <3>2. ASSUME NEW r \in anchor.retired, r # 0 \/ past.held
            PROVE  archive[r].root = r \/ envelope.root = r
        <4>1. r \in Roots /\ r \in Nat /\ r < anchor.active
          BY RotationOpened, RotationAssumption, RootsTyped DEF RotationInv, RotationShapes
        <4>2. CASE r < Settled
          BY <3>2, <4>1, <4>2 DEF RotationInv, ArchiveInv
        <4>3. CASE ~(r < Settled)
          <5>1. journal # NoJournal /\ r = journal.old /\ anchor.active = journal.new
            BY <4>1, <4>3, RotationOpened, RotationAssumption
               DEF Settled, RotationInv, JournalInv
          <5>2. journal.previous # NoEnvelope /\ journal.previous.root = journal.old
            BY <3>2, <5>1 DEF RotationInv, JournalInv
          <5>3. \/ envelope.root = journal.old
                \/ envelope.root = journal.new
            BY <5>1, <5>2 DEF RotationInv, JournalInv
          <5> QED  BY <5>1, <5>2, <5>3 DEF RotationInv, JournalInv
        <4> QED  BY <4>2, <4>3
      <3> QED  BY <3>1, <3>2 DEF KeysKept
    <2> QED  BY <2>1, <2>2, <2>3 DEF RotationSound
  <1> QED  BY <1>1, RotationInvariance, PTL
-----------------------------------------------------------------------------
(* Token delivery.                                                             *)

KeyRows ==
    [state : {"none", "live", "revoked"}, expires : Nat, from : 0..MaxRequests,
     deadline : Nat, claimed : BOOLEAN, consumed : BOOLEAN, released : Nat]
CallRows ==
    [phase : {"none", "sent", "issued", "secret", "gone"}, request : 0..MaxRequests,
     proof : 0..MaxRequests, until : Nat]
Intents == [key : 0..MaxRequests, recovery : 0..MaxRequests, moved : BOOLEAN]
ClientRows ==
    [token : 0..MaxRequests, journal : Intents, waits : SUBSET Calls, saved : BOOLEAN,
     requests : 0..MaxRequests, mixed : BOOLEAN]
AskedRows == [kind : {"none", "create", "rotate", "recover"}, old : 0..MaxRequests]

DeliveryShapes ==
    /\ keys \in [Keys -> KeyRows] /\ asked \in [Keys -> AskedRows]
    /\ calls \in [Calls -> CallRows] /\ client \in ClientRows /\ moment \in 0..LastMoment

(* A secret is released with its claim, and what was recovered is revoked.     *)
KeysInv ==
    \A n \in Keys :
        /\ keys[n].released <= 1 /\ (keys[n].released = 1 => keys[n].claimed)
        /\ keys[n].consumed => keys[n].state = "revoked"
        /\ keys[n].deadline <= keys[n].expires

(* Requests are asked for in their order, before anything is issued for them.  *)
AskedInv ==
    /\ \A n \in Keys : asked[n].kind = "none" <=> n > client.requests
    /\ \A n \in Keys : keys[n].state # "none" => n <= client.requests
    /\ \A n \in Keys : asked[n].kind = "create" => n = 1
    /\ \A n \in Keys : asked[n].kind = "recover" => asked[n].old # 0 /\ asked[n].old < n
    /\ \A c \in Calls : calls[c].phase # "none" => calls[c].request \in 1..client.requests
    /\ \A c \in Calls : calls[c].phase \in {"issued", "secret", "gone"} =>
          Issued(calls[c].request)

(* One credential descends from the other: there is one that works at most.    *)
OneLive ==
    /\ \A n, m \in Keys : keys[n].state = "live" /\ keys[m].state = "live" => n = m
    /\ \A n \in Keys : Issued(n) => Issued(1)

(* What the client holds of all this.                                          *)
ClientInv ==
    /\ client.token # 0 => Issued(client.token)
    /\ client.token = 0 /\ ~Journaled => client.requests = 0
    /\ client.token <= client.requests
    /\ client.journal.key <= client.requests /\ client.journal.recovery <= client.requests
    /\ client.journal.recovery # 0 =>
          Journaled /\ asked[client.journal.recovery] =
                           [kind |-> "recover", old |-> client.journal.key]
    /\ Journaled /\ ~client.journal.moved =>
          asked[client.journal.key].kind \in {"create", "rotate"}
    /\ client.saved => client.waits = {} /\ SavedAlready
    /\ \A c \in client.waits :
          /\ calls[c].phase # "none"
          /\ \/ calls[c].request = client.journal.recovery
             \/ calls[c].request = client.journal.key /\ ~client.journal.moved

(* The credential that works, as the client knows it: the last one issued of   *)
(* its token, its journal's request and that request's recovery.               *)
Latest ==
    IF Issued(client.journal.recovery) THEN client.journal.recovery
    ELSE IF Issued(client.journal.key) THEN client.journal.key ELSE client.token

(* As long as the client does not repeat a command under a recovery.           *)
OrderlyInv ==
    /\ \A n \in Keys : n <= client.requests /\ ~Issued(n) =>
          n \in {client.journal.key, client.journal.recovery}
    /\ client.journal.moved => Issued(client.journal.key)
    /\ Issued(client.journal.recovery) =>
          keys[client.journal.recovery].from = client.journal.key /\ Issued(client.journal.key)
    /\ client.token # 0 /\ client.token = client.journal.key => client.journal.recovery = 0
    /\ \A c \in client.waits :
          calls[c].request = IF client.journal.recovery = 0 THEN client.journal.key
                                                            ELSE client.journal.recovery
    /\ \A n \in Keys : keys[n].state = "live" <=> n = Latest

DeliveryInv ==
    /\ DeliveryShapes /\ KeysInv /\ AskedInv /\ OneLive /\ ClientInv
    /\ ~client.mixed => OrderlyInv

(* Every part of the state, with the shape it has.                             *)
LEMMA DeliveryOpened ==
    ASSUME DeliveryAssumption, DeliveryInv
    PROVE  /\ MaxRequests \in Nat /\ TokenTTL \in Nat /\ Window \in Nat /\ Patience \in Nat
           /\ LastMoment \in Nat /\ moment \in Nat
           /\ \A n \in Keys : n \in Nat /\ n > 0 /\ n <= MaxRequests
           /\ client \in ClientRows /\ client.journal \in Intents
           /\ client.token \in 0..MaxRequests /\ client.requests \in 0..MaxRequests
           /\ client.journal.key \in 0..MaxRequests /\ client.journal.recovery \in 0..MaxRequests
           /\ client.journal.moved \in BOOLEAN /\ client.saved \in BOOLEAN
           /\ client.mixed \in BOOLEAN /\ client.waits \subseteq Calls
           /\ \A c \in Calls : /\ calls[c] \in CallRows /\ calls[c].request \in 0..MaxRequests
                               /\ calls[c].proof \in 0..MaxRequests /\ calls[c].until \in Nat
           /\ \A n \in Keys : /\ keys[n] \in KeyRows /\ keys[n].expires \in Nat
                              /\ keys[n].deadline \in Nat /\ keys[n].released \in Nat
                              /\ keys[n].from \in 0..MaxRequests
                              /\ asked[n].old \in 0..MaxRequests
  <1>1. /\ MaxRequests \in Nat /\ TokenTTL \in Nat /\ Window \in Nat /\ Patience \in Nat
        /\ LastMoment \in Nat
    BY DEF DeliveryAssumption
  <1>2. /\ client \in ClientRows /\ moment \in Nat /\ calls \in [Calls -> CallRows]
        /\ keys \in [Keys -> KeyRows] /\ asked \in [Keys -> AskedRows]
    BY <1>1 DEF DeliveryInv, DeliveryShapes
  <1>3. \A n \in Keys : n \in Nat /\ n > 0 /\ n <= MaxRequests
    BY <1>1 DEF Keys
  <1>4. /\ client.journal \in Intents
        /\ client.token \in 0..MaxRequests /\ client.requests \in 0..MaxRequests
        /\ client.saved \in BOOLEAN /\ client.mixed \in BOOLEAN /\ client.waits \subseteq Calls
    BY <1>2 DEF ClientRows
  <1>5. /\ client.journal.key \in 0..MaxRequests /\ client.journal.recovery \in 0..MaxRequests
        /\ client.journal.moved \in BOOLEAN
    BY <1>4 DEF Intents
  <1>6. \A c \in Calls : /\ calls[c] \in CallRows /\ calls[c].request \in 0..MaxRequests
                         /\ calls[c].proof \in 0..MaxRequests /\ calls[c].until \in Nat
    BY <1>2 DEF CallRows
  <1>7. \A n \in Keys : /\ keys[n] \in KeyRows /\ keys[n].expires \in Nat
                        /\ keys[n].deadline \in Nat /\ keys[n].released \in Nat
                        /\ keys[n].from \in 0..MaxRequests
                        /\ asked[n].old \in 0..MaxRequests
    BY <1>2 DEF KeyRows, AskedRows
  <1> QED  BY <1>1, <1>2, <1>3, <1>4, <1>5, <1>6, <1>7

LEMMA DeliveryInit == ASSUME DeliveryAssumption, InitDelivery PROVE DeliveryInv
  <1> USE DEF DeliveryAssumption, InitDelivery, NoIntent, NoCall
  <1>1. \A n \in Keys : n \in Nat /\ n > 0
    BY DEF Keys
  <1>2. 0 \in 0..MaxRequests /\ 0 \in 0..LastMoment
    OBVIOUS
  <1>3. DeliveryShapes
    <2>1. keys \in [Keys -> KeyRows]
      BY <1>2 DEF KeyRows
    <2>2. asked \in [Keys -> AskedRows]
      BY <1>2 DEF AskedRows
    <2>3. calls \in [Calls -> CallRows]
      BY <1>2 DEF CallRows
    <2>4. client \in ClientRows
      BY <1>2 DEF ClientRows, Intents
    <2> QED  BY <1>2, <2>1, <2>2, <2>3, <2>4 DEF DeliveryShapes
  <1>4. KeysInv /\ AskedInv /\ OneLive
    BY <1>1 DEF KeysInv, AskedInv, OneLive, Issued
  <1>5. ClientInv
    BY DEF ClientInv, Journaled
  <1>6. OrderlyInv
    BY <1>1 DEF OrderlyInv, Issued, Latest
  <1> QED  BY <1>3, <1>4, <1>5, <1>6 DEF DeliveryInv

(* What a journal may name, and that nothing is issued for no request.         *)
LEMMA Named ==
    ASSUME DeliveryAssumption, DeliveryInv
    PROVE  /\ ~Issued(0)
           /\ \A n : Issued(n) /\ n \in 0..MaxRequests => n \in Keys /\ n <= client.requests
           /\ \A n \in 0..MaxRequests : n # 0 => n \in Keys
           /\ client.journal.recovery # 0 =>
                 /\ asked[client.journal.recovery].kind = "recover"
                 /\ asked[client.journal.recovery].old = client.journal.key
                 /\ client.journal.key # 0 /\ client.journal.key < client.journal.recovery
  <1>1. \A n \in 0..MaxRequests : n # 0 => n \in Keys
    BY DeliveryOpened DEF Keys
  <1>2. \A n : Issued(n) /\ n \in 0..MaxRequests => n \in Keys /\ n <= client.requests
    BY <1>1 DEF DeliveryInv, AskedInv, Issued
  <1>3. client.journal.recovery # 0 =>
                 /\ asked[client.journal.recovery].kind = "recover"
                 /\ asked[client.journal.recovery].old = client.journal.key
    BY DEF DeliveryInv, ClientInv
  <1>4. client.journal.recovery # 0 =>
            client.journal.key # 0 /\ client.journal.key < client.journal.recovery
    <2> SUFFICES ASSUME client.journal.recovery # 0
                 PROVE  client.journal.key # 0 /\ client.journal.key < client.journal.recovery
      OBVIOUS
    <2>1. client.journal.recovery \in Keys
      BY <1>1, DeliveryOpened
    <2> QED  BY <1>3, <2>1 DEF DeliveryInv, AskedInv
  <1> QED  BY <1>1, <1>2, <1>3, <1>4 DEF Issued

(* What issuing a credential to a call, from another or from none, comes to.   *)
Issuing(c, n, old) ==
    /\ n = calls[c].request /\ calls[c].phase = "sent" /\ ~Issued(n)
    /\ Answered(c, "issued") /\ UNCHANGED <<asked, client, moment>>
    /\ \/ asked[n].kind = "create" /\ old = 0
       \/ old # 0 /\ keys[old].state = "live" /\ asked[n].kind = "rotate"
       \/ old # 0 /\ keys[old].state = "live" /\ asked[n].kind = "recover" /\ old = asked[n].old

(* The rows it leaves: its own works, the one it is issued from gives way.     *)
Succeeding(n, old) ==
    /\ keys' \in [Keys -> KeyRows] /\ KeysInv' /\ keys'[n].from = old
    /\ \A m \in Keys :
          /\ m = n => keys'[m].state = "live"
          /\ m # n => /\ keys'[m].from = keys[m].from
                      /\ keys'[m].state = IF m = old THEN "revoked" ELSE keys[m].state

LEMMA IssueKeeps ==
    ASSUME DeliveryAssumption, DeliveryInv, NEW c \in Calls, NEW n \in Keys,
           NEW old \in 0..MaxRequests, Issuing(c, n, old), Succeeding(n, old)
    PROVE  DeliveryInv'
  <1> USE DEF Issuing, Succeeding
  <1>1. n \in Keys /\ n <= client.requests /\ n > 0 /\ keys[n].state = "none"
    BY DeliveryOpened, Named DEF DeliveryInv, AskedInv, Issued
  <1>2. /\ calls' \in [Calls -> CallRows]
        /\ \A d \in Calls : /\ calls'[d].request = calls[d].request
                            /\ calls'[d].phase = IF d = c THEN "issued" ELSE calls[d].phase
    <2>1. calls' = [calls EXCEPT ![c].phase = "issued"] /\ calls \in [Calls -> CallRows]
      BY DEF Answered, DeliveryInv, DeliveryShapes
    <2> QED  BY <2>1 DEF CallRows
  <1>3. DeliveryShapes'
    BY <1>2 DEF DeliveryInv, DeliveryShapes
  <1>4. /\ \A m \in Keys : Issued(m) => Issued(m)'
        /\ Issued(n)' /\ \A m \in Keys : Issued(m)' => Issued(m) \/ m = n
    <2>1. \A m \in Keys : m > 0 /\ (keys[m].state = "live" => keys[m].state # "none")
      BY DeliveryOpened
    <2>2. \A m \in Keys : keys'[m].state # "none" <=> keys[m].state # "none" \/ m = n
      BY <2>1
    <2> QED  BY <2>1, <2>2, <1>1 DEF Issued
  <1>5. AskedInv'
    BY <1>1, <1>2, <1>4, DeliveryOpened, Named DEF DeliveryInv, AskedInv, Issued
  <1>6. OneLive'
    <2>1. old # 0 => old \in Keys /\ Issued(old)
      BY Named DEF Issued
    <2>2. \A m \in Keys : keys'[m].state = "live" => m = n
      <3>1. CASE old = 0
        <4>1. ~Issued(1) /\ 1 \in Keys
          BY <3>1, <1>1 DEF DeliveryInv, AskedInv
        <4>2. \A m \in Keys : keys[m].state # "live"
          BY <4>1, DeliveryOpened DEF DeliveryInv, OneLive, Issued
        <4> QED  BY <4>2
      <3>2. CASE old # 0
        BY <3>2, <2>1, <1>1 DEF DeliveryInv, OneLive
      <3> QED  BY <3>1, <3>2
    <2>3. \A m \in Keys : Issued(m)' => Issued(1)'
      <3>1. CASE old = 0
        BY <3>1, <1>1, <1>4 DEF DeliveryInv, AskedInv
      <3>2. CASE old # 0
        <4>1. Issued(1) /\ 1 \in Keys
          BY <3>2, <2>1, <1>1, DeliveryOpened DEF DeliveryInv, OneLive, Keys
        <4> QED  BY <4>1, <1>4
      <3> QED  BY <3>1, <3>2
    <2> QED  BY <2>2, <2>3 DEF OneLive
  <1>7. ClientInv'
    <2>1. client.token # 0 => Issued(client.token)'
      BY <1>4, Named, DeliveryOpened DEF DeliveryInv, ClientInv
    <2>2. \A d \in client.waits : calls'[d].phase # "none" /\ calls'[d].request = calls[d].request
      BY <1>2, DeliveryOpened DEF DeliveryInv, ClientInv
    <2> QED  BY <2>1, <2>2 DEF DeliveryInv, ClientInv, Journaled, SavedAlready
  <1>8. ASSUME ~client.mixed PROVE OrderlyInv'
    <2>1. OrderlyInv
      BY <1>8 DEF DeliveryInv
    <2>2. n \in {client.journal.key, client.journal.recovery}
      BY <2>1, <1>1 DEF OrderlyInv, Issued
    <2>3. Latest' = n
      <3>1. CASE n = client.journal.recovery
        BY <3>1, <1>4 DEF Latest
      <3>2. CASE n = client.journal.key /\ n # client.journal.recovery
        <4>1. ~Issued(client.journal.recovery)'
          BY <3>2, <2>1, <1>4, Named, DeliveryOpened DEF OrderlyInv, Issued
        <4> QED  BY <3>2, <4>1, <1>4 DEF Latest
      <3> QED  BY <2>2, <3>1, <3>2
    <2>4. \A m \in Keys : keys'[m].state = "live" <=> m = Latest'
      BY <2>3, <1>1, <1>6 DEF OneLive
    <2>5. \A m \in Keys : m <= client.requests /\ ~Issued(m)' =>
             m \in {client.journal.key, client.journal.recovery}
      BY <2>1, <1>4 DEF OrderlyInv
    <2>6. client.journal.moved => Issued(client.journal.key)'
      BY <2>1, <1>4, Named, DeliveryOpened DEF OrderlyInv
    <2>7. Issued(client.journal.recovery)' =>
             /\ keys'[client.journal.recovery].from = client.journal.key
             /\ Issued(client.journal.key)'
      <3> SUFFICES ASSUME Issued(client.journal.recovery)'
                   PROVE  /\ keys'[client.journal.recovery].from = client.journal.key
                          /\ Issued(client.journal.key)'
        OBVIOUS
      <3>1. client.journal.recovery \in Keys
        BY Named, DeliveryOpened DEF Issued
      <3>2. CASE n = client.journal.recovery
        <4>1. old = client.journal.key /\ old # 0
          BY <3>1, <3>2, Named, DeliveryOpened
        <4> QED  BY <3>1, <3>2, <4>1, <1>4, Named DEF Issued
      <3>3. CASE n # client.journal.recovery
        BY <3>1, <3>3, <2>1, <1>4, Named, DeliveryOpened DEF OrderlyInv
      <3> QED  BY <3>2, <3>3
    <2>8. \A d \in client.waits : calls'[d].request = calls[d].request
      BY <1>2, DeliveryOpened
    <2> QED  BY <2>1, <2>4, <2>5, <2>6, <2>7, <2>8 DEF OrderlyInv
  <1> QED  BY <1>3, <1>5, <1>6, <1>7, <1>8 DEF DeliveryInv

LEMMA NewKeyRow ==
    ASSUME DeliveryAssumption, NEW from \in 0..MaxRequests, NEW expires \in Nat,
           NEW deadline \in Nat
    PROVE  /\ NewKey(from, expires, deadline) \in KeyRows
           /\ NewKey(from, expires, deadline).state = "live"
           /\ NewKey(from, expires, deadline).from = from
           /\ NewKey(from, expires, deadline).released = 0
           /\ ~NewKey(from, expires, deadline).consumed
           /\ NewKey(from, expires, deadline).deadline <= NewKey(from, expires, deadline).expires
  <1>1. Least(expires, deadline) \in Nat /\ Least(expires, deadline) <= expires
    BY DEF Least
  <1> QED  BY <1>1 DEF NewKey, KeyRows

(* The rows of a credential issued from another: the old one ends as the new   *)
(* one opens.                                                                  *)
Opened(new, old) ==
    /\ new \in KeyRows /\ new.state = "live" /\ new.from = old /\ new.released = 0
    /\ ~new.consumed /\ new.deadline <= new.expires
Closed(gone, old) ==
    /\ gone \in KeyRows /\ gone.state = "revoked" /\ gone.from = keys[old].from
    /\ gone.released = keys[old].released /\ gone.claimed = keys[old].claimed
    /\ gone.deadline = keys[old].deadline /\ gone.expires = keys[old].expires

LEMMA RowsSucceed ==
    ASSUME DeliveryAssumption, DeliveryInv, NEW n \in Keys, NEW old \in Keys, old # n,
           NEW new, Opened(new, old), NEW gone, Closed(gone, old),
           keys' = [keys EXCEPT ![n] = new, ![old] = gone]
    PROVE  Succeeding(n, old)
  <1> USE DEF Opened, Closed
  <1>1. keys \in [Keys -> KeyRows] /\ KeysInv
    BY DEF DeliveryInv, DeliveryShapes
  <1>2. /\ keys' \in [Keys -> KeyRows]
        /\ \A m \in Keys :
              keys'[m] = IF m = n THEN new ELSE IF m = old THEN gone ELSE keys[m]
    BY <1>1
  <1>3. KeysInv'
    BY <1>1, <1>2 DEF KeysInv
  <1> QED  BY <1>2, <1>3 DEF Succeeding

LEMMA IssuesKeep ==
    ASSUME DeliveryAssumption, DeliveryInv, NEW c \in Calls,
           IssueFirst(c) \/ IssueRotated(c) \/ IssueRecovered(c)
    PROVE  DeliveryInv'
  <1> DEFINE n == calls[c].request
  <1>1. /\ calls[c].phase = "sent" /\ ~Issued(n) /\ UNCHANGED <<asked, client, moment>>
        /\ Answered(c, "issued") /\ n \in Keys
    <2>1. /\ calls[c].phase = "sent" /\ ~Issued(n) /\ UNCHANGED <<asked, client, moment>>
          /\ Answered(c, "issued")
      BY DEF IssueFirst, IssueRotated, IssueRecovered
    <2>2. n \in 1..client.requests
      BY <2>1 DEF DeliveryInv, AskedInv
    <2> QED  BY <2>1, <2>2, DeliveryOpened, Named
  <1>2. keys \in [Keys -> KeyRows] /\ KeysInv
    BY DEF DeliveryInv, DeliveryShapes
  <1>3. CASE IssueFirst(c)
    <2>1. /\ asked[n].kind = "create"
          /\ keys' = [keys EXCEPT ![n] = NewKey(0, moment + TokenTTL, moment + Window)]
      BY <1>3 DEF IssueFirst
    <2>2. moment + TokenTTL \in Nat /\ moment + Window \in Nat /\ 0 \in 0..MaxRequests
      BY DeliveryOpened
    <2> DEFINE new == NewKey(0, moment + TokenTTL, moment + Window)
    <2>3. /\ new \in KeyRows /\ new.state = "live" /\ new.from = 0 /\ new.released = 0
          /\ ~new.consumed /\ new.deadline <= new.expires
      BY <2>2, NewKeyRow
    <2> HIDE DEF new
    <2>4. /\ keys' \in [Keys -> KeyRows]
          /\ \A m \in Keys : keys'[m] = IF m = n THEN new ELSE keys[m]
      BY <1>1, <1>2, <2>1, <2>3 DEF new
    <2>5. KeysInv'
      BY <1>2, <2>3, <2>4 DEF KeysInv
    <2>6. 0 \notin Keys
      BY DeliveryOpened
    <2>7. Issuing(c, n, 0)
      BY <1>1, <2>1 DEF Issuing
    <2> HIDE DEF n
    <2>8. Succeeding(n, 0)
      BY <1>1, <2>3, <2>4, <2>5, <2>6 DEF Succeeding
    <2> QED  BY <1>1, <2>2, <2>7, <2>8, IssueKeeps
  <1>4. CASE IssueRotated(c)
    <2> DEFINE old == calls[c].proof
    <2>1. /\ asked[n].kind = "rotate" /\ Usable(old)
          /\ keys' = [keys EXCEPT ![n] = NewKey(old, moment + TokenTTL, moment + Window),
                                  ![old].state = "revoked"]
      BY <1>4 DEF IssueRotated
    <2>2. /\ moment + TokenTTL \in Nat /\ moment + Window \in Nat /\ old \in 0..MaxRequests
          /\ old \in Keys /\ old # 0 /\ keys[old].state = "live" /\ old # n
      BY <1>1, <2>1, DeliveryOpened, Named DEF Usable, Issued
    <2> DEFINE new == NewKey(old, moment + TokenTTL, moment + Window)
    <2>3. Opened(new, old)
      BY <2>2, NewKeyRow DEF Opened
    <2> HIDE DEF new
    <2> DEFINE gone == [keys[old] EXCEPT !.state = "revoked"]
    <2>4. Closed(gone, old)
      BY <2>2, DeliveryOpened DEF Closed, KeyRows
    <2>5. keys' = [keys EXCEPT ![n] = new, ![old] = gone]
      BY <2>1, <2>2, <1>2 DEF new
    <2>6. Issuing(c, n, old)
      BY <1>1, <2>1, <2>2 DEF Issuing
    <2> HIDE DEF n, old, gone
    <2>7. Succeeding(n, old)
      BY <1>1, <2>2, <2>3, <2>4, <2>5, RowsSucceed
    <2> QED  BY <1>1, <2>2, <2>6, <2>7, IssueKeeps
  <1>5. CASE IssueRecovered(c)
    <2> DEFINE old == asked[n].old
    <2>1. /\ asked[n].kind = "recover" /\ Usable(old)
          /\ keys' = [keys EXCEPT ![n] = NewKey(old, keys[old].expires, keys[old].deadline),
                                  ![old].state = "revoked", ![old].consumed = TRUE]
      BY <1>5 DEF IssueRecovered
    <2>2. /\ old \in 0..MaxRequests /\ old \in Keys /\ old # 0 /\ keys[old].state = "live"
          /\ keys[old].expires \in Nat /\ keys[old].deadline \in Nat /\ old # n
      BY <1>1, <2>1, DeliveryOpened, Named DEF Usable, Issued
    <2> DEFINE new == NewKey(old, keys[old].expires, keys[old].deadline)
    <2>3. Opened(new, old)
      BY <2>2, NewKeyRow DEF Opened
    <2> HIDE DEF new
    <2> DEFINE gone == [keys[old] EXCEPT !.state = "revoked", !.consumed = TRUE]
    <2>4. Closed(gone, old)
      BY <2>2, DeliveryOpened DEF Closed, KeyRows
    <2>5. keys' = [keys EXCEPT ![n] = new, ![old] = gone]
      BY <2>1, <2>2, <1>2 DEF new
    <2>6. Issuing(c, n, old)
      BY <1>1, <2>1, <2>2 DEF Issuing
    <2> HIDE DEF n, old, gone
    <2>7. Succeeding(n, old)
      BY <1>1, <2>2, <2>3, <2>4, <2>5, RowsSucceed
    <2> QED  BY <1>1, <2>2, <2>6, <2>7, IssueKeeps
  <1> QED  BY <1>3, <1>4, <1>5

(* An answer moves a call on and says nothing of which credential works.       *)
LEMMA AnsweredKeeps ==
    ASSUME DeliveryAssumption, DeliveryInv, NEW c \in Calls,
           calls[c].phase # "none", Issued(calls[c].request), UNCHANGED <<asked, client>>,
           NEW phase \in {"issued", "secret", "gone"}, Answered(c, phase),
           keys' \in [Keys -> KeyRows], KeysInv', moment' \in 0..LastMoment,
           \A n \in Keys : keys'[n].state = keys[n].state /\ keys'[n].from = keys[n].from
    PROVE  DeliveryInv'
  <1>1. /\ calls' \in [Calls -> CallRows]
        /\ \A d \in Calls : /\ calls'[d].request = calls[d].request
                            /\ calls'[d].phase = IF d = c THEN phase ELSE calls[d].phase
    <2>1. calls' = [calls EXCEPT ![c].phase = phase] /\ calls \in [Calls -> CallRows]
      BY DEF Answered, DeliveryInv, DeliveryShapes
    <2> QED  BY <2>1 DEF CallRows
  <1>2. DeliveryShapes'
    BY <1>1 DEF DeliveryInv, DeliveryShapes
  <1>3. \A n \in 0..MaxRequests : Issued(n)' <=> Issued(n)
    BY Named DEF Issued
  <1>4. \A n \in Keys : (Issued(n)' <=> Issued(n)) /\ n \in 0..MaxRequests
    BY <1>3, DeliveryOpened
  <1>5. AskedInv'
    BY <1>1, <1>3, <1>4, DeliveryOpened DEF DeliveryInv, AskedInv
  <1>6. OneLive'
    <2>1. 1 \in Keys \/ Keys = {}
      BY DeliveryOpened DEF Keys
    <2> QED  BY <1>4, <2>1 DEF DeliveryInv, OneLive
  <1>7. ClientInv'
    BY <1>1, <1>3, DeliveryOpened DEF DeliveryInv, ClientInv, Journaled, SavedAlready
  <1>8. ASSUME ~client.mixed PROVE OrderlyInv'
    <2>1. Latest' = Latest
      BY <1>3, DeliveryOpened DEF Latest
    <2>2. Issued(client.journal.recovery) => client.journal.recovery \in Keys
      BY Named, DeliveryOpened
    <2> QED  BY <1>1, <1>3, <1>4, <1>8, <2>1, <2>2, DeliveryOpened DEF DeliveryInv, OrderlyInv
  <1> QED  BY <1>2, <1>5, <1>6, <1>7, <1>8 DEF DeliveryInv

LEMMA AnswersKeep ==
    ASSUME DeliveryAssumption, DeliveryInv, NEW c \in Calls, AnswerAgain(c) \/ Release(c)
    PROVE  DeliveryInv'
  <1> DEFINE n == calls[c].request
  <1>1. /\ keys \in [Keys -> KeyRows] /\ KeysInv /\ moment \in 0..LastMoment
        /\ n \in 0..MaxRequests
    BY DeliveryOpened DEF DeliveryInv, DeliveryShapes
  <1>2. CASE AnswerAgain(c)
    BY <1>1, <1>2, AnsweredKeeps DEF AnswerAgain, KeysInv
  <1>3. CASE Release(c)
    <2>1. /\ Issued(n) /\ n \in Keys /\ calls[c].phase = "issued"
          /\ UNCHANGED <<asked, client, moment>>
      BY <1>1, <1>3, Named DEF Release, Usable, Issued
    <2>2. CASE Answered(c, "gone") /\ UNCHANGED keys
      BY <1>1, <2>1, <2>2, AnsweredKeeps DEF KeysInv
    <2>3. CASE /\ ~keys[n].claimed /\ Answered(c, "secret")
               /\ keys' = [keys EXCEPT ![n].claimed = TRUE, ![n].released = @ + 1]
      <3>1. keys[n].released = 0
        <4>1. keys[n].released \in Nat
          BY <2>1, DeliveryOpened
        <4> HIDE DEF n
        <4> QED  BY <1>1, <2>1, <2>3, <4>1 DEF KeysInv
      <3>2. \A k \in Nat : \A m \in Keys :
               LET row == [keys[m] EXCEPT !.claimed = TRUE, !.released = k]
               IN  /\ row \in KeyRows /\ row.released = k /\ row.claimed = TRUE
                   /\ row.deadline = keys[m].deadline /\ row.expires = keys[m].expires
                   /\ row.state = keys[m].state /\ row.from = keys[m].from
                   /\ row.consumed = keys[m].consumed
        BY DeliveryOpened DEF KeyRows
      <3> DEFINE row == [keys[n] EXCEPT !.claimed = TRUE, !.released = 1]
      <3>3. /\ row \in KeyRows /\ row.released = 1 /\ row.claimed = TRUE
            /\ row.deadline = keys[n].deadline /\ row.expires = keys[n].expires
            /\ row.state = keys[n].state /\ row.from = keys[n].from
            /\ row.consumed = keys[n].consumed
        BY <2>1, <3>2
      <3>4. keys' = [keys EXCEPT ![n] = row]
        <4>1. keys' = [keys EXCEPT ![n] = [keys[n] EXCEPT !.claimed = TRUE,
                                                          !.released = keys[n].released + 1]]
          BY <2>3
        <4> QED  BY <3>1, <4>1
      <3> HIDE DEF row
      <3>5. /\ keys' \in [Keys -> KeyRows]
            /\ \A m \in Keys : keys'[m] = IF m = n THEN row ELSE keys[m]
        BY <1>1, <2>1, <3>3, <3>4
      <3>6. KeysInv'
        BY <1>1, <3>3, <3>5 DEF KeysInv
      <3> QED  BY <1>1, <2>1, <2>3, <3>3, <3>5, <3>6, AnsweredKeeps
    <2> QED  BY <1>3, <2>2, <2>3 DEF Release
  <1> QED  BY <1>2, <1>3

LEMMA CallEndsKeeps ==
    ASSUME DeliveryAssumption, DeliveryInv, NEW c \in Calls, CallEnds(c)
    PROVE  DeliveryInv'
  <1>1. /\ UNCHANGED <<keys, asked, moment>> /\ calls' = [calls EXCEPT ![c] = NoCall]
        /\ client' = [client EXCEPT !.waits = client.waits \ {c}]
    BY DEF CallEnds
  <1>2. /\ client' \in ClientRows /\ client'.waits = client.waits \ {c}
        /\ client'.token = client.token /\ client'.journal = client.journal
        /\ client'.saved = client.saved /\ client'.requests = client.requests
        /\ client'.mixed = client.mixed
    BY <1>1, DeliveryOpened DEF ClientRows
  <1>3. /\ calls' \in [Calls -> CallRows] /\ calls'[c].phase = "none"
        /\ \A d \in Calls : d # c => calls'[d] = calls[d]
    <2>1. NoCall \in CallRows /\ NoCall.phase = "none"
      BY DeliveryOpened DEF NoCall, CallRows
    <2> QED  BY <1>1, <2>1 DEF DeliveryInv, DeliveryShapes
  <1>4. DeliveryShapes' /\ KeysInv' /\ OneLive'
    BY <1>1, <1>2, <1>3 DEF DeliveryInv, DeliveryShapes, KeysInv, OneLive, Issued
  <1>5. AskedInv'
    BY <1>1, <1>2, <1>3 DEF DeliveryInv, AskedInv, Issued
  <1>6. ClientInv'
    BY <1>1, <1>2, <1>3 DEF DeliveryInv, ClientInv, Issued, Journaled, SavedAlready
  <1>7. ~client'.mixed => OrderlyInv'
    BY <1>1, <1>2, <1>3 DEF DeliveryInv, OrderlyInv, Issued, Latest
  <1> QED  BY <1>4, <1>5, <1>6, <1>7 DEF DeliveryInv

LEMMA PassesKeeps == ASSUME DeliveryAssumption, DeliveryInv, Passes PROVE DeliveryInv'
  <1>1. UNCHANGED <<keys, asked, calls, client>> /\ moment' \in 0..LastMoment
    BY DeliveryOpened DEF Passes
  <1> QED
    BY <1>1 DEF DeliveryInv, DeliveryShapes, KeysInv, AskedInv, OneLive, ClientInv, OrderlyInv,
                Latest, Issued, Journaled, SavedAlready

(* What it is to put a request to the service.                                 *)
LEMMA SendMoves ==
    ASSUME DeliveryAssumption, DeliveryInv, NEW c \in Calls, NEW n \in 1..client.requests,
           Send(c, n)
    PROVE  /\ calls' \in [Calls -> CallRows]
           /\ calls'[c].phase = "sent" /\ calls'[c].request = n
           /\ \A d \in Calls : d # c => calls'[d] = calls[d]
  <1>1. moment + Patience \in Nat /\ n \in 0..MaxRequests /\ client.token \in 0..MaxRequests
    BY DeliveryOpened
  <1>2. [phase |-> "sent", request |-> n, proof |-> client.token, until |-> moment + Patience]
            \in CallRows
    BY <1>1 DEF CallRows
  <1> QED  BY <1>2 DEF Send, DeliveryInv, DeliveryShapes

LEMMA AskingKeeps ==
    ASSUME DeliveryAssumption, DeliveryInv, NEW c \in Calls, Ask(c) \/ Recover(c)
    PROVE  DeliveryInv'
  <1> DEFINE n == IF Ask(c) THEN client.journal.key ELSE client.journal.recovery
  <1>1. n \in 1..client.requests /\ Send(c, n) /\ Ready /\ Journaled
    BY DeliveryOpened DEF Ask, Recover, DeliveryInv, ClientInv, Journaled
  <1>2. /\ \/ n = client.journal.recovery
           \/ n = client.journal.key /\ ~client.journal.moved
        /\ client' \in ClientRows /\ client'.waits = {c} /\ client'.saved = client.saved
        /\ client'.token = client.token /\ client'.journal = client.journal
        /\ client'.requests = client.requests
        /\ ~client'.mixed =>
              ~client.mixed /\ n = IF client.journal.recovery = 0 THEN client.journal.key
                                                                  ELSE client.journal.recovery
    <2>1. \A b \in BOOLEAN : LET new == [client EXCEPT !.waits = {c}, !.mixed = b]
                             IN  /\ new \in ClientRows /\ new.waits = {c} /\ new.mixed = b
                                 /\ new.saved = client.saved /\ new.token = client.token
                                 /\ new.journal = client.journal
                                 /\ new.requests = client.requests
      BY DeliveryOpened DEF ClientRows
    <2>2. CASE Ask(c)
      <3> DEFINE b == client.mixed \/ client.journal.recovery # 0
      <3>1. client' = [client EXCEPT !.waits = {c}, !.mixed = b] /\ ~client.journal.moved
        BY <2>2 DEF Ask
      <3>2. b \in BOOLEAN /\ (~b => ~client.mixed /\ client.journal.recovery = 0)
        BY DeliveryOpened
      <3> HIDE DEF b
      <3>3. client'.mixed = b /\ n = client.journal.key
        BY <2>1, <2>2, <3>1, <3>2
      <3> HIDE DEF n
      <3> QED  BY <2>1, <3>1, <3>2, <3>3
    <2>3. CASE ~Ask(c) /\ Recover(c)
      <3>1. client' = [client EXCEPT !.waits = {c}] /\ client.journal.recovery # 0
        BY <2>3 DEF Recover
      <3>2. /\ client' \in ClientRows /\ client'.waits = {c} /\ client'.mixed = client.mixed
            /\ client'.saved = client.saved /\ client'.token = client.token
            /\ client'.journal = client.journal /\ client'.requests = client.requests
        BY <3>1, DeliveryOpened DEF ClientRows
      <3>3. n = client.journal.recovery
        BY <2>3
      <3>4. ~client'.mixed => ~client.mixed
        BY <3>2
      <3> HIDE DEF n
      <3> QED  BY <3>1, <3>2, <3>3, <3>4
    <2> QED  BY <2>2, <2>3
  <1>3. /\ calls' \in [Calls -> CallRows]
        /\ calls'[c].phase = "sent" /\ calls'[c].request = n
        /\ \A d \in Calls : d # c => calls'[d] = calls[d]
    BY <1>1, SendMoves
  <1>4. UNCHANGED <<keys, asked, moment>>
    BY DEF Ask, Recover
  <1>5. ~client'.saved
    BY <1>1, <1>2 DEF Ready
  <1> HIDE DEF n
  <1>6. DeliveryShapes' /\ KeysInv' /\ OneLive'
    BY <1>2, <1>3, <1>4, <1>5 DEF DeliveryInv, DeliveryShapes, KeysInv, OneLive, Issued
  <1>7. AskedInv'
    BY <1>1, <1>2, <1>3, <1>4, <1>5 DEF DeliveryInv, AskedInv, Issued
  <1>8. ClientInv'
    BY <1>2, <1>3, <1>4, <1>5 DEF DeliveryInv, ClientInv, Issued, Journaled, SavedAlready
  <1>9. ~client'.mixed => OrderlyInv'
    BY <1>2, <1>3, <1>4, <1>5 DEF DeliveryInv, OrderlyInv, Issued, Latest
  <1> QED  BY <1>6, <1>7, <1>8, <1>9 DEF DeliveryInv

(* A request is written down under a number of its own.                        *)
LEMMA WriteDown ==
    ASSUME DeliveryAssumption, DeliveryInv, NEW kind \in {"create", "rotate", "recover"},
           NEW old \in 0..MaxRequests, client.requests < MaxRequests,
           kind = "create" => NextRequest = 1, kind = "recover" => old # 0 /\ old < NextRequest,
           asked' = [asked EXCEPT ![NextRequest] = [kind |-> kind, old |-> old]],
           client'.requests = NextRequest, UNCHANGED <<keys, calls>>
    PROVE  /\ AskedInv' /\ asked' \in [Keys -> AskedRows]
           /\ NextRequest \in Keys /\ NextRequest \in 0..MaxRequests /\ ~Issued(NextRequest)
           /\ asked'[NextRequest] = [kind |-> kind, old |-> old]
           /\ \A n \in Keys : n # NextRequest => asked'[n] = asked[n]
  <1>1. /\ NextRequest \in Keys /\ NextRequest \in 0..MaxRequests
        /\ NextRequest = client.requests + 1
    BY DeliveryOpened DEF NextRequest, Keys
  <1>2. ~Issued(NextRequest)
    BY <1>1, DeliveryOpened DEF DeliveryInv, AskedInv, Issued
  <1>3. [kind |-> kind, old |-> old] \in AskedRows
    BY DEF AskedRows
  <1>4. /\ asked' \in [Keys -> AskedRows]
        /\ asked'[NextRequest] = [kind |-> kind, old |-> old]
        /\ \A n \in Keys : n # NextRequest => asked'[n] = asked[n]
    BY <1>1, <1>3 DEF DeliveryInv, DeliveryShapes
  <1>5. /\ \A n \in Keys : asked'[n].kind = "none" <=> n > client'.requests
        /\ \A n \in Keys : asked'[n].kind = "create" => n = 1
        /\ \A n \in Keys : asked'[n].kind = "recover" => asked'[n].old # 0 /\ asked'[n].old < n
    <2>1. \A n \in Keys : n > client'.requests <=> n > client.requests /\ n # NextRequest
      BY <1>1, DeliveryOpened
    <2> QED  BY <1>1, <1>4, <2>1 DEF DeliveryInv, AskedInv
  <1>6. \A n \in Int : n <= client.requests => n <= client'.requests
    BY <1>1, DeliveryOpened
  <1>7. /\ \A n \in Keys : keys'[n].state # "none" => n <= client'.requests
        /\ \A c \in Calls : calls'[c].phase # "none" => calls'[c].request \in 1..client'.requests
        /\ \A c \in Calls : calls'[c].phase \in {"issued", "secret", "gone"} =>
              Issued(calls[c].request)'
    BY <1>1, <1>6, DeliveryOpened DEF DeliveryInv, AskedInv, Issued
  <1> QED  BY <1>1, <1>2, <1>4, <1>5, <1>7 DEF AskedInv

LEMMA BeginKeepsDelivery ==
    ASSUME DeliveryAssumption, DeliveryInv, BeginOperation
    PROVE  DeliveryInv'
  <1> DEFINE kind == IF client.token = 0 THEN "create" ELSE "rotate"
  <1>1. /\ client.waits = {} /\ ~client.saved /\ client.journal.key = 0
        /\ client.requests < MaxRequests /\ UNCHANGED <<keys, calls, moment>>
        /\ asked' = [asked EXCEPT ![NextRequest] = [kind |-> kind, old |-> 0]]
        /\ client' = [client EXCEPT !.journal = [NoIntent EXCEPT !.key = NextRequest],
                                    !.requests = NextRequest]
    BY DEF BeginOperation, Ready, Journaled
  <1>2. NextRequest \in 0..MaxRequests
    BY <1>1, DeliveryOpened DEF NextRequest
  <1>3. /\ client' \in ClientRows /\ client'.waits = {} /\ ~client'.saved
        /\ client'.token = client.token /\ client'.requests = NextRequest
        /\ client'.mixed = client.mixed
        /\ client'.journal.key = NextRequest /\ client'.journal.recovery = 0
        /\ ~client'.journal.moved
    <2>1. \A n \in 0..MaxRequests :
             LET new == [NoIntent EXCEPT !.key = n]
             IN  new \in Intents /\ new.key = n /\ new.recovery = 0 /\ ~new.moved
      <3>1. NoIntent \in Intents /\ NoIntent.recovery = 0 /\ ~NoIntent.moved
        BY DeliveryOpened DEF NoIntent, Intents
      <3> QED  BY <3>1 DEF Intents
    <2> DEFINE intent == [NoIntent EXCEPT !.key = NextRequest]
    <2>2. /\ intent \in Intents /\ intent.key = NextRequest /\ intent.recovery = 0
          /\ ~intent.moved
      BY <1>2, <2>1
    <2>3. client' = [client EXCEPT !.journal = intent, !.requests = NextRequest]
      BY <1>1
    <2> HIDE DEF intent
    <2>4. /\ client' \in ClientRows /\ client'.waits = client.waits
          /\ client'.saved = client.saved /\ client'.token = client.token
          /\ client'.requests = NextRequest /\ client'.mixed = client.mixed
          /\ client'.journal = intent
      BY <1>2, <2>2, <2>3, DeliveryOpened DEF ClientRows
    <2> QED  BY <1>1, <2>2, <2>4
  <1>4. kind = "create" => NextRequest = 1
    BY <1>1, DeliveryOpened DEF DeliveryInv, ClientInv, Journaled, NextRequest
  <1>5. kind \in {"create", "rotate"} /\ 0 \in 0..MaxRequests
    BY DeliveryOpened
  <1> HIDE DEF kind
  <1>6. /\ AskedInv' /\ asked' \in [Keys -> AskedRows]
        /\ NextRequest \in Keys /\ ~Issued(NextRequest)
        /\ asked'[NextRequest] = [kind |-> kind, old |-> 0]
        /\ \A n \in Keys : n # NextRequest => asked'[n] = asked[n]
    BY <1>1, <1>3, <1>4, <1>5, WriteDown
  <1>7. DeliveryShapes' /\ KeysInv' /\ OneLive'
    BY <1>1, <1>3, <1>6 DEF DeliveryInv, DeliveryShapes, KeysInv, OneLive, Issued
  <1>8. /\ NextRequest # 0 /\ client.token < NextRequest /\ 0 < NextRequest
        /\ NextRequest <= NextRequest
    BY <1>2, DeliveryOpened DEF NextRequest, DeliveryInv, ClientInv
  <1>9. ClientInv'
    BY <1>1, <1>3, <1>5, <1>6, <1>8, DeliveryOpened
       DEF DeliveryInv, ClientInv, Issued, Journaled, SavedAlready
  <1>10. ASSUME ~client.mixed PROVE OrderlyInv'
    <2>1. OrderlyInv /\ client.journal.recovery = 0
      BY <1>1, <1>10, Named DEF DeliveryInv
    <2>2. Latest = client.token /\ Latest' = client.token
      BY <1>1, <1>3, <1>6, <2>1 DEF Latest, Issued
    <2>3. \A n \in Keys : n <= NextRequest => n <= client.requests \/ n = NextRequest
      BY <1>2, DeliveryOpened DEF NextRequest
    <2>4. \A n \in Keys : n <= NextRequest /\ ~Issued(n) => n = NextRequest
      BY <1>1, <2>1, <2>3, DeliveryOpened DEF OrderlyInv
    <2>5. ~Issued(0)'
      BY DEF Issued
    <2> QED  BY <1>1, <1>3, <1>8, <2>1, <2>2, <2>4, <2>5 DEF OrderlyInv, Issued
  <1> QED  BY <1>3, <1>6, <1>7, <1>9, <1>10 DEF DeliveryInv

LEMMA BeginRecoveryKeeps ==
    ASSUME DeliveryAssumption, DeliveryInv, BeginRecovery
    PROVE  DeliveryInv'
  <1>1. /\ client.waits = {} /\ ~client.saved /\ client.journal.key # 0 /\ ~SavedAlready
        /\ client.journal.recovery = 0
        /\ client.requests < MaxRequests /\ UNCHANGED <<keys, calls, moment>>
        /\ asked' = [asked EXCEPT ![NextRequest] =
                        [kind |-> "recover", old |-> client.journal.key]]
        /\ client' = [client EXCEPT !.journal.recovery = NextRequest, !.requests = NextRequest]
    BY DEF BeginRecovery, Ready, Journaled
  <1>2. /\ NextRequest \in 0..MaxRequests /\ client.journal.key < NextRequest
        /\ NextRequest = client.requests + 1
    BY <1>1, DeliveryOpened DEF NextRequest, DeliveryInv, ClientInv
  <1>3. /\ client' \in ClientRows /\ client'.waits = {} /\ ~client'.saved
        /\ client'.token = client.token /\ client'.requests = NextRequest
        /\ client'.mixed = client.mixed
        /\ client'.journal.key = client.journal.key /\ client'.journal.recovery = NextRequest
        /\ client'.journal.moved = client.journal.moved
    <2>1. [client.journal EXCEPT !.recovery = NextRequest] \in Intents
      BY <1>2, DeliveryOpened DEF Intents
    <2>2. client' = [client EXCEPT !.journal = [client.journal EXCEPT !.recovery = NextRequest],
                                   !.requests = NextRequest]
      BY <1>1
    <2>3. /\ client' \in ClientRows /\ client'.waits = {} /\ ~client'.saved
          /\ client'.token = client.token /\ client'.requests = NextRequest
          /\ client'.mixed = client.mixed
          /\ client'.journal = [client.journal EXCEPT !.recovery = NextRequest]
      BY <1>1, <1>2, <2>1, <2>2, DeliveryOpened DEF ClientRows
    <2> QED  BY <2>3, DeliveryOpened DEF Intents
  <1>4. /\ AskedInv' /\ asked' \in [Keys -> AskedRows]
        /\ NextRequest \in Keys /\ ~Issued(NextRequest)
        /\ asked'[NextRequest] = [kind |-> "recover", old |-> client.journal.key]
        /\ \A n \in Keys : n # NextRequest => asked'[n] = asked[n]
    BY <1>1, <1>2, <1>3, DeliveryOpened, WriteDown
  <1>5. DeliveryShapes' /\ KeysInv' /\ OneLive'
    BY <1>1, <1>3, <1>4 DEF DeliveryInv, DeliveryShapes, KeysInv, OneLive, Issued
  <1>6. client.journal.key \in Keys /\ client.journal.key # NextRequest
    BY <1>1, <1>2, Named, DeliveryOpened
  <1>7. ClientInv'
    <2>1. /\ client.token <= NextRequest /\ client.journal.key <= NextRequest
          /\ NextRequest <= NextRequest
      BY <1>2, DeliveryOpened DEF DeliveryInv, ClientInv
    <2> QED  BY <1>1, <1>3, <1>4, <1>6, <2>1
                DEF DeliveryInv, ClientInv, Issued, Journaled, SavedAlready
  <1>8. ASSUME ~client.mixed PROVE OrderlyInv'
    <2>1. OrderlyInv
      BY <1>8 DEF DeliveryInv
    <2>2. Latest' = Latest
      BY <1>1, <1>3, <1>4 DEF Latest, Issued
    <2>3. \A n \in Keys : n <= NextRequest => n <= client.requests \/ n = NextRequest
      BY <1>2, DeliveryOpened
    <2>4. \A n \in Keys : n <= NextRequest /\ ~Issued(n) =>
             n = NextRequest \/ n = client.journal.key
      BY <1>1, <2>1, <2>3, DeliveryOpened DEF OrderlyInv
    <2>5. client.token # 0 => client.token # client.journal.key
      BY <1>1 DEF SavedAlready
    <2> QED  BY <1>1, <1>3, <1>4, <2>1, <2>2, <2>4, <2>5 DEF OrderlyInv, Issued
  <1> QED  BY <1>3, <1>4, <1>5, <1>7, <1>8 DEF DeliveryInv

(* A journal is removed once its credential is saved.                          *)
LEMMA ForgetKeeps ==
    ASSUME DeliveryAssumption, DeliveryInv, Forget \/ RemoveIntent
    PROVE  DeliveryInv'
  <1>1. /\ client.waits = {} /\ SavedAlready /\ UNCHANGED <<keys, asked, calls, moment>>
        /\ \/ client' = [client EXCEPT !.journal = NoIntent]
           \/ client' = [client EXCEPT !.saved = FALSE, !.journal = NoIntent]
        /\ Forget => ~client.saved
    BY DEF Forget, RemoveIntent, Ready, DeliveryInv, ClientInv
  <1>2. /\ client' \in ClientRows /\ client'.waits = {} /\ ~client'.saved
        /\ client'.token = client.token /\ client'.requests = client.requests
        /\ client'.mixed = client.mixed
        /\ client'.journal = [key |-> 0, recovery |-> 0, moved |-> FALSE]
    <2>1. NoIntent \in Intents /\ NoIntent = [key |-> 0, recovery |-> 0, moved |-> FALSE]
      BY DeliveryOpened DEF Intents, NoIntent
    <2>2. CASE Forget
      BY <1>1, <2>1, <2>2, DeliveryOpened DEF ClientRows, Forget
    <2>3. CASE RemoveIntent
      BY <1>1, <2>1, <2>3, DeliveryOpened DEF ClientRows, RemoveIntent
    <2> QED  BY <2>2, <2>3
  <1>3. DeliveryShapes' /\ KeysInv' /\ OneLive' /\ AskedInv'
    BY <1>1, <1>2 DEF DeliveryInv, DeliveryShapes, KeysInv, OneLive, AskedInv, Issued
  <1>4. ClientInv'
    BY <1>1, <1>2, DeliveryOpened DEF DeliveryInv, ClientInv, Issued, Journaled, SavedAlready
  <1>5. ASSUME ~client.mixed PROVE OrderlyInv'
    <2>1. OrderlyInv /\ client.token # 0 /\ Issued(client.token)
      BY <1>1, <1>5 DEF DeliveryInv, ClientInv, SavedAlready
    <2>2. /\ Issued(client.journal.key) /\ Latest = client.token
          /\ client.journal.recovery # 0 => Issued(client.journal.recovery)
      BY <1>1, <2>1 DEF OrderlyInv, SavedAlready, Latest, Issued
    <2>3. ~Issued(0)' /\ 0 \notin Keys
      BY DeliveryOpened DEF Issued
    <2>4. \A n \in Keys : n <= client.requests => Issued(n)
      BY <2>1, <2>2, DeliveryOpened DEF OrderlyInv
    <2>5. Latest' = client.token
      BY <1>2, <2>3 DEF Latest
    <2> QED  BY <1>1, <1>2, <2>1, <2>2, <2>3, <2>4, <2>5 DEF OrderlyInv, Issued
  <1> QED  BY <1>2, <1>3, <1>4, <1>5 DEF DeliveryInv

(* A secret is saved: it is the one of the credential that works.              *)
LEMMA SaveKeeps ==
    ASSUME DeliveryAssumption, DeliveryInv, NEW c \in Calls, Save(c)
    PROVE  DeliveryInv'
  <1> DEFINE n == calls[c].request
  <1>1. /\ c \in client.waits /\ calls[c].phase = "secret" /\ UNCHANGED <<keys, asked, moment>>
        /\ calls' = [calls EXCEPT ![c] = NoCall]
        /\ client' = [client EXCEPT !.waits = {}, !.token = n, !.saved = TRUE]
    BY DEF Save
  <1>2. /\ Issued(n) /\ n \in 1..client.requests /\ n \in Keys
        /\ \/ n = client.journal.recovery
           \/ n = client.journal.key /\ ~client.journal.moved
    BY <1>1, Named, DeliveryOpened DEF DeliveryInv, AskedInv, ClientInv
  <1>3. /\ client' \in ClientRows /\ client'.waits = {} /\ client'.token = n
        /\ client'.journal = client.journal /\ client'.requests = client.requests
        /\ client'.mixed = client.mixed
    BY <1>1, <1>2, DeliveryOpened DEF ClientRows
  <1>4. /\ calls' \in [Calls -> CallRows] /\ calls'[c].phase = "none"
        /\ \A d \in Calls : d # c => calls'[d] = calls[d]
    <2>1. NoCall \in CallRows /\ NoCall.phase = "none"
      BY DeliveryOpened DEF NoCall, CallRows
    <2> QED  BY <1>1, <2>1 DEF DeliveryInv, DeliveryShapes
  <1> HIDE DEF n
  <1>5. DeliveryShapes' /\ KeysInv' /\ OneLive'
    BY <1>1, <1>3, <1>4 DEF DeliveryInv, DeliveryShapes, KeysInv, OneLive, Issued
  <1>6. AskedInv'
    BY <1>1, <1>3, <1>4 DEF DeliveryInv, AskedInv, Issued
  <1>7. n # 0 /\ n <= client.requests
    BY <1>2, DeliveryOpened
  <1>8. ClientInv'
    BY <1>1, <1>2, <1>3, <1>7 DEF DeliveryInv, ClientInv, Issued, Journaled, SavedAlready
  <1>9. ASSUME ~client.mixed PROVE OrderlyInv'
    <2>1. OrderlyInv
      BY <1>9 DEF DeliveryInv
    <2>2. n = IF client.journal.recovery = 0 THEN client.journal.key ELSE client.journal.recovery
      BY <1>1, <2>1 DEF OrderlyInv, n
    <2>3. n = client.journal.key => client.journal.recovery = 0
      BY <1>7, <2>2, Named, DeliveryOpened
    <2>4. Latest = n /\ Latest' = n
      BY <1>1, <1>2, <1>3, <2>2, Named DEF Latest, Issued
    <2> QED  BY <1>1, <1>3, <2>1, <2>3, <2>4 DEF OrderlyInv, Issued
  <1> QED  BY <1>3, <1>5, <1>6, <1>8, <1>9 DEF DeliveryInv

(* A secret that is gone: a recovery's own credential is recovered next.       *)
LEMMA MoveOnKeeps ==
    ASSUME DeliveryAssumption, DeliveryInv, NEW c \in Calls, MoveOn(c)
    PROVE  DeliveryInv'
  <1> DEFINE n == calls[c].request
             intent == IF asked[n].kind = "recover"
                       THEN [key |-> client.journal.recovery, recovery |-> 0, moved |-> TRUE]
                       ELSE client.journal
  <1>1. /\ c \in client.waits /\ calls[c].phase = "gone" /\ UNCHANGED <<keys, asked, moment>>
        /\ calls' = [calls EXCEPT ![c] = NoCall]
        /\ client' = [client EXCEPT !.waits = {}, !.journal = intent]
    BY DEF MoveOn
  <1>2. /\ Issued(n) /\ n \in Keys /\ ~client.saved
        /\ \/ n = client.journal.recovery
           \/ n = client.journal.key /\ ~client.journal.moved
    BY <1>1, Named, DeliveryOpened DEF DeliveryInv, AskedInv, ClientInv
  <1>3. /\ intent \in Intents
        /\ \/ intent = client.journal
           \/ /\ intent.key = client.journal.recovery /\ intent.recovery = 0 /\ intent.moved
              /\ client.journal.recovery = n
    <2>1. CASE asked[n].kind = "recover"
      <3>1. n = client.journal.recovery
        <4>1. n = client.journal.key /\ ~client.journal.moved => asked[n].kind # "recover"
          BY <1>2, DeliveryOpened DEF DeliveryInv, ClientInv, Journaled
        <4> QED  BY <1>2, <2>1, <4>1
      <3> QED  BY <2>1, <3>1, DeliveryOpened DEF Intents
    <2>2. CASE asked[n].kind # "recover"
      BY <2>2, DeliveryOpened
    <2> QED  BY <2>1, <2>2
  <1> HIDE DEF intent
  <1>4. /\ client' \in ClientRows /\ client'.waits = {} /\ ~client'.saved
        /\ client'.token = client.token /\ client'.requests = client.requests
        /\ client'.journal = intent /\ client'.mixed = client.mixed
    BY <1>1, <1>2, <1>3, DeliveryOpened DEF ClientRows
  <1>5. /\ calls' \in [Calls -> CallRows] /\ calls'[c].phase = "none"
        /\ \A d \in Calls : d # c => calls'[d] = calls[d]
    <2>1. NoCall \in CallRows /\ NoCall.phase = "none"
      BY DeliveryOpened DEF NoCall, CallRows
    <2> QED  BY <1>1, <2>1 DEF DeliveryInv, DeliveryShapes
  <1> HIDE DEF n
  <1>6. DeliveryShapes' /\ KeysInv' /\ OneLive'
    BY <1>1, <1>4, <1>5 DEF DeliveryInv, DeliveryShapes, KeysInv, OneLive, Issued
  <1>7. AskedInv'
    BY <1>1, <1>4, <1>5 DEF DeliveryInv, AskedInv, Issued
  <1>8. CASE intent = client.journal
    <2>1. ClientInv'
      BY <1>1, <1>4, <1>8 DEF DeliveryInv, ClientInv, Issued, Journaled
    <2>2. ~client'.mixed => OrderlyInv'
      BY <1>1, <1>4, <1>8 DEF DeliveryInv, OrderlyInv, Issued, Latest
    <2> QED  BY <1>6, <1>7, <2>1, <2>2 DEF DeliveryInv
  <1>9. CASE /\ intent.key = client.journal.recovery /\ intent.recovery = 0 /\ intent.moved
             /\ client.journal.recovery = n
    <2>1. n # 0 /\ n <= client.requests /\ 0 <= client.requests
      BY <1>2, Named, DeliveryOpened
    <2>2. ClientInv'
      BY <1>1, <1>4, <1>9, <2>1 DEF DeliveryInv, ClientInv, Issued, Journaled
    <2>3. ASSUME ~client.mixed PROVE OrderlyInv'
      <3>1. OrderlyInv
        BY <2>3 DEF DeliveryInv
      <3>2. \A m \in Keys : m <= client.requests => Issued(m)
        BY <1>2, <1>9, <3>1 DEF OrderlyInv
      <3>3. Latest = n /\ Latest' = n /\ ~Issued(0)
        BY <1>1, <1>2, <1>4, <1>9 DEF Latest, Issued
      <3> QED  BY <1>1, <1>2, <1>4, <1>9, <3>1, <3>2, <3>3 DEF OrderlyInv, Issued
    <2> QED  BY <1>4, <1>6, <1>7, <2>2, <2>3 DEF DeliveryInv
  <1> QED  BY <1>3, <1>8, <1>9

LEMMA GiveUpKeeps == ASSUME DeliveryAssumption, DeliveryInv, GiveUp PROVE DeliveryInv'
  <1>1. /\ UNCHANGED <<keys, asked, calls, moment>>
        /\ client' = [client EXCEPT !.waits = {}, !.saved = FALSE]
    BY DEF GiveUp
  <1>2. /\ client' \in ClientRows /\ client'.waits = {} /\ ~client'.saved
        /\ client'.token = client.token /\ client'.journal = client.journal
        /\ client'.requests = client.requests /\ client'.mixed = client.mixed
    BY <1>1, DeliveryOpened DEF ClientRows
  <1> QED
    BY <1>1, <1>2 DEF DeliveryInv, DeliveryShapes, KeysInv, AskedInv, OneLive, ClientInv,
                      OrderlyInv, Latest, Issued, Journaled, SavedAlready

LEMMA DeliveryStep ==
    ASSUME DeliveryAssumption, DeliveryInv, [NextDelivery]_delivery_vars
    PROVE  DeliveryInv'
  <1>1. CASE UNCHANGED delivery_vars
    BY <1>1 DEF delivery_vars, DeliveryInv, DeliveryShapes, KeysInv, AskedInv, OneLive, ClientInv,
                OrderlyInv, Latest, Issued, Journaled, SavedAlready
  <1> QED
    BY <1>1, IssuesKeep, AnswersKeep, CallEndsKeeps, AskingKeeps, SaveKeeps, MoveOnKeeps,
       BeginKeepsDelivery, ForgetKeeps, BeginRecoveryKeeps, GiveUpKeeps, PassesKeeps
       DEF NextDelivery

(* token_delivery.py and client.py in any order of calls and interruptions:    *)
(* one credential descends from the other, a secret goes with its claim, and   *)
(* the journal of a client that keeps to it names the one that works.          *)
THEOREM DeliveryInvariance == DeliverySpec => []DeliveryInv
  BY DeliveryInit, DeliveryStep, DeliveryAssumption, PTL DEF DeliverySpec

(* The type of the service's rows, the calls and the client.                   *)
THEOREM DeliveryAlwaysTyped == DeliverySpec => []DeliveryTyped
  <1>1. DeliveryInv => DeliveryTyped
    <2> SUFFICES ASSUME DeliveryInv PROVE DeliveryTyped
      OBVIOUS
    <2>1. ASSUME NEW n \in Keys
          PROVE  /\ keys[n].state \in {"none", "live", "revoked"} /\ keys[n].from \in 0..MaxRequests
                 /\ asked[n].old \in 0..MaxRequests /\ asked[n].kind \in {"none", "create", "rotate", "recover"}
      BY DEF DeliveryInv, DeliveryShapes, KeyRows, AskedRows
    <2>2. \A n \in Keys : keys[n].deadline <= keys[n].expires /\ (keys[n].consumed => keys[n].state = "revoked")
      BY DEF DeliveryInv, KeysInv
    <2>3. \A c \in Calls : calls[c].phase \in {"none", "sent", "issued", "secret", "gone"}
      BY DEF DeliveryInv, DeliveryShapes, CallRows
    <2>4. /\ client.waits \subseteq Calls /\ client.token \in 0..MaxRequests
          /\ client.requests \in 0..MaxRequests /\ moment \in 0..LastMoment
      BY DEF DeliveryInv, DeliveryShapes, ClientRows
    <2> QED
      BY <2>1, <2>2, <2>3, <2>4 DEF DeliveryTyped
  <1> QED
    BY <1>1, DeliveryInvariance, PTL

(* However calls, answers and files are lost on the way: a secret is told once *)
(* (release), one key works at a time (token_rotate, token_recover), its owner *)
(* can always go on (recover_token), and what was accepted is not revoked.     *)
THEOREM DeliveryAlwaysSound == DeliverySpec => []DeliverySound
  <1>1. DeliveryInv => DeliverySound
    <2> SUFFICES ASSUME DeliveryInv PROVE DeliverySound
      OBVIOUS
    <2>1. SecretOnce
      BY DEF SecretOnce, DeliveryInv, KeysInv
    <2>2. OneUsable
      <3> DEFINE S == {n \in Keys : Usable(n)}
      <3>1. \A n, m \in S : n = m
        BY DEF Usable, DeliveryInv, OneLive
      <3>2. CASE S = {}
        BY <3>2, FS_EmptySet DEF OneUsable
      <3>3. CASE S # {}
        <4>1. PICK n \in S : TRUE
          BY <3>3
        <4>2. S = {n}
          BY <3>1, <4>1
        <4>3. Cardinality(S) = 1
          BY <4>2, FS_Singleton
        <4> QED  BY <4>3 DEF OneUsable
      <3> QED  BY <3>2, <3>3
    <2>3. NeverStranded
      <3> SUFFICES ASSUME ~client.mixed, NEW n \in Keys, Usable(n)
                   PROVE  \/ client.token = n
                          \/ client.journal.key = n
                          \/ /\ client.journal.recovery = n
                             /\ keys[n].from = client.journal.key
        BY DEF NeverStranded
      <3>1. OrderlyInv /\ n = Latest
        BY DEF DeliveryInv, OrderlyInv, Usable
      <3> QED  BY <3>1 DEF Latest, OrderlyInv
    <2>4. AcceptedStays
      <3> SUFFICES ASSUME ~client.mixed, client.token # 0, keys[client.token].state = "revoked"
                   PROVE  Journaled /\ ~SavedAlready
        BY DEF AcceptedStays
      <3>1. /\ OrderlyInv /\ Issued(client.token) /\ client.token \in Keys
            /\ client.token # Latest
        BY Named, DeliveryOpened, DeliveryAssumption DEF DeliveryInv, ClientInv, OrderlyInv
      <3>2. /\ client.token # client.journal.recovery
            /\ client.token # client.journal.key
        BY <3>1, Named, DeliveryAssumption DEF Latest, OrderlyInv, Issued
      <3>3. client.journal.key # 0
        BY <3>1, Named, DeliveryAssumption DEF Latest, Issued
      <3> QED  BY <3>2, <3>3 DEF Journaled, SavedAlready
    <2> QED  BY <2>1, <2>2, <2>3, <2>4 DEF DeliverySound
  <1> QED  BY <1>1, DeliveryInvariance, PTL

-----------------------------------------------------------------------------
(* A set of natural numbers that is not empty has a least element.             *)
LEMMA LeastOf ==
    ASSUME NEW S \in SUBSET Nat, S # {}
    PROVE  \E x \in S : \A y \in S : x <= y
  <1> DEFINE R == OpToRel(<, Nat)
  <1>1. IsWellFoundedOn(R, Nat)
    BY NatLessThanWellFounded
  <1>2. R = {ss \in Nat \X Nat : ss[1] < ss[2]}
    BY DEF OpToRel
  <1> HIDE DEF R
  <1>3. PICK x \in S : \A y \in S : <<y, x>> \notin R
    BY <1>1, WFMin
  <1>4. \A y \in S : ~(y < x)
    BY <1>2, <1>3
  <1> QED
    BY <1>4

(* Authority, for every number of keys, certificates and delegations.  The     *)
(* invariant says of every certificate what it was made under: of a delegation *)
(* that it is narrower than the one before it, of a right that root or one of  *)
(* its authorities gave it.  What no step undoes gives that the invalid stays. *)

SignerRows == [state : {"unseen", "live", "revoked"}, ceiling : SUBSET Rights, expires : Nat]

FactRows ==
    [grantor : Persons, expires : Nat, parent : Nat, credential : Signers \cup {NoCredential},
     withdrawn : BOOLEAN]

CertRows ==
    [key : Signers, kind : {"delegation", "capability", "ca"}, grants : SUBSET Rights,
     issues : SUBSET Rights, expires : Nat, issuer : Nat, root : Nat, revoked : BOOLEAN,
     depth : Nat, fact : FactRows \cup {NoFact}, binding : BOOLEAN]

AuthorityShapes ==
    /\ month \in 0..LastMonth /\ archived \subseteq Persons
    /\ keyring \in [Signers -> SignerRows] /\ holding \in [Objects -> Persons]
    /\ root \in [number : Nat, online : BOOLEAN]
    /\ certs \in Seq(CertRows)

(* A delegation c, the n-th certificate: it was made under an earlier one, for *)
(* no more and no longer, and by a helper's key for what that key could do.    *)
Derived(c, n) ==
    /\ c.kind = "delegation" /\ c.issuer = 0 /\ c.grants # {} /\ c.grants \subseteq Objects
    /\ c.fact.parent \in 0..(n - 1)
    /\ c.fact.parent # 0 =>
          LET p == certs[c.fact.parent] IN
          /\ p.fact # NoFact /\ p.fact.grantor = c.fact.grantor /\ c.grants \subseteq p.grants
          /\ c.expires <= p.expires /\ c.depth < p.depth
    /\ c.fact.credential # NoCredential =>
          /\ keyring[c.fact.credential].state # "unseen"
          /\ c.grants \subseteq keyring[c.fact.credential].ceiling

(* A right c, the n-th certificate: given by root, or by an earlier authority  *)
(* of the same root.                                                           *)
CertIssued(c, n) ==
    /\ c.kind # "delegation" /\ c.issuer \in 0..(n - 1)
    /\ c.issuer # 0 =>
          LET a == certs[c.issuer] IN
          /\ c.kind # "ca" /\ a.kind = "ca" /\ a.issuer = 0 /\ a.fact = NoFact /\ a.root = c.root

CertFounded(c, n) ==
    /\ keyring[c.key].state # "unseen" /\ c.root <= root.number
    /\ IF c.fact = NoFact THEN CertIssued(c, n) ELSE Derived(c, n)

AuthorityInv == AuthorityShapes /\ \A n \in 1..Len(certs) : CertFounded(certs[n], n)

-----------------------------------------------------------------------------
(* What Validity and Line are: functions that satisfy their equations.         *)

Test(n, v) ==
    LET c == certs[n] IN
    /\ CertStands(c)
    /\ IF c.issuer = 0 THEN Anchored(c) ELSE v[c.issuer] /\ Within(c, certs[c.issuer])
    /\ c.fact # NoFact => SourceStands(c) /\ (c.fact.parent # 0 => v[c.fact.parent])

ValidityMeant ==
    /\ DOMAIN Validity = 1..Len(certs)
    /\ \A n \in 1..Len(certs) : Validity[n] = Test(n, Validity)

(* A test looks at earlier certificates only.                                  *)
LEMMA TestLooksBack ==
    ASSUME AuthorityInv, NEW n \in 1..Len(certs), NEW v, NEW w,
           \A m \in 1..(n - 1) : v[m] = w[m]
    PROVE  Test(n, v) = Test(n, w)
  <1> DEFINE c == certs[n]
  <1>1. CertFounded(c, n)
    BY DEF AuthorityInv
  <1>2. c.issuer # 0 => v[c.issuer] = w[c.issuer]
    BY <1>1 DEF CertFounded, CertIssued, Derived
  <1>3. c.fact # NoFact /\ c.fact.parent # 0 => v[c.fact.parent] = w[c.fact.parent]
    BY <1>1 DEF CertFounded, Derived
  <1> QED
    BY <1>2, <1>3 DEF Test

(* So there is a function that satisfies the equation of Validity.           *)
LEMMA ValidityExists ==
    ASSUME AuthorityInv
    PROVE  ValidityMeant
  <1> DEFINE N == Len(certs)
             Solves(v, k) == v = [n \in 1..k |-> Test(n, v)]
             Bad == {k \in 0..N : ~\E v : Solves(v, k)}
  <1>0. N \in Nat
    BY DEF AuthorityInv, AuthorityShapes
  <1>1. Bad = {}
    <2> SUFFICES ASSUME Bad # {} PROVE FALSE
      OBVIOUS
    <2>1. PICK k \in Bad : \A j \in Bad : k <= j
      <3>1. Bad \in SUBSET Nat
        BY <1>0
      <3> HIDE DEF Bad
      <3> QED
        BY <3>1, LeastOf
    <2>2. CASE k = 0
      <3> DEFINE e == [n \in 1..0 |-> TRUE]
      <3>1. Solves(e, 0)
        OBVIOUS
      <3> QED
        BY <2>1, <2>2, <3>1
    <2>3. CASE k # 0
      <3>1. k - 1 \in 0..N /\ k - 1 \notin Bad /\ k \in 1..N
        BY <2>1, <2>3, <1>0
      <3>2. PICK w : Solves(w, k - 1)
        BY <3>1
      <3> DEFINE v == [n \in 1..k |-> IF n < k THEN w[n] ELSE Test(k, w)]
      <3>3. \A m \in 1..(k - 1) : v[m] = w[m]
        BY <3>1
      <3>4. ASSUME NEW n \in 1..k PROVE v[n] = Test(n, v)
        <4>1. n \in 1..N /\ \A m \in 1..(n - 1) : v[m] = w[m]
          BY <3>1, <3>3, <1>0
        <4> HIDE DEF v
        <4>2. Test(n, v) = Test(n, w)
          BY <4>1, TestLooksBack
        <4>3. n < k => w[n] = Test(n, w)
          BY <3>1, <3>2
        <4> QED
          BY <4>2, <4>3, <3>1 DEF v
      <3>5. Solves(v, k)
        BY <3>4
      <3> QED
        BY <2>1, <3>5
    <2> QED
      BY <2>2, <2>3
  <1>2. \E v : Solves(v, N)
    BY <1>0, <1>1
  <1>3. Validity = CHOOSE v : v = [n \in 1..Len(certs) |-> Test(n, v)]
    BY DEF Validity, Test
  <1>4. Solves(Validity, N)
    BY <1>2, <1>3
  <1> QED
    BY <1>4 DEF ValidityMeant

(* The numbers of the certificates a certificate names.                        *)
Names(n, f) ==
    IF n = 0 THEN {}
    ELSE {n} \cup f[certs[n].issuer]
             \cup (IF certs[n].fact = NoFact THEN {} ELSE f[certs[n].fact.parent])

LineMeant ==
    /\ DOMAIN Line = 0..Len(certs)
    /\ \A n \in 0..Len(certs) : Line[n] = Names(n, Line)

(* The same for the lines.                                                   *)
LEMMA NamesLookBack ==
    ASSUME AuthorityInv, NEW n \in 0..Len(certs), NEW f, NEW g,
           \A m \in 0..(n - 1) : f[m] = g[m]
    PROVE  Names(n, f) = Names(n, g)
  <1>1. CASE n = 0
    BY <1>1 DEF Names
  <1>2. CASE n # 0
    <2> DEFINE c == certs[n]
    <2>0. n \in 1..Len(certs)
      BY <1>2 DEF AuthorityInv, AuthorityShapes
    <2>1. CertFounded(c, n)
      BY <2>0 DEF AuthorityInv
    <2>2. f[c.issuer] = g[c.issuer]
      <3>1. c.issuer \in 0..(n - 1)
        BY <2>0, <2>1 DEF CertFounded, CertIssued, Derived
      <3> QED
        BY <3>1
    <2>3. c.fact # NoFact => f[c.fact.parent] = g[c.fact.parent]
      BY <2>1 DEF CertFounded, Derived
    <2> QED
      BY <2>2, <2>3 DEF Names
  <1> QED
    BY <1>1, <1>2

(* And so there is one for Line.                                             *)
LEMMA LineExists ==
    ASSUME AuthorityInv
    PROVE  LineMeant
  <1> DEFINE N == Len(certs)
             Solves(f, k) == f = [n \in 0..k |-> Names(n, f)]
             Bad == {k \in 0..N : ~\E f : Solves(f, k)}
  <1>0. N \in Nat
    BY DEF AuthorityInv, AuthorityShapes
  <1>1. Bad = {}
    <2> SUFFICES ASSUME Bad # {} PROVE FALSE
      OBVIOUS
    <2>1. PICK k \in Bad : \A j \in Bad : k <= j
      <3>1. Bad \in SUBSET Nat
        BY <1>0
      <3> HIDE DEF Bad
      <3> QED
        BY <3>1, LeastOf
    <2>2. CASE k = 0
      <3> DEFINE e == [n \in 0..0 |-> {}]
      <3>1. Solves(e, 0)
        BY DEF Names
      <3> QED
        BY <2>1, <2>2, <3>1
    <2>3. CASE k # 0
      <3>1. k - 1 \in 0..N /\ k - 1 \notin Bad /\ k \in 1..N
        BY <2>1, <2>3, <1>0
      <3>2. PICK w : Solves(w, k - 1)
        BY <3>1
      <3> DEFINE v == [n \in 0..k |-> IF n < k THEN w[n] ELSE Names(k, w)]
      <3>3. \A m \in 0..(k - 1) : v[m] = w[m]
        BY <3>1
      <3>4. ASSUME NEW n \in 0..k PROVE v[n] = Names(n, v)
        <4>1. n \in 0..N /\ \A m \in 0..(n - 1) : v[m] = w[m]
          BY <3>1, <3>3, <1>0
        <4> HIDE DEF v
        <4>2. Names(n, v) = Names(n, w)
          BY <4>1, NamesLookBack
        <4>3. n < k => w[n] = Names(n, w)
          BY <3>1, <3>2
        <4> QED
          BY <4>2, <4>3, <3>1 DEF v
      <3>5. Solves(v, k)
        BY <3>4
      <3> QED
        BY <2>1, <3>5
    <2> QED
      BY <2>2, <2>3
  <1>2. \E f : Solves(f, N)
    BY <1>0, <1>1
  <1>3. Line = CHOOSE f : f = [n \in 0..Len(certs) |-> Names(n, f)]
    BY DEF Line, Names
  <1>4. Solves(Line, N)
    BY <1>2, <1>3
  <1> QED
    BY <1>4 DEF LineMeant

(* Along the line of a valid delegation terms only get narrower.             *)
LEMMA DelegationLine ==
    ASSUME AuthorityInv, ValidityMeant, LineMeant,
           NEW n \in 1..Len(certs), Validity[n], certs[n].fact # NoFact
    PROVE  \A m \in Line[n] :
               /\ m \in 1..Len(certs) /\ Validity[m] /\ certs[m].fact # NoFact
               /\ certs[m].fact.grantor = certs[n].fact.grantor
               /\ certs[n].grants \subseteq certs[m].grants
               /\ certs[n].expires <= certs[m].expires
               /\ m # n => certs[n].depth < certs[m].depth
  <1> DEFINE N == Len(certs)
             Fine(x) ==
                 \A m \in Line[x] :
                    /\ m \in 1..N /\ Validity[m] /\ certs[m].fact # NoFact
                    /\ certs[m].fact.grantor = certs[x].fact.grantor
                    /\ certs[x].grants \subseteq certs[m].grants
                    /\ certs[x].expires <= certs[m].expires
                    /\ m # x => certs[x].depth < certs[m].depth
             Bad == {x \in 1..N : Validity[x] /\ certs[x].fact # NoFact /\ ~Fine(x)}
  <1>0. /\ N \in Nat
        /\ \A x \in 1..N : certs[x] \in CertRows
    BY DEF AuthorityInv, AuthorityShapes
  <1>1. Bad = {}
    <2> SUFFICES ASSUME Bad # {} PROVE FALSE
      OBVIOUS
    <2>1. PICK x \in Bad : \A y \in Bad : x <= y
      <3>1. Bad \in SUBSET Nat
        BY <1>0
      <3> HIDE DEF Bad
      <3> QED
        BY <3>1, LeastOf
    <2> DEFINE c == certs[x]  p == c.fact.parent
    <2>2. x \in 1..N /\ Validity[x] /\ c.fact # NoFact /\ ~Fine(x)
      BY <2>1
    <2>3. CertFounded(c, x) /\ Derived(c, x)
      BY <2>2 DEF AuthorityInv, CertFounded
    <2>4. Line[0] = {}
      <3>1. 0 \in 0..Len(certs)
        BY <1>0
      <3>2. Line[0] = Names(0, Line)
        BY <3>1 DEF LineMeant
      <3> QED
        BY <3>2 DEF Names
    <2>5. Line[x] = {x} \cup Line[p]
      <3>1. Line[x] = Names(x, Line)
        BY <2>2, <1>0 DEF LineMeant
      <3> QED
        BY <3>1, <2>2, <2>3, <2>4 DEF Names, Derived
    <2>6. c.expires \in Nat /\ c.depth \in Nat
      BY <1>0, <2>2 DEF CertRows
    <2>7. CASE p = 0
      <3>1. Line[x] = {x}
        BY <2>4, <2>5, <2>7
      <3> QED
        BY <3>1, <2>2, <2>6
    <2>8. CASE p # 0
      <3>1. p \in 1..N /\ p < x
        BY <2>2, <2>3, <2>8, <1>0 DEF Derived
      <3>2. Validity[p]
        <4>1. Test(x, Validity)
          BY <2>2 DEF ValidityMeant
        <4> QED
          BY <4>1, <2>2, <2>8 DEF Test
      <3>3. /\ certs[p].fact # NoFact /\ certs[p].fact.grantor = c.fact.grantor
            /\ c.grants \subseteq certs[p].grants
            /\ c.expires <= certs[p].expires /\ c.depth < certs[p].depth
        BY <2>3, <2>8 DEF Derived
      <3>4. Fine(p)
        <4>1. p \notin Bad
          BY <2>1, <3>1, <1>0
        <4> QED
          BY <4>1, <3>1, <3>2, <3>3
      <3>5. certs[p].expires \in Nat /\ certs[p].depth \in Nat
        BY <1>0, <3>1 DEF CertRows
      <3>6. ASSUME NEW m \in Line[x]
            PROVE  /\ m \in 1..N /\ Validity[m] /\ certs[m].fact # NoFact
                   /\ certs[m].fact.grantor = c.fact.grantor
                   /\ c.grants \subseteq certs[m].grants
                   /\ c.expires <= certs[m].expires
                   /\ m # x => c.depth < certs[m].depth
        <4>1. CASE m = x
          BY <4>1, <2>2, <2>6
        <4>2. CASE m \in Line[p]
          <5>0. /\ m \in 1..N /\ Validity[m] /\ certs[m].fact # NoFact
                /\ certs[m].fact.grantor = certs[p].fact.grantor
                /\ certs[p].grants \subseteq certs[m].grants
                /\ certs[p].expires <= certs[m].expires
                /\ m # p => certs[p].depth < certs[m].depth
            BY <3>4, <4>2
          <5>1. certs[m].expires \in Nat /\ certs[m].depth \in Nat
            BY <1>0, <5>0 DEF CertRows
          <5>2. certs[p].depth <= certs[m].depth
            BY <3>5, <5>0, <5>1
          <5>3. c.expires <= certs[m].expires /\ c.depth < certs[m].depth
            BY <3>3, <3>5, <2>6, <5>0, <5>1, <5>2
          <5> QED
            BY <3>3, <5>0, <5>3
        <4> QED
          BY <4>1, <4>2, <2>5
      <3> QED
        BY <3>6, <2>2
    <2> QED
      BY <2>7, <2>8
  <1> QED
    BY <1>1

(* In any state of the invariant: ActsInLine.                                *)
LEMMA ActsInLineHolds ==
    ASSUME AuthorityAssumption, AuthorityInv, ValidityMeant, LineMeant
    PROVE  ActsInLine
  <1> SUFFICES ASSUME NEW k \in Signers, NEW s \in Persons, NEW t \in Objects,
                      NEW n \in 1..Len(certs), Acts(k, s, t, n), NEW m \in Line[n]
               PROVE  LET c == certs[m] IN
                      /\ c.fact.grantor = s /\ holding[t] = s /\ t \in c.grants
                      /\ ~c.fact.withdrawn /\ ~c.revoked /\ KeyStands(c.key)
                      /\ month < c.expires /\ certs[n].expires <= c.expires
                      /\ m # n => certs[n].depth < c.depth
                      /\ c.fact.credential # NoCredential =>
                             /\ KeyStands(c.fact.credential) /\ Holder[c.fact.credential] \notin archived
                             /\ t \in keyring[c.fact.credential].ceiling
    BY DEF ActsInLine
  <1>1. /\ certs[n].kind = "delegation" /\ Validity[n]
        /\ certs[n].fact.grantor = s /\ t \in certs[n].grants
    BY DEF Acts
  <1>2. certs[n].fact # NoFact
    BY <1>1 DEF AuthorityInv, CertFounded, CertIssued
  <1>3. /\ m \in 1..Len(certs) /\ Validity[m] /\ certs[m].fact # NoFact
        /\ certs[m].fact.grantor = certs[n].fact.grantor
        /\ certs[n].grants \subseteq certs[m].grants
        /\ certs[n].expires <= certs[m].expires
        /\ m # n => certs[n].depth < certs[m].depth
    BY <1>1, <1>2, DelegationLine
  <1>4. Test(m, Validity)
    BY <1>3 DEF ValidityMeant
  <1>5. CertStands(certs[m]) /\ SourceStands(certs[m])
    BY <1>3, <1>4 DEF Test
  <1> QED
    BY <1>1, <1>3, <1>5 DEF CertStands, SourceStands

(* In any state of the invariant: OverridesInLine.                           *)
LEMMA OverridesInLineHolds ==
    ASSUME AuthorityInv, ValidityMeant, LineMeant
    PROVE  OverridesInLine
  <1> SUFFICES ASSUME NEW n \in 1..Len(certs), certs[n].fact = NoFact, Validity[n],
                      NEW m \in Line[n]
               PROVE  /\ certs[m].root = root.number /\ ~certs[m].revoked
                      /\ KeyStands(certs[m].key) /\ month < certs[m].expires
    BY DEF OverridesInLine
  <1>0. Len(certs) \in Nat
    BY DEF AuthorityInv, AuthorityShapes
  <1>1. CertIssued(certs[n], n) /\ Test(n, Validity)
    BY DEF AuthorityInv, CertFounded, ValidityMeant
  <1>2. Line[0] = {} /\ Line[n] = {n} \cup Line[certs[n].issuer]
    BY <1>0 DEF LineMeant, Names
  <1>3. CASE certs[n].issuer = 0
    <2>1. m = n /\ Anchored(certs[n]) /\ CertStands(certs[n])
      BY <1>1, <1>2, <1>3 DEF Test
    <2> QED
      BY <2>1 DEF Anchored, CertStands
  <1>4. CASE certs[n].issuer # 0
    <2> DEFINE i == certs[n].issuer
    <2>1. /\ i \in 1..Len(certs) /\ certs[i].kind = "ca" /\ certs[i].issuer = 0
          /\ certs[i].fact = NoFact /\ certs[i].root = certs[n].root
      BY <1>0, <1>1, <1>4 DEF CertIssued
    <2>2. Line[i] = {i}
      BY <1>0, <1>2, <2>1 DEF LineMeant, Names
    <2>3. CertStands(certs[n]) /\ Validity[i]
      BY <1>1, <1>4 DEF Test
    <2>4. Test(i, Validity)
      BY <2>1, <2>3 DEF ValidityMeant
    <2>5. Anchored(certs[i]) /\ CertStands(certs[i])
      BY <2>1, <2>4 DEF Test
    <2>6. m = n \/ m = i
      BY <1>2, <2>2
    <2> QED
      BY <2>1, <2>3, <2>5, <2>6 DEF Anchored, CertStands
  <1> QED
    BY <1>3, <1>4
-----------------------------------------------------------------------------
(* What no step undoes.                                                        *)

SameCertificate(c, d) ==
    /\ d.key = c.key /\ d.kind = c.kind /\ d.grants = c.grants /\ d.issues = c.issues
    /\ d.expires = c.expires /\ d.issuer = c.issuer /\ d.root = c.root /\ d.depth = c.depth
    /\ c.revoked => d.revoked
    /\ c.fact = NoFact => d.fact = NoFact
    /\ c.fact # NoFact =>
          /\ d.fact # NoFact /\ d.fact.grantor = c.fact.grantor /\ d.fact.expires = c.fact.expires
          /\ d.fact.parent = c.fact.parent /\ d.fact.credential = c.fact.credential
          /\ c.fact.withdrawn => d.fact.withdrawn

KeysStay ==
    /\ keyring' \in [Signers -> SignerRows]
    /\ \A k \in Signers :
          /\ keyring[k].ceiling \subseteq keyring'[k].ceiling
          /\ keyring[k].state # "unseen" => keyring'[k].state # "unseen"

RestStays ==
    /\ month' \in 0..LastMonth /\ month <= month'
    /\ archived \subseteq archived' /\ archived' \subseteq Persons
    /\ holding' \in [Objects -> Persons]
    /\ root' \in [number : Nat, online : BOOLEAN] /\ root.number <= root'.number
    /\ root'.number = root.number /\ root'.online => root.online

CertsStay ==
    /\ certs' \in Seq(CertRows) /\ Len(certs) <= Len(certs')
    /\ \A n \in 1..Len(certs) : SameCertificate(certs[n], certs'[n])

(* What a certificate was made under is not lost.                            *)
LEMMA FoundedStays ==
    ASSUME AuthorityInv, KeysStay, RestStays, CertsStay, NEW n \in 1..Len(certs)
    PROVE  CertFounded(certs[n], n)'
  <1> DEFINE c == certs[n]  d == certs'[n]
  <1>0. Len(certs) \in Nat /\ Len(certs') \in Nat /\ n \in 1..Len(certs')
    BY DEF AuthorityInv, AuthorityShapes, CertsStay
  <1>1. CertFounded(c, n) /\ SameCertificate(c, d) /\ c \in CertRows
    BY DEF AuthorityInv, AuthorityShapes, CertsStay
  <1>2. keyring'[d.key].state # "unseen" /\ d.root <= root'.number
    <2>1. c.key \in Signers /\ c.root \in Nat /\ root.number \in Nat /\ root'.number \in Nat
      BY <1>1 DEF CertRows, AuthorityInv, AuthorityShapes, RestStays
    <2> QED
      BY <1>1, <2>1 DEF CertFounded, SameCertificate, KeysStay, RestStays
  <1>3. CASE c.fact = NoFact
    <2>1. d.fact = NoFact /\ CertIssued(c, n)
      BY <1>1, <1>3 DEF SameCertificate, CertFounded
    <2>2. c.issuer # 0 => SameCertificate(certs[c.issuer], certs'[c.issuer])
      <3>1. c.issuer # 0 => c.issuer \in 1..Len(certs)
        BY <1>0, <2>1 DEF CertIssued
      <3> QED
        BY <3>1 DEF CertsStay
    <2>3. CertIssued(c, n)'
      BY <1>1, <2>1, <2>2 DEF CertIssued, SameCertificate
    <2> QED
      BY <1>2, <2>1, <2>3 DEF CertFounded
  <1>4. CASE c.fact # NoFact
    <2>1. d.fact # NoFact /\ Derived(c, n)
      BY <1>1, <1>4 DEF SameCertificate, CertFounded
    <2>2. c.fact.parent # 0 => SameCertificate(certs[c.fact.parent], certs'[c.fact.parent])
      BY <1>0, <2>1 DEF Derived, CertsStay
    <2>3. c.fact.credential # NoCredential => c.fact.credential \in Signers
      BY <1>1, <1>4 DEF CertRows, FactRows
    <2>4. d.fact.credential # NoCredential =>
             /\ keyring'[d.fact.credential].state # "unseen"
             /\ d.grants \subseteq keyring'[d.fact.credential].ceiling
      BY <1>1, <1>4, <2>1, <2>3 DEF Derived, SameCertificate, KeysStay
    <2>5. /\ d.kind = "delegation" /\ d.issuer = 0 /\ d.grants # {} /\ d.grants \subseteq Objects
          /\ d.fact.parent \in 0..(n - 1)
      BY <1>1, <1>4, <2>1 DEF Derived, SameCertificate
    <2>6. d.fact.parent # 0 =>
             /\ certs'[d.fact.parent].fact # NoFact
             /\ certs'[d.fact.parent].fact.grantor = d.fact.grantor
             /\ d.grants \subseteq certs'[d.fact.parent].grants
             /\ d.expires <= certs'[d.fact.parent].expires
             /\ d.depth < certs'[d.fact.parent].depth
      BY <1>1, <1>4, <2>1, <2>2 DEF Derived, SameCertificate
    <2>7. Derived(c, n)'
      BY <2>4, <2>5, <2>6 DEF Derived
    <2> QED
      BY <1>2, <2>1, <2>7 DEF CertFounded
  <1> QED
    BY <1>3, <1>4

(* A step that adds no certificate.                                            *)
LEMMA NothingAdded ==
    ASSUME AuthorityInv, KeysStay, RestStays, CertsStay, Len(certs') = Len(certs)
    PROVE  AuthorityInv'
  <1>1. AuthorityShapes'
    BY DEF AuthorityShapes, KeysStay, RestStays, CertsStay
  <1>2. \A n \in 1..Len(certs) : CertFounded(certs[n], n)'
    BY FoundedStays
  <1> QED
    BY <1>1, <1>2 DEF AuthorityInv

(* A certificate more leaves the others as they are.                         *)
LEMMA Appended ==
    ASSUME AuthorityInv, NEW c \in CertRows, certs' = Append(certs, c)
    PROVE  /\ CertsStay /\ Len(certs') = Len(certs) + 1 /\ certs'[Len(certs) + 1] = c
           /\ \A n \in 1..Len(certs) : certs'[n] = certs[n]
  <1>1. certs \in Seq(CertRows)
    BY DEF AuthorityInv, AuthorityShapes
  <1>2. certs' \in Seq(CertRows) /\ Len(certs') = Len(certs) + 1
    BY <1>1
  <1>3. certs'[Len(certs) + 1] = c /\ \A n \in 1..Len(certs) : certs'[n] = certs[n]
    BY <1>1
  <1>4. \A n \in 1..Len(certs) : SameCertificate(certs[n], certs'[n])
    BY <1>3 DEF SameCertificate
  <1> QED
    BY <1>1, <1>2, <1>3, <1>4 DEF CertsStay

(* A step that adds one, founded like the rest.                                *)
LEMMA OneAdded ==
    ASSUME AuthorityInv, KeysStay, RestStays, NEW c \in CertRows, certs' = Append(certs, c),
           NEW m, m = Len(certs) + 1, CertFounded(c, m)'
    PROVE  AuthorityInv' /\ CertsStay
  <1>1. CertsStay /\ Len(certs') = Len(certs) + 1 /\ certs'[Len(certs) + 1] = c
    BY Appended
  <1>2. AuthorityShapes'
    BY <1>1 DEF AuthorityShapes, KeysStay, RestStays, CertsStay
  <1>3. \A n \in 1..Len(certs) : CertFounded(certs[n], n)'
    BY <1>1, FoundedStays
  <1>4. Len(certs) \in Nat
    BY DEF AuthorityInv, AuthorityShapes
  <1>5. CertFounded(certs[m], m)'
    BY <1>1 DEF CertFounded, CertIssued, Derived
  <1>6. ASSUME NEW n \in 1..Len(certs') PROVE CertFounded(certs[n], n)'
    <2>1. n \in 1..Len(certs) \/ n = m
      BY <1>1, <1>4
    <2> QED
      BY <2>1, <1>3, <1>5
  <1>7. \A n \in 1..Len(certs') : CertFounded(certs[n], n)'
    BY <1>6
  <1> QED
    BY <1>1, <1>2, <1>7 DEF AuthorityInv

-----------------------------------------------------------------------------
(* The steps.                                                                  *)

(* Keys that change, while no certificate does.                                *)
KeyStep ==
    \E k, other \in Signers :
        \/ RevokeKey(k, other) \/ Request(k, other) \/ RecoverIdentity(k, other)
        \/ \E ceiling \in Ceilings : AddKey(k, other, ceiling)

(* Revoking the keys of a subject forgets none of them.                      *)
LEMMA ClearedKeys ==
    ASSUME AuthorityShapes, NEW s
    PROVE  /\ Cleared(s) \in [Signers -> SignerRows]
           /\ \A k \in Signers :
                 /\ keyring[k].ceiling = Cleared(s)[k].ceiling
                 /\ keyring[k].state # "unseen" => Cleared(s)[k].state # "unseen"
                 /\ keyring[k].expires = Cleared(s)[k].expires
                 /\ Cleared(s)[k].state = "live" => keyring[k].state = "live"
  <1> SUFFICES ASSUME NEW k \in Signers
               PROVE  /\ Cleared(s)[k] \in SignerRows
                      /\ keyring[k].ceiling = Cleared(s)[k].ceiling
                      /\ keyring[k].state # "unseen" => Cleared(s)[k].state # "unseen"
                      /\ keyring[k].expires = Cleared(s)[k].expires
                      /\ Cleared(s)[k].state = "live" => keyring[k].state = "live"
    BY DEF Cleared
  <1>1. keyring[k] \in SignerRows
    BY DEF AuthorityShapes
  <1>2. Cleared(s)[k] = (IF Holder[k] = s /\ keyring[k] # Unseen
                         THEN [keyring[k] EXCEPT !.state = "revoked"] ELSE keyring[k])
    BY DEF Cleared
  <1> QED
    BY <1>1, <1>2 DEF SignerRows

(* One key gets another row.                                                   *)
LEMMA KeyPut ==
    ASSUME AuthorityShapes, NEW new \in Signers, NEW row \in SignerRows,
           keyring' = [keyring EXCEPT ![new] = row],
           keyring[new].ceiling \subseteq row.ceiling,
           keyring[new].state # "unseen" => row.state # "unseen"
    PROVE  KeysStay
  BY DEF AuthorityShapes, KeysStay

(* The rows that are written.                                                *)
LEMMA CertRowsTyped ==
    ASSUME AuthorityAssumption
    PROVE  /\ Live(Rights, NoEnd) \in SignerRows /\ Live({}, NoEnd) \in SignerRows
           /\ \A ceiling \in SUBSET Rights : Live(ceiling, NoEnd) \in SignerRows
           /\ \A ceiling \in SUBSET Rights, end \in Nat : Live(ceiling, end) \in SignerRows
  BY DEF Live, SignerRows, NoEnd

(* Revoking, requesting, adding and recovering keys.                         *)
LEMMA KeyStepStays ==
    ASSUME AuthorityAssumption, AuthorityShapes, KeyStep
    PROVE  KeysStay /\ UNCHANGED <<month, archived, holding, root, certs>>
  <1> PICK k, other \in Signers :
        \/ RevokeKey(k, other) \/ Request(k, other) \/ RecoverIdentity(k, other)
        \/ \E ceiling \in Ceilings : AddKey(k, other, ceiling)
    BY DEF KeyStep
  <1>0. keyring[other] \in SignerRows /\ keyring[k] \in SignerRows
    BY DEF AuthorityShapes
  <1>1. CASE RevokeKey(k, other)
    <2> DEFINE row == [keyring[other] EXCEPT !.state = "revoked"]
    <2>1. row \in SignerRows /\ keyring[other].ceiling = row.ceiling /\ row.state = "revoked"
      BY <1>0 DEF SignerRows
    <2>2. keyring' = [keyring EXCEPT ![other] = row]
      BY <1>1 DEF RevokeKey
    <2> HIDE DEF row
    <2>3. KeysStay
      BY <2>1, <2>2, KeyPut
    <2> QED
      BY <1>1, <2>3 DEF RevokeKey
  <1>2. CASE Request(k, other)
    <2>1. KeysStay
      <3>1. Live({}, NoEnd) \in SignerRows
        BY CertRowsTyped
      <3>2. keyring[other].ceiling \subseteq Live({}, NoEnd).ceiling /\ Live({}, NoEnd).state = "live"
        BY <1>2 DEF Request, Unseen, Live
      <3>3. keyring' = [keyring EXCEPT ![other] = Live({}, NoEnd)]
        BY <1>2 DEF Request
      <3> QED
        BY <3>1, <3>2, <3>3, KeyPut
    <2> QED
      BY <1>2, <2>1 DEF Request
  <1>3. CASE RecoverIdentity(k, other)
    <2> DEFINE cleared == Cleared(Holder[other])
    <2>1. /\ cleared \in [Signers -> SignerRows]
          /\ \A x \in Signers :
                /\ keyring[x].ceiling = cleared[x].ceiling
                /\ keyring[x].state # "unseen" => cleared[x].state # "unseen"
      BY ClearedKeys
    <2>2. keyring' = [cleared EXCEPT ![other] = Live(Rights, NoEnd)]
      BY <1>3 DEF RecoverIdentity
    <2>3. \A x \in Signers : keyring'[x] = IF x = other THEN Live(Rights, NoEnd) ELSE cleared[x]
      BY <2>1, <2>2
    <2>4. keyring' \in [Signers -> SignerRows]
      BY <2>1, <2>2, CertRowsTyped
    <2>5. Live(Rights, NoEnd).ceiling = Rights /\ Live(Rights, NoEnd).state = "live"
      BY DEF Live
    <2>6. keyring[other].ceiling \subseteq Rights
      BY <1>0 DEF SignerRows
    <2>7. KeysStay
      BY <2>1, <2>3, <2>4, <2>5, <2>6 DEF KeysStay
    <2> QED
      BY <1>3, <2>7 DEF RecoverIdentity
  <1>4. ASSUME NEW ceiling \in Ceilings, AddKey(k, other, ceiling)
        PROVE  KeysStay /\ UNCHANGED <<month, archived, holding, root, certs>>
    <2>1. ceiling \in SUBSET Rights
      BY DEF AuthorityAssumption
    <2>2. Live(ceiling, NoEnd) \in SignerRows
      BY <2>1, CertRowsTyped
    <2>3. KeysStay
      <3>2. /\ keyring[other].ceiling \subseteq Live(ceiling, NoEnd).ceiling
            /\ Live(ceiling, NoEnd).state = "live"
        BY <1>4 DEF AddKey, Unseen, Live
      <3>3. keyring' = [keyring EXCEPT ![other] = Live(ceiling, NoEnd)]
        BY <1>4 DEF AddKey
      <3> QED
        BY <2>2, <3>2, <3>3, KeyPut
    <2> QED
      BY <1>4, <2>3 DEF AddKey
  <1> QED
    BY <1>1, <1>2, <1>3, <1>4

(* What a step leaves alone stays.                                           *)
LEMMA Unmoved ==
    ASSUME AuthorityInv
    PROVE  /\ UNCHANGED keyring => KeysStay
           /\ UNCHANGED <<month, archived, holding, root>> => RestStays
           /\ UNCHANGED certs => CertsStay
  BY DEF AuthorityInv, AuthorityShapes, KeysStay, RestStays, CertsStay, SameCertificate

(* Root, owners, accounts and time.                                            *)
WorldStep ==
    \/ RevokeOnline \/ RotateRoot \/ MonthPasses
    \/ \E a \in Persons : ArchiveAccount(a) \/ \E t \in Objects : Chown(t, a)

(* None of these touches a certificate.                                      *)
LEMMA WorldStepStays ==
    ASSUME AuthorityAssumption, AuthorityInv, WorldStep
    PROVE  KeysStay /\ RestStays /\ UNCHANGED certs
  <1>0. AuthorityShapes /\ root.number \in Nat /\ month \in Nat /\ LastMonth \in Nat
    BY DEF AuthorityInv, AuthorityShapes, AuthorityAssumption
  <1>1. CASE RevokeOnline
    <2>1. root' \in [number : Nat, online : BOOLEAN] /\ root'.number = root.number /\ ~root'.online
      BY <1>0, <1>1 DEF RevokeOnline, AuthorityShapes
    <2>2. RestStays
      BY <1>0, <1>1, <2>1 DEF RevokeOnline, AuthorityShapes, RestStays
    <2> QED
      BY <1>1, <2>2, Unmoved DEF RevokeOnline
  <1>2. CASE RotateRoot
    <2>1. root' \in [number : Nat, online : BOOLEAN] /\ root'.number = root.number + 1
      BY <1>0, <1>2 DEF RotateRoot
    <2>2. RestStays
      BY <1>0, <1>2, <2>1 DEF RotateRoot, AuthorityShapes, RestStays
    <2> QED
      BY <1>2, <2>2, Unmoved DEF RotateRoot
  <1>3. CASE MonthPasses
    <2>1. RestStays
      BY <1>0, <1>3 DEF MonthPasses, AuthorityShapes, RestStays
    <2> QED
      BY <1>3, <2>1, Unmoved DEF MonthPasses
  <1>4. ASSUME NEW a \in Persons, ArchiveAccount(a)
        PROVE  KeysStay /\ RestStays /\ UNCHANGED certs
    <2>1. KeysStay
      <3>1. keyring' = Cleared(a)
        BY <1>4 DEF ArchiveAccount
      <3> QED
        BY <1>0, <3>1, ClearedKeys DEF KeysStay
    <2>2. RestStays
      BY <1>0, <1>4 DEF ArchiveAccount, AuthorityShapes, RestStays
    <2> QED
      BY <1>4, <2>1, <2>2 DEF ArchiveAccount
  <1>5. ASSUME NEW a \in Persons, NEW t \in Objects, Chown(t, a)
        PROVE  KeysStay /\ RestStays /\ UNCHANGED certs
    <2>1. RestStays
      BY <1>0, <1>5 DEF Chown, AuthorityShapes, RestStays
    <2> QED
      BY <1>5, <2>1, Unmoved DEF Chown
  <1> QED
    BY <1>1, <1>2, <1>3, <1>4, <1>5 DEF WorldStep

(* A certificate or a delegation is ended.                                     *)
LEMMA CertPut ==
    ASSUME AuthorityInv, NEW n \in 1..Len(certs), NEW d \in CertRows,
           certs' = [certs EXCEPT ![n] = d], SameCertificate(certs[n], d)
    PROVE  CertsStay /\ Len(certs') = Len(certs)
  <1>1. certs \in Seq(CertRows) /\ Len(certs) \in Nat
    BY DEF AuthorityInv, AuthorityShapes
  <1>2. certs' \in Seq(CertRows) /\ Len(certs') = Len(certs)
    BY <1>1
  <1>3. certs'[n] = d /\ \A m \in 1..Len(certs) \ {n} : certs'[m] = certs[m]
    BY <1>1
  <1>4. ASSUME NEW m \in 1..Len(certs) PROVE SameCertificate(certs[m], certs'[m])
    <2>1. CASE m = n
      BY <2>1, <1>3
    <2>2. CASE m # n
      BY <2>2, <1>3 DEF SameCertificate
    <2> QED
      BY <2>1, <2>2
  <1> QED
    BY <1>1, <1>2, <1>4 DEF CertsStay

(* cert.revoke and identity.delegation_revoke change one mark each.          *)
LEMMA EndingStays ==
    ASSUME AuthorityInv, NEW n \in 1..Len(certs),
           RevokeCertificate(n) \/ \E k \in Signers : Withdraw(k, n)
    PROVE  /\ CertsStay /\ Len(certs') = Len(certs)
           /\ UNCHANGED <<month, keyring, archived, holding, root>>
  <1> DEFINE c == certs[n]
  <1>0. c \in CertRows
    BY DEF AuthorityInv, AuthorityShapes
  <1>1. CASE RevokeCertificate(n)
    <2> DEFINE d == [c EXCEPT !.revoked = TRUE]
    <2>1. certs' = [certs EXCEPT ![n] = d]
      BY <1>1 DEF RevokeCertificate
    <2>2. d \in CertRows
      BY <1>0 DEF CertRows
    <2>3. SameCertificate(c, d)
      BY <1>0 DEF CertRows, SameCertificate
    <2> HIDE DEF c, d
    <2>4. CertsStay /\ Len(certs') = Len(certs)
      BY <2>1, <2>2, <2>3, CertPut DEF c
    <2> QED
      BY <1>1, <2>4 DEF RevokeCertificate
  <1>2. ASSUME NEW k \in Signers, Withdraw(k, n)
        PROVE  /\ CertsStay /\ Len(certs') = Len(certs)
               /\ UNCHANGED <<month, keyring, archived, holding, root>>
    <2> DEFINE f == [c.fact EXCEPT !.withdrawn = TRUE]
               d == [c EXCEPT !.fact = f]
    <2>1. certs' = [certs EXCEPT ![n] = d]
      BY <1>2 DEF Withdraw
    <2>2. c.fact \in FactRows
      BY <1>0, <1>2 DEF Withdraw, CertRows
    <2>3. f \in FactRows
      BY <2>2 DEF FactRows
    <2>4. f # NoFact
      <3> HIDE DEF f
      <3>1. "parent" \in DOMAIN f
        BY <2>3 DEF FactRows
      <3>2. DOMAIN f # DOMAIN NoFact
        BY <3>1 DEF NoFact
      <3> QED
        BY <3>2
    <2>5. d \in CertRows
      BY <1>0, <2>3 DEF CertRows
    <2>6. d.fact = f
      BY <1>0 DEF CertRows
    <2>7. SameCertificate(c, d)
      <3>1. c.fact # NoFact
        BY <1>2 DEF Withdraw
      <3>2. /\ f.grantor = c.fact.grantor /\ f.expires = c.fact.expires
            /\ f.parent = c.fact.parent /\ f.credential = c.fact.credential /\ f.withdrawn
        BY <2>2 DEF FactRows
      <3>3. /\ d.key = c.key /\ d.kind = c.kind /\ d.grants = c.grants /\ d.issues = c.issues
            /\ d.expires = c.expires /\ d.issuer = c.issuer /\ d.root = c.root /\ d.depth = c.depth
            /\ d.revoked = c.revoked
        BY <1>0 DEF CertRows
      <3> QED
        BY <3>1, <3>2, <3>3, <2>4, <2>6 DEF SameCertificate
    <2> HIDE DEF c, d, f
    <2>8. CertsStay /\ Len(certs') = Len(certs)
      BY <2>1, <2>5, <2>7, CertPut DEF c
    <2> QED
      BY <1>2, <2>8 DEF Withdraw
  <1> QED
    BY <1>1, <1>2

-----------------------------------------------------------------------------
(* New certificates.                                                           *)

(* The delegation that a certificate comes with.                             *)
LEMMA FactHolds ==
    ASSUME NEW s, NEW e, NEW p, NEW k, NEW w
    PROVE  [grantor |-> s, expires |-> e, parent |-> p, credential |-> k, withdrawn |-> w] # NoFact
  <1> DEFINE f == [grantor |-> s, expires |-> e, parent |-> p, credential |-> k, withdrawn |-> w]
  <1>1. "parent" \in DOMAIN f /\ "parent" \notin DOMAIN NoFact
    BY DEF NoFact
  <1> QED
    BY <1>1

(* A new certificate, field by field.                                        *)
LEMMA CertificateFields ==
    ASSUME AuthorityAssumption, AuthorityInv, NEW k \in Signers,
           NEW kind \in {"delegation", "capability", "ca"}, NEW grants \in SUBSET Rights,
           NEW span \in Spans
    PROVE  LET c == Certificate(k, kind, grants, span) IN
           /\ c \in CertRows
           /\ c.key = k /\ c.kind = kind /\ c.grants = grants /\ c.issuer = 0
           /\ c.root = root.number /\ c.fact = NoFact /\ c.expires = month + span
  <1>1. month + span \in Nat /\ root.number \in Nat
    BY DEF AuthorityInv, AuthorityShapes, AuthorityAssumption
  <1> QED
    BY <1>1 DEF Certificate, CertRows

(* A new delegation, field by field.                                         *)
LEMMA DelegationFields ==
    ASSUME AuthorityAssumption, AuthorityInv, NEW k \in Signers, NEW s \in Persons,
           NEW n \in 0..Len(certs), NEW grants \in SUBSET Rights, NEW to \in Signers,
           NEW span \in Spans, NEW depth \in Depths, NEW maker \in Signers \cup {NoCredential},
           NEW c, \/ c = Delegation(k, s, n, grants, to, span, depth, maker)
                  \/ c = [Delegation(k, s, n, grants, to, span, depth, maker) EXCEPT !.binding = TRUE]
    PROVE  /\ c \in CertRows
           /\ c.key = to /\ c.kind = "delegation" /\ c.grants = grants /\ c.issuer = 0
           /\ c.root = root.number /\ c.fact # NoFact /\ c.expires = month + span /\ c.depth = depth
           /\ c.fact.grantor = s /\ c.fact.parent = n /\ c.fact.credential = maker
  <1> DEFINE f == [grantor |-> s, expires |-> month + span, parent |-> n,
                   credential |-> maker, withdrawn |-> FALSE]
             b == Certificate(to, "delegation", grants, span)
             d == [b EXCEPT !.depth = depth, !.fact = f]
  <1>1. b \in CertRows /\ b.key = to /\ b.kind = "delegation" /\ b.grants = grants /\ b.issuer = 0
        /\ b.root = root.number /\ b.expires = month + span
    BY CertificateFields
  <1>2. month + span \in Nat /\ depth \in Nat /\ n \in Nat
    BY DEF AuthorityInv, AuthorityShapes, AuthorityAssumption
  <1>3. f \in FactRows /\ f # NoFact
    BY <1>2, FactHolds DEF FactRows
  <1>4. Delegation(k, s, n, grants, to, span, depth, maker) = d
    BY DEF Delegation
  <1> HIDE DEF b
  <1>5. d \in CertRows /\ d.key = b.key /\ d.kind = b.kind /\ d.grants = b.grants /\ d.issuer = b.issuer
        /\ d.root = b.root /\ d.expires = b.expires /\ d.depth = depth /\ d.fact = f
    <2> HIDE DEF f
    <2> QED
      BY <1>1, <1>2, <1>3 DEF CertRows
  <1> HIDE DEF d
  <1>6. CASE c = d
    BY <1>1, <1>3, <1>5, <1>6
  <1>7. CASE c = [d EXCEPT !.binding = TRUE]
    <2>1. c \in CertRows /\ c.key = d.key /\ c.kind = d.kind /\ c.grants = d.grants
          /\ c.issuer = d.issuer /\ c.root = d.root /\ c.expires = d.expires /\ c.depth = d.depth
          /\ c.fact = d.fact
      BY <1>5, <1>7 DEF CertRows
    <2> QED
      BY <1>1, <1>3, <1>5, <2>1
  <1> QED
    BY <1>4, <1>6, <1>7

(* A delegation that MayDelegate allowed, to a key that is known by now.       *)
LEMMA DelegationFounded ==
    ASSUME AuthorityAssumption, AuthorityInv, KeysStay, RestStays,
           NEW k \in Signers, NEW s \in Persons, NEW n \in 0..Len(certs),
           NEW grants \in SUBSET Objects, grants # {}, NEW to \in Signers,
           NEW span \in Spans, NEW depth \in Depths, NEW maker \in {k, NoCredential},
           NEW c, \/ c = Delegation(k, s, n, grants, to, span, depth, maker)
                  \/ c = [Delegation(k, s, n, grants, to, span, depth, maker) EXCEPT !.binding = TRUE],
           MayDelegate(k, s, n, grants, span, depth), keyring'[to].state # "unseen",
           certs' = Append(certs, c)
    PROVE  AuthorityInv' /\ CertsStay
  <1>2. Len(certs) \in Nat
    BY DEF AuthorityInv, AuthorityShapes
  <1> PICK m \in Nat : m = Len(certs) + 1
    BY <1>2
  <1>0. /\ c \in CertRows
        /\ c.key = to /\ c.kind = "delegation" /\ c.grants = grants /\ c.issuer = 0
        /\ c.root = root.number /\ c.fact # NoFact /\ c.expires = month + span /\ c.depth = depth
        /\ c.fact.grantor = s /\ c.fact.parent = n /\ c.fact.credential = maker
    <2>1. grants \in SUBSET Rights /\ maker \in Signers \cup {NoCredential}
      BY DEF Rights
    <2> QED
      BY <2>1, DelegationFields
  <1>1. /\ CertsStay /\ Len(certs') = m /\ certs'[m] = c
        /\ \A x \in 1..Len(certs) : certs'[x] = certs[x]
    BY <1>0, Appended
  <1>3. PICK t \in grants : holding[t] = s /\ Acts(k, s, t, n)
    BY DEF MayDelegate
  <1>4. keyring[k].state # "unseen" /\ grants \subseteq keyring[k].ceiling
    <2>1. \A x \in grants : x \in keyring[k].ceiling
      BY DEF MayDelegate, Acts
    <2> QED
      BY <1>3, <2>1 DEF Acts, MayUse, KeyStands
  <1>5. c.fact.credential # NoCredential =>
           /\ keyring'[c.fact.credential].state # "unseen"
           /\ c.grants \subseteq keyring'[c.fact.credential].ceiling
    BY <1>0, <1>4 DEF KeysStay
  <1>6. c.fact.parent # 0 =>
           LET p == certs'[c.fact.parent] IN
           /\ p.fact # NoFact /\ p.fact.grantor = c.fact.grantor /\ c.grants \subseteq p.grants
           /\ c.expires <= p.expires /\ c.depth < p.depth
    <2> SUFFICES ASSUME n # 0
                 PROVE  /\ certs[n].fact # NoFact /\ certs[n].fact.grantor = s
                        /\ grants \subseteq certs[n].grants
                        /\ month + span <= certs[n].expires /\ depth < certs[n].depth
      BY <1>0, <1>1, <1>2
    <2>1. /\ certs[n].kind = "delegation" /\ certs[n].fact.grantor = s
          /\ \A x \in grants : x \in certs[n].grants
      BY <1>3 DEF MayDelegate, Acts
    <2>2. certs[n].fact # NoFact
      BY <1>2, <2>1 DEF AuthorityInv, CertFounded, CertIssued
    <2> QED
      BY <2>1, <2>2 DEF MayDelegate
  <1>7. c.root <= root'.number
    BY <1>0 DEF RestStays
  <1>8. Derived(c, m)'
    <2>1. c.fact.parent \in 0..(m - 1)
      BY <1>0, <1>2
    <2> QED
      BY <1>0, <1>5, <1>6, <2>1 DEF Derived
  <1>9. CertFounded(c, m)'
    BY <1>0, <1>7, <1>8 DEF CertFounded
  <1> QED
    BY <1>0, <1>9, OneAdded

(* The credential a delegation names.                                        *)
LEMMA MakerOf ==
    ASSUME NEW k \in Signers
    PROVE  (IF Holder[k] \in Helpers THEN k ELSE NoCredential) \in {k, NoCredential}
  OBVIOUS

(* identity.delegate and identity.delegated_create.                          *)
LEMMA DelegateStays ==
    ASSUME AuthorityAssumption, AuthorityInv, NEW k \in Signers, NEW s \in Persons,
           NEW n \in 0..Len(certs), NEW to \in Signers, NEW grants \in (SUBSET Objects) \ {{}},
           NEW span \in Spans, NEW depth \in Depths,
           \/ Delegate(k, s, n, grants, to, span, depth)
           \/ CreateHelper(k, s, n, grants, to, span, depth)
    PROVE  AuthorityInv' /\ KeysStay /\ RestStays /\ CertsStay
  <1>0. grants \in SUBSET Objects /\ grants # {}
    OBVIOUS
  <1>1. RestStays
    BY Unmoved DEF Delegate, CreateHelper
  <1>2. CASE Delegate(k, s, n, grants, to, span, depth)
    <2>1. PICK maker \in {k, NoCredential} : maker = IF Holder[k] \in Helpers THEN k ELSE NoCredential
      BY MakerOf
    <2>2. PICK c : c = Delegation(k, s, n, grants, to, span, depth, maker)
      OBVIOUS
    <2>3. KeysStay
      BY <1>2, Unmoved DEF Delegate
    <2>4. keyring'[to].state # "unseen"
      BY <1>2 DEF Delegate, KeyStands
    <2>5. certs' = Append(certs, c) /\ MayDelegate(k, s, n, grants, span, depth)
      BY <1>2, <2>1, <2>2 DEF Delegate, Register
    <2> QED
      BY <1>0, <1>1, <2>1, <2>2, <2>3, <2>4, <2>5, DelegationFounded
  <1>3. CASE CreateHelper(k, s, n, grants, to, span, depth)
    <2>1. PICK maker \in {k, NoCredential} : maker = k
      OBVIOUS
    <2>2. PICK c : c = [Delegation(k, s, n, grants, to, span, depth, k) EXCEPT !.binding = TRUE]
      OBVIOUS
    <2>3. KeysStay /\ keyring'[to].state # "unseen"
      <3> DEFINE row == Live(grants, month + span)
      <3>1. AuthorityShapes /\ month + span \in Nat
        BY DEF AuthorityInv, AuthorityShapes, AuthorityAssumption
      <3>2. row \in SignerRows
        BY <3>1 DEF Live, SignerRows, Rights
      <3>3. keyring' = [keyring EXCEPT ![to] = row]
        BY <1>3 DEF CreateHelper
      <3>4. keyring[to].ceiling \subseteq row.ceiling /\ row.state # "unseen"
        BY <1>3 DEF CreateHelper, Unseen, Live
      <3> HIDE DEF row
      <3>5. KeysStay
        BY <3>1, <3>2, <3>3, <3>4, KeyPut
      <3> QED
        BY <3>1, <3>3, <3>4, <3>5 DEF AuthorityShapes
    <2>5. certs' = Append(certs, c) /\ MayDelegate(k, s, n, grants, span, depth)
      BY <1>3, <2>2 DEF CreateHelper, Register
    <2>6. c = [Delegation(k, s, n, grants, to, span, depth, maker) EXCEPT !.binding = TRUE]
      BY <2>1, <2>2
    <2> QED
      BY <1>0, <1>1, <2>3, <2>5, <2>6, DelegationFounded
  <1> QED
    BY <1>2, <1>3

(* A first certificate only widens the ceiling of a key that had none.       *)
LEMMA AdoptedStays ==
    ASSUME AuthorityInv, NEW k \in Signers, NEW grants \in SUBSET Rights,
           keyring' = Adopted(k, grants)
    PROVE  KeysStay /\ \A x \in Signers : keyring'[x].state = keyring[x].state
                                          /\ keyring'[x].expires = keyring[x].expires
  <1>1. AuthorityShapes /\ keyring[k] \in SignerRows
    BY DEF AuthorityInv, AuthorityShapes
  <1>2. CASE keyring[k].ceiling = {}
    <2> DEFINE row == [keyring[k] EXCEPT !.ceiling = grants]
    <2>1. row \in SignerRows /\ row.state = keyring[k].state /\ row.expires = keyring[k].expires
      BY <1>1 DEF SignerRows
    <2>2. keyring' = [keyring EXCEPT ![k] = row]
      BY <1>2 DEF Adopted
    <2> HIDE DEF row
    <2>3. KeysStay
      BY <1>1, <1>2, <2>1, <2>2, KeyPut
    <2> QED
      BY <1>1, <2>1, <2>2, <2>3 DEF AuthorityShapes
  <1>3. CASE keyring[k].ceiling # {}
    BY <1>3, Unmoved DEF Adopted
  <1> QED
    BY <1>2, <1>3

(* A right, from root or from one of its authorities.                        *)
LEMMA RightFounded ==
    ASSUME AuthorityAssumption, AuthorityInv, KeysStay, RestStays, NEW c \in CertRows,
           certs' = Append(certs, c), c.fact = NoFact, c.kind # "delegation",
           keyring[c.key].state # "unseen", c.root = root.number,
           c.issuer \in 0..Len(certs),
           c.issuer # 0 => /\ c.kind # "ca" /\ certs[c.issuer].kind = "ca"
                           /\ certs[c.issuer].issuer = 0 /\ certs[c.issuer].fact = NoFact
                           /\ certs[c.issuer].root = c.root
    PROVE  AuthorityInv' /\ CertsStay
  <1>0. Len(certs) \in Nat /\ c.key \in Signers
    BY DEF AuthorityInv, AuthorityShapes, CertRows
  <1> PICK m \in Nat : m = Len(certs) + 1
    BY <1>0
  <1>1. \A x \in 1..Len(certs) : certs'[x] = certs[x]
    BY Appended
  <1>2. CertIssued(c, m)'
    BY <1>0, <1>1 DEF CertIssued
  <1>3. CertFounded(c, m)'
    BY <1>0, <1>2 DEF CertFounded, KeysStay, RestStays
  <1> QED
    BY <1>3, OneAdded

(* _approve_csr().                                                           *)
LEMMA ApproveStays ==
    ASSUME AuthorityAssumption, AuthorityInv, NEW k \in Signers, NEW span \in Spans,
           NEW grants \in SUBSET Rights, NEW issues \in SUBSET Rights,
           ApproveCsr(k, grants, issues, span)
    PROVE  AuthorityInv' /\ KeysStay /\ RestStays /\ CertsStay
  <1>1. RestStays /\ KeysStay
    BY Unmoved, AdoptedStays DEF ApproveCsr
  <1> PICK kind \in {"delegation", "capability", "ca"} : kind = IF issues = {} THEN "capability" ELSE "ca"
    OBVIOUS
  <1> DEFINE b == Certificate(k, kind, grants, span)
             c == [b EXCEPT !.issues = issues]
  <1>2. b \in CertRows /\ b.key = k /\ b.kind = kind /\ b.issuer = 0 /\ b.root = root.number /\ b.fact = NoFact
    BY CertificateFields
  <1>3. certs' = Append(certs, c) /\ keyring[k].state # "unseen"
    BY DEF ApproveCsr, Register, KeyStands
  <1> HIDE DEF b
  <1>4. c \in CertRows /\ c.key = k /\ c.kind = kind /\ c.issuer = 0 /\ c.root = root.number /\ c.fact = NoFact
    BY <1>2 DEF CertRows
  <1> HIDE DEF c
  <1>5. c.issuer \in 0..Len(certs) /\ c.kind # "delegation"
    BY <1>4 DEF AuthorityInv, AuthorityShapes
  <1> QED
    BY <1>1, <1>3, <1>4, <1>5, RightFounded

(* cert.publish: the authority it names is one that root certified.          *)
LEMMA PublishStays ==
    ASSUME AuthorityAssumption, AuthorityInv, ValidityMeant, NEW k \in Signers, NEW by \in Signers,
           NEW n \in 1..Len(certs), NEW span \in Spans,
           NEW grants \in SUBSET Rights, PublishCertificate(by, n, k, grants, span)
    PROVE  AuthorityInv' /\ KeysStay /\ RestStays /\ CertsStay
  <1>1. RestStays /\ KeysStay
    BY Unmoved, AdoptedStays DEF PublishCertificate
  <1> DEFINE b == Certificate(k, "capability", grants, span)
             c == [b EXCEPT !.issuer = n]
  <1>2. b \in CertRows /\ b.key = k /\ b.kind = "capability" /\ b.root = root.number /\ b.fact = NoFact
    BY CertificateFields
  <1>3. /\ certs' = Append(certs, c) /\ keyring[k].state # "unseen"
        /\ Within(c, certs[n]) /\ Validity[n]
    BY DEF PublishCertificate, Register, KeyStands
  <1> HIDE DEF b
  <1>4. c \in CertRows /\ c.key = k /\ c.kind = "capability" /\ c.issuer = n /\ c.root = root.number /\ c.fact = NoFact
    BY <1>2 DEF CertRows
  <1> HIDE DEF c
  <1>5. certs[n].kind = "ca" /\ Test(n, Validity) /\ CertFounded(certs[n], n)
    BY <1>3 DEF Within, ValidityMeant, AuthorityInv
  <1>6. certs[n].fact = NoFact
    BY <1>5 DEF CertFounded, Derived
  <1>7. certs[n].issuer = 0
    BY <1>5, <1>6 DEF CertFounded, CertIssued
  <1>8. certs[n].root = root.number
    BY <1>5, <1>7 DEF Test, Anchored
  <1>9. c.issuer \in 0..Len(certs)
    BY <1>4 DEF AuthorityInv, AuthorityShapes
  <1> QED
    BY <1>1, <1>3, <1>4, <1>5, <1>6, <1>7, <1>8, <1>9, RightFounded
-----------------------------------------------------------------------------
(* Every step keeps the invariant and undoes nothing.                        *)
LEMMA AuthorityStays ==
    ASSUME AuthorityAssumption, AuthorityInv, ValidityMeant, [NextAuthority]_authority_vars
    PROVE  AuthorityInv' /\ KeysStay /\ RestStays /\ CertsStay
  <1>1. ASSUME NEW k \in Signers, NEW s \in Persons,
               NEW n \in 0..Len(certs), NEW to \in Signers, NEW grants \in (SUBSET Objects) \ {{}},
               NEW span \in Spans, NEW depth \in Depths,
               \/ Delegate(k, s, n, grants, to, span, depth)
               \/ CreateHelper(k, s, n, grants, to, span, depth)
        PROVE  AuthorityInv' /\ KeysStay /\ RestStays /\ CertsStay
    BY <1>1, DelegateStays
  <1>2. CASE KeyStep
    <2>1. KeysStay /\ UNCHANGED <<month, archived, holding, root, certs>>
      BY <1>2, KeyStepStays DEF AuthorityInv
    <2>2. RestStays /\ CertsStay /\ Len(certs') = Len(certs)
      BY <2>1, Unmoved
    <2> QED
      BY <2>1, <2>2, NothingAdded
  <1>3. ASSUME NEW k \in Requesters, NEW span \in Spans, NEW right \in Objects \cup {Mend},
               \/ ApproveCsr(k, {Sign}, {right}, span) \/ ApproveCsr(k, {right}, {}, span)
               \/ \E by \in Signers, n \in 1..Len(certs) : PublishCertificate(by, n, k, {right}, span)
        PROVE  AuthorityInv' /\ KeysStay /\ RestStays /\ CertsStay
    <2>1. /\ k \in Signers /\ {Sign} \in SUBSET Rights /\ {right} \in SUBSET Rights
          /\ {} \in SUBSET Rights
      BY DEF AuthorityAssumption, Rights
    <2> QED
      BY <1>3, <2>1, ApproveStays, PublishStays
  <1>4. ASSUME NEW n \in 1..Len(certs),
               RevokeCertificate(n) \/ \E k \in Signers : Withdraw(k, n)
        PROVE  AuthorityInv' /\ KeysStay /\ RestStays /\ CertsStay
    <2>1. /\ CertsStay /\ Len(certs') = Len(certs)
          /\ UNCHANGED <<month, keyring, archived, holding, root>>
      BY <1>4, EndingStays
    <2> QED
      BY <2>1, Unmoved, NothingAdded
  <1>5. CASE WorldStep
    <2>1. KeysStay /\ RestStays /\ UNCHANGED certs
      BY <1>5, WorldStepStays
    <2> QED
      BY <2>1, Unmoved, NothingAdded
  <1>6. CASE UNCHANGED authority_vars
    <2>1. UNCHANGED <<month, keyring, archived, holding, root, certs>>
      BY <1>6 DEF authority_vars
    <2> QED
      BY <2>1, Unmoved, NothingAdded
  <1>7. CASE \E k \in Signers, s \in Persons, n \in 0..Len(certs), to \in Signers,
               grants \in (SUBSET Objects) \ {{}}, span \in Spans, depth \in Depths :
                  Delegate(k, s, n, grants, to, span, depth) \/ CreateHelper(k, s, n, grants, to, span, depth)
    BY <1>1, <1>7
  <1>8. CASE \E k \in Requesters, span \in Spans, right \in Objects \cup {Mend} :
                \/ ApproveCsr(k, {Sign}, {right}, span) \/ ApproveCsr(k, {right}, {}, span)
                \/ \E by \in Signers, n \in 1..Len(certs) : PublishCertificate(by, n, k, {right}, span)
    BY <1>3, <1>8
  <1>9. CASE \E n \in 1..Len(certs) : RevokeCertificate(n) \/ \E k \in Signers : Withdraw(k, n)
    BY <1>4, <1>9
  <1>10. ASSUME NextAuthority
         PROVE  \/ KeyStep \/ WorldStep
                \/ \E k \in Signers, s \in Persons, n \in 0..Len(certs), to \in Signers,
                      grants \in (SUBSET Objects) \ {{}}, span \in Spans, depth \in Depths :
                         Delegate(k, s, n, grants, to, span, depth) \/ CreateHelper(k, s, n, grants, to, span, depth)
                \/ \E k \in Requesters, span \in Spans, right \in Objects \cup {Mend} :
                      \/ ApproveCsr(k, {Sign}, {right}, span) \/ ApproveCsr(k, {right}, {}, span)
                      \/ \E by \in Signers, n \in 1..Len(certs) : PublishCertificate(by, n, k, {right}, span)
                \/ \E n \in 1..Len(certs) : RevokeCertificate(n) \/ \E k \in Signers : Withdraw(k, n)
    <2> DEFINE Delegating ==
                 Len(certs) < MaxCerts /\
                 \E k \in Signers, s \in Persons, n \in 0..Len(certs) :
                     /\ IF n = 0 THEN Holder[k] = s ELSE certs[n].key = k
                     /\ \E to \in Signers, grants \in (SUBSET Objects) \ {{}}, span \in Spans, depth \in Depths :
                            \/ to \in Grantees /\ Delegate(k, s, n, grants, to, span, depth)
                            \/ Holder[to] \in Helpers /\ CreateHelper(k, s, n, grants, to, span, depth)
               World ==
                 \/ RevokeOnline \/ RotateRoot \/ MonthPasses
                 \/ \E a \in Persons : ArchiveAccount(a) \/ \E t \in Objects : Chown(t, a)
               Rest ==
                 \/ KeyStep
                 \/ \E k \in Requesters, span \in Spans, right \in Objects \cup {Mend} :
                      \/ ApproveCsr(k, {Sign}, {right}, span) \/ ApproveCsr(k, {right}, {}, span)
                      \/ \E by \in Signers, n \in 1..Len(certs) : PublishCertificate(by, n, k, {right}, span)
                 \/ \E n \in 1..Len(certs) : RevokeCertificate(n) \/ \E k \in Signers : Withdraw(k, n)
    <2>1. Delegating \/ Rest \/ World
      BY <1>10 DEF NextAuthority, KeyStep
    <2>2. Delegating =>
             \E k \in Signers, s \in Persons, n \in 0..Len(certs), to \in Signers,
                grants \in (SUBSET Objects) \ {{}}, span \in Spans, depth \in Depths :
                   Delegate(k, s, n, grants, to, span, depth) \/ CreateHelper(k, s, n, grants, to, span, depth)
      <3> SUFFICES ASSUME Delegating
                   PROVE  \E k \in Signers, s \in Persons, n \in 0..Len(certs), to \in Signers,
                             grants \in (SUBSET Objects) \ {{}}, span \in Spans, depth \in Depths :
                                \/ Delegate(k, s, n, grants, to, span, depth)
                                \/ CreateHelper(k, s, n, grants, to, span, depth)
        OBVIOUS
      <3>1. PICK k \in Signers, s \in Persons, n \in 0..Len(certs) :
               \E to \in Signers, grants \in (SUBSET Objects) \ {{}}, span \in Spans, depth \in Depths :
                  \/ to \in Grantees /\ Delegate(k, s, n, grants, to, span, depth)
                  \/ Holder[to] \in Helpers /\ CreateHelper(k, s, n, grants, to, span, depth)
        OBVIOUS
      <3>2. PICK to \in Signers, grants \in (SUBSET Objects) \ {{}}, span \in Spans, depth \in Depths :
               Delegate(k, s, n, grants, to, span, depth) \/ CreateHelper(k, s, n, grants, to, span, depth)
        BY <3>1
      <3> QED
        BY <3>2
    <2>3. World => WorldStep
      BY DEF WorldStep
    <2> HIDE DEF Delegating, World
    <2> QED
      BY <2>1, <2>2, <2>3
  <1>11. NextAuthority \/ UNCHANGED authority_vars
    OBVIOUS
  <1> QED
    BY <1>2, <1>5, <1>6, <1>7, <1>8, <1>9, <1>10, <1>11

(* Accounts start with their first keys and no certificates.                 *)
LEMMA InitAuthorityInv ==
    ASSUME AuthorityAssumption, InitAuthority
    PROVE  AuthorityInv
  <1>1. certs = <<>> /\ certs \in Seq(CertRows) /\ Len(certs) = 0
    BY DEF InitAuthority
  <1>2. keyring \in [Signers -> SignerRows]
    <2>1. Unseen \in SignerRows /\ Live(Rights, NoEnd) \in SignerRows
      BY DEF Unseen, Live, NoEnd, SignerRows
    <2> QED
      BY <2>1 DEF InitAuthority
  <1>3. AuthorityShapes
    BY <1>1, <1>2 DEF InitAuthority, AuthorityShapes, AuthorityAssumption
  <1> QED
    BY <1>1, <1>3 DEF AuthorityInv

(* AuthorityTyped is part of the invariant.                                    *)
LEMMA AuthorityIsTyped ==
    ASSUME AuthorityInv
    PROVE  AuthorityTyped
  <1>1. ASSUME NEW n \in 1..Len(certs)
        PROVE  /\ certs[n].key \in Signers /\ certs[n].kind \in {"delegation", "capability", "ca"}
               /\ certs[n].issuer \in 0..(n - 1)
               /\ certs[n].fact # NoFact => certs[n].fact.parent \in 0..(n - 1)
    <2>1. certs[n] \in CertRows /\ CertFounded(certs[n], n) /\ n \in Nat \ {0}
      BY DEF AuthorityInv, AuthorityShapes
    <2> QED
      BY <2>1 DEF CertRows, CertFounded, CertIssued, Derived
  <1>2. \A k \in Signers : /\ keyring[k].state \in {"unseen", "live", "revoked"}
                          /\ keyring[k].ceiling \subseteq Rights
    BY DEF AuthorityInv, AuthorityShapes, SignerRows
  <1> QED
    BY <1>1, <1>2 DEF AuthorityTyped, AuthorityInv, AuthorityShapes
-----------------------------------------------------------------------------
(* What is invalid stays so.                                                   *)

(* No key that stood once, and does no more, stands again.                     *)
NoneRevived == \A k \in Signers : keyring[k] # Unseen /\ KeyStands(k)' => KeyStands(k)

(* A key that is known and stands has stood before the step.                 *)
LEMMA KeyStoodBefore ==
    ASSUME NoneRevived, NEW k \in Signers, keyring[k].state # "unseen", KeyStands(k)'
    PROVE  KeyStands(k)
  BY DEF NoneRevived, Unseen

(* A certificate that is valid after such a step was so before it.           *)
LEMMA TestedBefore ==
    ASSUME AuthorityInv, KeysStay, RestStays, CertsStay, holding' = holding, NoneRevived,
           ValidityMeant, ValidityMeant',
           NEW n \in 1..Len(certs), Validity'[n],
           \A m \in 1..(n - 1) : Validity'[m] => Validity[m]
    PROVE  Validity[n]
  <1> DEFINE c == certs[n]  d == certs'[n]
  <1>0. Len(certs) \in Nat /\ Len(certs') \in Nat /\ n \in 1..Len(certs')
    BY DEF AuthorityInv, AuthorityShapes, CertsStay
  <1>1. CertFounded(c, n) /\ SameCertificate(c, d) /\ c \in CertRows
    BY DEF AuthorityInv, AuthorityShapes, CertsStay
  <1>2. Test(n, Validity)'
    BY <1>0 DEF ValidityMeant
  <1>3. /\ month \in Nat /\ month' \in Nat /\ month <= month' /\ root.number \in Nat
        /\ root'.number \in Nat /\ c.expires \in Nat /\ c.root \in Nat /\ c.key \in Signers
    BY <1>1 DEF AuthorityInv, AuthorityShapes, RestStays, CertRows
  <1>4. CertStands(c)
    <2>1. CertStands(certs[n])'
      BY <1>2 DEF Test
    <2> PICK k \in Signers : k = c.key
      BY <1>3
    <2>2. ~c.revoked /\ month' < c.expires /\ KeyStands(k)'
      BY <1>1, <2>1 DEF CertStands, SameCertificate, KeyStands
    <2>3. KeyStands(k)
      BY <1>1, <2>2, KeyStoodBefore DEF CertFounded
    <2> QED
      BY <1>3, <2>2, <2>3 DEF CertStands
  <1>5. CASE c.issuer = 0
    <2>1. Anchored(certs[n])'
      BY <1>1, <1>2, <1>5 DEF Test, SameCertificate
    <2>2. Anchored(c)
      BY <1>1, <1>3, <2>1 DEF Anchored, SameCertificate, CertFounded, RestStays
    <2>3. c.fact # NoFact =>
             SourceStands(c) /\ (c.fact.parent # 0 => Validity[c.fact.parent])
      <3> SUFFICES ASSUME c.fact # NoFact
                   PROVE  SourceStands(c) /\ (c.fact.parent # 0 => Validity[c.fact.parent])
        OBVIOUS
      <3>1. d.fact # NoFact /\ Derived(c, n) /\ c.fact \in FactRows
        BY <1>1 DEF SameCertificate, CertFounded, CertRows
      <3>2. SourceStands(certs[n])' /\ (d.fact.parent # 0 => Validity'[d.fact.parent])
        BY <1>2, <3>1 DEF Test
      <3>3. c.fact.parent # 0 => Validity[c.fact.parent]
        <4>1. d.fact.parent = c.fact.parent /\ c.fact.parent \in 0..(n - 1)
          BY <1>1, <3>1 DEF SameCertificate, Derived
        <4> QED
          BY <3>2, <4>1, <1>0
      <3>4. /\ ~c.fact.withdrawn /\ month' < c.fact.expires
            /\ \A t \in c.grants : holding[t] = c.fact.grantor
        BY <1>1, <3>2 DEF SourceStands, SameCertificate
      <3>5. c.fact.expires \in Nat /\ c.fact.credential \in Signers \cup {NoCredential}
        BY <3>1 DEF FactRows
      <3>6. c.fact.credential # NoCredential =>
               /\ KeyStands(c.fact.credential) /\ Holder[c.fact.credential] \notin archived
               /\ c.grants \subseteq keyring[c.fact.credential].ceiling
        <4> SUFFICES ASSUME NEW k, k = c.fact.credential, k # NoCredential
                     PROVE  /\ KeyStands(k) /\ Holder[k] \notin archived
                            /\ c.grants \subseteq keyring[k].ceiling
          OBVIOUS
        <4>1. k \in Signers /\ keyring[k].state # "unseen" /\ c.grants \subseteq keyring[k].ceiling
          BY <3>1, <3>5 DEF Derived
        <4>2. d.fact.credential = k
          BY <1>1, <3>1 DEF SameCertificate
        <4>3. KeyStands(k)' /\ Holder[k] \notin archived'
          BY <3>2, <4>2 DEF SourceStands, KeyStands
        <4>4. KeyStands(k)
          BY <4>1, <4>3, KeyStoodBefore
        <4> QED
          BY <4>1, <4>3, <4>4 DEF RestStays
      <3>7. SourceStands(c)
        BY <1>3, <3>4, <3>5, <3>6 DEF SourceStands
      <3> QED
        BY <3>3, <3>7
    <2> QED
      BY <1>4, <1>5, <2>2, <2>3 DEF ValidityMeant, Test
  <1>6. CASE c.issuer # 0
    <2>1. c.fact = NoFact /\ c.issuer \in 1..(n - 1)
      <3>1. c.fact = NoFact
        BY <1>1, <1>6 DEF CertFounded, Derived
      <3>2. c.issuer \in 0..(n - 1)
        BY <1>1, <3>1 DEF CertFounded, CertIssued
      <3> QED
        BY <1>0, <1>6, <3>1, <3>2
    <2>2. Validity'[c.issuer] /\ Within(d, certs'[c.issuer])
      BY <1>1, <1>2, <1>6 DEF Test, SameCertificate, Within
    <2>3. SameCertificate(certs[c.issuer], certs'[c.issuer])
      BY <1>0, <2>1 DEF CertsStay
    <2>4. Within(c, certs[c.issuer])
      BY <1>1, <2>2, <2>3 DEF Within, SameCertificate
    <2>5. Validity[c.issuer]
      BY <2>1, <2>2
    <2> QED
      BY <1>4, <1>6, <2>1, <2>4, <2>5 DEF ValidityMeant, Test
  <1> QED
    BY <1>5, <1>6

(* By the first certificate for which it would fail.                         *)
LEMMA StaysInvalidHolds ==
    ASSUME AuthorityInv, KeysStay, RestStays, CertsStay, ValidityMeant, ValidityMeant'
    PROVE  StaysInvalid
  <1> DEFINE Bad == {n \in 1..Len(certs) : ~Validity[n] /\ Validity'[n]}
  <1>0. Len(certs) \in Nat
    BY DEF AuthorityInv, AuthorityShapes
  <1>1. CASE holding' = holding /\ NoneRevived
    <2>1. Bad = {}
      <3> SUFFICES ASSUME Bad # {} PROVE FALSE
        OBVIOUS
      <3>1. PICK n \in Bad : \A m \in Bad : n <= m
        <4>1. Bad \in SUBSET Nat
          BY <1>0
        <4> HIDE DEF Bad
        <4> QED
          BY <4>1, LeastOf
      <3>2. n \in 1..Len(certs) /\ ~Validity[n] /\ Validity'[n]
        BY <3>1
      <3>3. \A m \in 1..(n - 1) : Validity'[m] => Validity[m]
        <4> SUFFICES ASSUME NEW m \in 1..(n - 1), Validity'[m], ~Validity[m] PROVE FALSE
          OBVIOUS
        <4>1. m \in Bad /\ m < n
          BY <1>0, <3>2
        <4> HIDE DEF Bad
        <4> QED
          BY <3>1, <3>2, <4>1, <1>0
      <3> QED
        BY <1>1, <3>2, <3>3, TestedBefore
    <2> QED
      BY <2>1 DEF StaysInvalid
  <1>2. CASE holding' # holding
    BY <1>2 DEF StaysInvalid
  <1>3. CASE ~NoneRevived
    BY <1>3 DEF StaysInvalid, NoneRevived
  <1> QED
    BY <1>1, <1>2, <1>3
-----------------------------------------------------------------------------
(* Certificates keep their shape, name earlier ones only, and each delegation  *)
(* or right is for no more and no longer than what it was made under.          *)
THEOREM AuthorityInvariance == AuthoritySpec => []AuthorityInv
  <1>1. InitAuthority => AuthorityInv
    BY AuthorityAssumption, InitAuthorityInv
  <1>2. AuthorityInv /\ [NextAuthority]_authority_vars => AuthorityInv'
    BY AuthorityAssumption, AuthorityStays, ValidityExists
  <1> QED
    BY <1>1, <1>2, PTL DEF AuthoritySpec

(* Whoever acts for another does so in an unbroken line from the owner, and a  *)
(* right to override comes from the present root: what the checks of each use  *)
(* (_ceiling(), validate(), has()) amount to when no record is kept of what    *)
(* has become invalid, and nothing invalid comes to life again but by a        *)
(* recovery or a change of owner.                                              *)
THEOREM AuthorityAlwaysSound == AuthoritySpec => AuthoritySound
  <1>1. AuthorityInv => ValidityMeant /\ LineMeant
    BY ValidityExists, LineExists
  <1>2. ValidityMeant /\ LineMeant /\ AuthorityInv =>
           AuthorityTyped /\ ActsInLine /\ OverridesInLine
    BY AuthorityAssumption, AuthorityIsTyped, ActsInLineHolds, OverridesInLineHolds
  <1>3. /\ AuthorityInv /\ [NextAuthority]_authority_vars
        /\ ValidityMeant /\ ValidityMeant'
        => StaysInvalid
    BY AuthorityAssumption, AuthorityStays, StaysInvalidHolds
  <1> QED
    BY <1>1, <1>2, <1>3, AuthorityInvariance, PTL DEF AuthoritySpec, AuthoritySound
=============================================================================
