------------------------------ MODULE Authority ------------------------------
(* Who may act for whom (plugins/identity.py, plugins/delegated_identity.py,   *)
(* security/certificates.py, authorization.py, authentication.py).  A key acts *)
(* within its ceiling, for its holder or, with a delegation certificate, for   *)
(* the grantor; a delegate may delegate further while depth is left.  Beside   *)
(* that, authorities certified by root issue rights to override.  Nobody keeps *)
(* a record of what has become invalid: each use looks at the keys,            *)
(* certificates, delegations and owners of its own time.                       *)
(* A right is an object, or one of the three below; which operations a grant   *)
(* lists, and scopes that reach below their resource, are left out.            *)
EXTENDS Integers, Sequences

CONSTANTS
    Persons,             \* registered subjects
    Helpers,             \* subjects that identity.delegated_create makes
    Signers, Holder,     \* signing keys; [Signers -> Persons \cup Helpers]
    Firsts,              \* the keys the accounts registered with
    Objects, FirstOwner,
    Ceilings,            \* bound: the ceilings keys are added with
    Grantees,            \* bound: the keys somebody delegates to
    Requesters,          \* bound: the keys a certificate is requested for
    Spans, Depths,       \* bound: lifetimes and depths asked for
    MaxCerts, MaxChanges, LastMonth    \* bounds; changes of keys, owners and roots

Home == "home"    \* the affairs of an account: its keys and delegations
Sign == "sign"    \* cert.issue
Mend == "mend"    \* identity.recover and cert.revoke
Rights == Objects \cup {Home, Sign, Mend}
Subjects == Persons \cup Helpers

AuthorityAssumption ==
    /\ Persons \cap Helpers = {} /\ Holder \in [Signers -> Subjects]
    /\ Firsts \subseteq {k \in Signers : Holder[k] \in Persons} /\ FirstOwner \in Persons
    /\ Ceilings \subseteq SUBSET Rights /\ Grantees \cup Requesters \subseteq Signers
    /\ Spans \subseteq Nat \ {0} /\ Depths \subseteq Nat
    /\ {MaxCerts, MaxChanges, LastMonth} \subseteq Nat
ASSUME AuthorityAssumption

VARIABLES
    month,      \* the clock
    keyring,    \* [Signers -> table credentials]
    archived,   \* accounts with a setting identity_archived
    holding,    \* [Objects -> owner]
    root,       \* number of the root certificate, and whether its online CA stands
    certs,      \* certificates, each with the delegation it rests on
    changes     \* bound: how many of these there have been

authority_vars == <<month, keyring, archived, holding, root, certs, changes>>

NoEnd == 1000    \* later than any month
NoCredential == "none"
NoFact == [grantor |-> "nobody"]
Unseen == [state |-> "unseen", ceiling |-> {}, expires |-> NoEnd]
Live(ceiling, expires) == [state |-> "live", ceiling |-> ceiling, expires |-> expires]

InitAuthority ==
    /\ month = 0 /\ archived = {} /\ certs = <<>> /\ changes = 0
    /\ keyring = [k \in Signers |-> IF k \in Firsts THEN Live(Rights, NoEnd) ELSE Unseen]
    /\ holding = [t \in Objects |-> FirstOwner]
    /\ root = [number |-> 1, online |-> TRUE]
-----------------------------------------------------------------------------
KeyStands(k) == keyring[k].state = "live" /\ month < keyring[k].expires

(* What a certificate has of its own: validate(), before it looks at others.   *)
CertStands(c) == ~c.revoked /\ month < c.expires /\ KeyStands(c.key)

(* Certificates of the present root, given by itself or by its online CA.      *)
Anchored(c) ==
    /\ c.root = root.number
    /\ c.kind = "delegation" => root.online

(* Those of another authority stay within what its certificate lets it issue.  *)
Within(c, authority) ==
    /\ authority.kind = "ca" /\ c.kind # "ca"
    /\ c.expires <= authority.expires /\ c.grants \subseteq authority.issues

(* validate_authority(), but for the certificate the delegation came from.     *)
SourceStands(c) ==
    LET maker == c.fact.credential IN
    /\ ~c.fact.withdrawn /\ month < c.fact.expires
    /\ \A t \in c.grants : holding[t] = c.fact.grantor
    /\ maker # NoCredential =>
           /\ KeyStands(maker) /\ Holder[maker] \notin archived
           /\ c.grants \subseteq keyring[maker].ceiling

Validity_Direct ==    \* mutant: the certificate a delegation came from is not looked at
    LET valid[n \in 1..Len(certs)] ==
            LET c == certs[n] IN
            /\ CertStands(c)
            /\ IF c.issuer = 0 THEN Anchored(c) ELSE valid[c.issuer] /\ Within(c, certs[c.issuer])
            /\ c.fact # NoFact => SourceStands(c)
    IN  valid

(* validate(): a certificate and all it rests on, which came before it.        *)
Validity ==
    LET valid[n \in 1..Len(certs)] ==
            LET c == certs[n] IN
            /\ CertStands(c)
            /\ IF c.issuer = 0 THEN Anchored(c) ELSE valid[c.issuer] /\ Within(c, certs[c.issuer])
            /\ c.fact # NoFact => SourceStands(c) /\ (c.fact.parent # 0 => valid[c.fact.parent])
    IN  valid

(* authenticate(): neither who signs nor for whom is archived.                 *)
MayUse(k) == KeyStands(k) /\ Holder[k] \notin archived

(* A helper comes with the certificate it was made with.                       *)
Bound(k, s) ==
    \E b \in 1..Len(certs) : /\ certs[b].key = k /\ certs[b].binding /\ Validity[b]
                             /\ certs[b].fact.grantor = s

(* _ceiling(): key k acts for s upon t, with certificate n or, if n is 0, as s. *)
Acts(k, s, t, n) ==
    /\ MayUse(k) /\ s \notin archived /\ t \in keyring[k].ceiling
    /\ IF n = 0 THEN Holder[k] = s /\ s \in Persons
       ELSE /\ certs[n].key = k /\ certs[n].kind = "delegation" /\ Validity[n]
            /\ certs[n].fact.grantor = s /\ t \in certs[n].grants
            /\ Holder[k] \in Helpers => Bound(k, s)

Manages(k) == Acts(k, Holder[k], Home, 0)    \* controlled_owner()

(* has(): with a certificate of that right, under the ceiling of the key.      *)
Has(k, right) ==
    /\ MayUse(k) /\ Holder[k] \in Persons /\ right \in keyring[k].ceiling
    /\ \E n \in 1..Len(certs) : /\ certs[n].key = k /\ Validity[n]
                                /\ certs[n].fact = NoFact /\ right \in certs[n].grants
-----------------------------------------------------------------------------
Certificate(k, kind, grants, span) ==
    [key |-> k, kind |-> kind, grants |-> grants, issues |-> {}, expires |-> month + span,
     issuer |-> 0, root |-> root.number, revoked |-> FALSE,
     depth |-> 0, fact |-> NoFact, binding |-> FALSE]

Register(c) ==
    /\ Len(certs) < MaxCerts    \* bound
    /\ certs' = Append(certs, c)

Delegation(k, s, n, grants, to, span, depth, maker) ==
    [Certificate(to, "delegation", grants, span) EXCEPT
        !.depth = depth,
        !.fact = [grantor |-> s, expires |-> month + span, parent |-> n,
                  credential |-> maker, withdrawn |-> FALSE]]

Change ==
    /\ changes < MaxChanges    \* bound
    /\ changes' = changes + 1

(* What identity.delegate and identity.delegated_create ask of the delegator.  *)
MayDelegate(k, s, n, grants, span, depth) ==
    /\ root.online
    /\ \A t \in grants : holding[t] = s /\ Acts(k, s, t, n)
    /\ n # 0 => depth < certs[n].depth /\ month + span <= certs[n].expires

(* identity.delegate, to a key that exists.  Only the delegation of a helper   *)
(* names the credential it was made with.                                      *)
Delegate(k, s, n, grants, to, span, depth) ==
    /\ MayDelegate(k, s, n, grants, span, depth) /\ KeyStands(to)
    /\ Register(Delegation(k, s, n, grants, to, span, depth,
                           IF Holder[k] \in Helpers THEN k ELSE NoCredential))
    /\ UNCHANGED <<month, keyring, archived, holding, root, changes>>

(* identity.delegated_create, for a new subject whose key ends with it.        *)
CreateHelper(k, s, n, grants, new, span, depth) ==
    /\ MayDelegate(k, s, n, grants, span, depth)
    /\ keyring[new] = Unseen /\ month + span <= keyring[k].expires
    /\ keyring' = [keyring EXCEPT ![new] = Live(grants, month + span)]
    /\ Register([Delegation(k, s, n, grants, new, span, depth, k) EXCEPT !.binding = TRUE])
    /\ UNCHANGED <<month, archived, holding, root, changes>>

(* identity.delegation_revoke.                                                 *)
Withdraw(k, n) ==
    /\ Manages(k) /\ certs[n].fact # NoFact /\ certs[n].fact.grantor = Holder[k]
    /\ certs' = [certs EXCEPT ![n].fact.withdrawn = TRUE]
    /\ Change /\ UNCHANGED <<month, keyring, archived, holding, root>>
-----------------------------------------------------------------------------
(* identity.key_add; the certificate that goes with it overrides nothing.      *)
AddKey(k, new, ceiling) ==
    /\ root.online /\ Manages(k) /\ keyring[new] = Unseen /\ Holder[new] = Holder[k]
    /\ ceiling \subseteq keyring[k].ceiling
    /\ keyring' = [keyring EXCEPT ![new] = Live(ceiling, NoEnd)]
    /\ Change /\ UNCHANGED <<month, archived, holding, root, certs>>

(* cert.request makes a key known that can do nothing yet.                     *)
Request(k, new) ==
    /\ Manages(k) /\ keyring[new] = Unseen /\ Holder[new] = Holder[k]
    /\ keyring' = [keyring EXCEPT ![new] = Live({}, NoEnd)]
    /\ Change /\ UNCHANGED <<month, archived, holding, root, certs>>

(* identity.key_revoke: another signing key must be left, whatever it can do.  *)
RevokeKey(k, old) ==
    /\ Manages(k) /\ Holder[old] = Holder[k] /\ keyring[old].state = "live"
    /\ \E other \in Signers \ {old} : Holder[other] = Holder[k] /\ keyring[other].state = "live"
    /\ keyring' = [keyring EXCEPT ![old].state = "revoked"]
    /\ Change /\ UNCHANGED <<month, archived, holding, root, certs>>

(* The keys of a subject are revoked; a key never seen is no row.              *)
Cleared(s) ==
    [k \in Signers |-> IF Holder[k] = s /\ keyring[k] # Unseen
                    THEN [keyring[k] EXCEPT !.state = "revoked"] ELSE keyring[k]]

(* identity.recover: all keys make place for one, maybe a former one.          *)
RecoverIdentity(k, new) ==
    /\ root.online /\ Has(k, Mend)
    /\ \E known \in Signers : Holder[known] = Holder[new] /\ keyring[known] # Unseen
    /\ keyring' = [Cleared(Holder[new]) EXCEPT ![new] = Live(Rights, NoEnd)]
    /\ Change /\ UNCHANGED <<month, archived, holding, root, certs>>

(* A key without a ceiling takes its first certificate's grants for one.       *)
Adopted(k, grants) ==
    IF keyring[k].ceiling = {} THEN [keyring EXCEPT ![k].ceiling = grants] ELSE keyring

(* _approve_csr(): root certifies an authority, or gives a right itself.       *)
ApproveCsr(k, grants, issues, span) ==
    /\ KeyStands(k) /\ Holder[k] \in Persons
    /\ Register([Certificate(k, IF issues = {} THEN "capability" ELSE "ca", grants, span) EXCEPT
                    !.issues = issues])
    /\ keyring' = Adopted(k, grants)
    /\ UNCHANGED <<month, archived, holding, root, changes>>

(* cert.publish: an authority, as certificate n says it is one, gives a right. *)
PublishCertificate(by, n, k, grants, span) ==
    /\ Has(by, Sign) /\ Holder[by] = Holder[certs[n].key]
    /\ Validity[n] /\ KeyStands(k) /\ Holder[k] \in Persons
    /\ LET c == [Certificate(k, "capability", grants, span) EXCEPT !.issuer = n] IN
           Within(c, certs[n]) /\ Register(c)
    /\ keyring' = Adopted(k, grants)
    /\ UNCHANGED <<month, archived, holding, root, changes>>

(* cert.revoke, by one who has the right, or root's own _revoke().             *)
RevokeCertificate(n) ==
    /\ certs' = [certs EXCEPT ![n].revoked = TRUE]
    /\ Change /\ UNCHANGED <<month, keyring, archived, holding, root>>

(* The same of the online CA; a rotation of the root replaces both.            *)
RevokeOnline ==
    /\ root' = [root EXCEPT !.online = FALSE]
    /\ Change /\ UNCHANGED <<month, keyring, archived, holding, certs>>

RotateRoot ==
    /\ root' = [number |-> root.number + 1, online |-> TRUE]
    /\ Change /\ UNCHANGED <<month, keyring, archived, holding, certs>>

(* archive_account(), by root.                                                 *)
ArchiveAccount(a) ==
    /\ a \notin archived /\ archived' = archived \cup {a}
    /\ keyring' = Cleared(a)
    /\ Change /\ UNCHANGED <<month, holding, root, certs>>

(* content.chown.                                                              *)
Chown(t, s) ==
    /\ holding' = [holding EXCEPT ![t] = s]
    /\ Change /\ UNCHANGED <<month, keyring, archived, root, certs>>

MonthPasses ==
    /\ month < LastMonth    \* bound
    /\ month' = month + 1
    /\ UNCHANGED <<keyring, archived, holding, root, certs, changes>>

NextAuthority ==
    \/ Len(certs) < MaxCerts /\    \* bound, as in Register
       \E k \in Signers, s \in Persons, n \in 0..Len(certs) :
           /\ IF n = 0 THEN Holder[k] = s ELSE certs[n].key = k    \* as Acts has it
           /\ \E to \in Signers, grants \in (SUBSET Objects) \ {{}}, span \in Spans, depth \in Depths :
                  \/ to \in Grantees /\ Delegate(k, s, n, grants, to, span, depth)
                  \/ Holder[to] \in Helpers /\ CreateHelper(k, s, n, grants, to, span, depth)
    \/ \E k, other \in Signers :
           \/ RevokeKey(k, other) \/ Request(k, other) \/ RecoverIdentity(k, other)
           \/ \E ceiling \in Ceilings : AddKey(k, other, ceiling)
    \/ \E k \in Requesters, span \in Spans, right \in Objects \cup {Mend} :
           \/ ApproveCsr(k, {Sign}, {right}, span) \/ ApproveCsr(k, {right}, {}, span)
           \/ \E by \in Signers, n \in 1..Len(certs) : PublishCertificate(by, n, k, {right}, span)
    \/ \E n \in 1..Len(certs) : RevokeCertificate(n) \/ \E k \in Signers : Withdraw(k, n)
    \/ RevokeOnline \/ RotateRoot \/ MonthPasses
    \/ \E a \in Persons : ArchiveAccount(a) \/ \E t \in Objects : Chown(t, a)

AuthoritySpec == InitAuthority /\ [][NextAuthority]_authority_vars
-----------------------------------------------------------------------------
AuthorityTyped ==
    /\ month \in 0..LastMonth /\ archived \subseteq Persons
    /\ \A k \in Signers : /\ keyring[k].state \in {"unseen", "live", "revoked"}
                       /\ keyring[k].ceiling \subseteq Rights
    /\ holding \in [Objects -> Persons]
    /\ \A n \in 1..Len(certs) :
           /\ certs[n].key \in Signers /\ certs[n].kind \in {"delegation", "capability", "ca"}
           /\ certs[n].issuer \in 0..(n - 1)
           /\ certs[n].fact # NoFact => certs[n].fact.parent \in 0..(n - 1)

(* A certificate, those it was delegated or issued from, and theirs.           *)
Line ==
    LET line[n \in 0..Len(certs)] ==
            IF n = 0 THEN {}
            ELSE {n} \cup line[certs[n].issuer]
                     \cup (IF certs[n].fact = NoFact THEN {} ELSE line[certs[n].fact.parent])
    IN  line

(* Whoever acts for another does so by delegations in one line from the owner, *)
(* none of them withdrawn or lapsed, each made under the one before it and for *)
(* no longer, and where a helper made it, by a key that still stands.          *)
ActsInLine ==
    \A k \in Signers, s \in Persons, t \in Objects, n \in 1..Len(certs) :
        Acts(k, s, t, n) =>
            \A m \in Line[n] :
                LET c == certs[m] IN
                /\ c.fact.grantor = s /\ holding[t] = s /\ t \in c.grants
                /\ ~c.fact.withdrawn /\ ~c.revoked /\ KeyStands(c.key)
                /\ month < c.expires /\ certs[n].expires <= c.expires
                /\ m # n => certs[n].depth < c.depth
                /\ c.fact.credential # NoCredential =>
                       /\ KeyStands(c.fact.credential) /\ Holder[c.fact.credential] \notin archived
                       /\ t \in keyring[c.fact.credential].ceiling

(* A right to override came from root by authorities that still are some.      *)
OverridesInLine ==
    \A n \in 1..Len(certs) :
        (certs[n].fact = NoFact /\ Validity[n]) =>
            \A m \in Line[n] : /\ certs[m].root = root.number /\ ~certs[m].revoked
                               /\ KeyStands(certs[m].key) /\ month < certs[m].expires

(* What has become invalid stays so, unless a former key, revoked or lapsed,   *)
(* is made the key of its account again or an object returns to its owner.     *)
StaysInvalid ==
    \A n \in 1..Len(certs) :
        (~Validity[n] /\ Validity'[n]) =>
            \/ holding' # holding
            \/ \E k \in Signers : keyring[k] # Unseen /\ ~KeyStands(k) /\ KeyStands(k)'

(* Delegates, helpers and authorities never outlast what they rest on.         *)
AuthoritySound ==
    [][AuthorityTyped' /\ ActsInLine' /\ OverridesInLine' /\ StaysInvalid]_authority_vars
=============================================================================
