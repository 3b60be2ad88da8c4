------------------------------- MODULE Custody -------------------------------
(* One owner's way out of custody: the service holds its signing key and its   *)
(* age key in a vault until it has proved keys of its own and decided about    *)
(* the history that is sealed to the old age key (plugins/identity.py,         *)
(* custodial_upgrade_start and _finish, plugins/custodial_lifecycle.py,        *)
(* plugins/recovery.py, security/custodial_migration.py, and keystore.put).    *)
(* An action is one transaction.  A decision carries digests of what its owner *)
(* has seen; one that is out of date is refused, so every decision is taken    *)
(* about the present state.  Owners act as their client does: it acknowledges  *)
(* only what it has opened with the new key.                                   *)
EXTENDS Integers, FiniteSets

CONSTANTS
    Sources,      \* age revisions the owner or its delegates write
    MaxVersion, MaxRenewals, MaxMoves   \* bounds

Copy(r)  == <<"rewrapped", r>>
Envelope == <<"envelope">>
Rewrapped == {Copy(r) : r \in Sources} \cup {Envelope}    \* what the service itself writes
Items    == Sources \cup Rewrapped

CustodyAssumption ==
    /\ {MaxVersion, MaxRenewals, MaxMoves} \subseteq Nat \ {0}
    /\ Sources \cap Rewrapped = {}
ASSUME CustodyAssumption

VARIABLES
    place,        \* [Items -> where the revision is]
    sealed,       \* [Sources -> the key it is really encrypted to]
    label,        \* [Sources -> the key its writer declared, keystore_key]
    owner,        \* kind of the subject, the number of its live token
    vault,        \* [status, signing, decrypting]: which keys it still holds
    primary,      \* the owner's primary encryption key
    upgrade,      \* its row of custodial_upgrades
    moves         \* bound: how often something left the keystore

custody_vars == <<place, sealed, label, owner, vault, primary, upgrade, moves>>

NoUpgrade ==
    [status |-> "none", token |-> 0, lapsed |-> FALSE, frozen |-> {}, version |-> 0,
     key |-> [r \in Sources |-> "old"], mapped |-> [r \in Sources |-> "no"],
     acked |-> [r \in Sources |-> -1], opened |-> [r \in Sources |-> -1],
     envelope |-> FALSE, lost |-> {}]

InitCustody ==
    /\ place = [i \in Items |-> "none"]
    /\ sealed = [r \in Sources |-> "old"] /\ label = [r \in Sources |-> "none"]
    /\ owner = [kind |-> "custodial", token |-> 1]
    /\ vault = [status |-> "active", signing |-> TRUE, decrypting |-> TRUE]
    /\ primary = "old"
    /\ upgrade = NoUpgrade
    /\ moves = 0

CustodyTyped ==
    /\ place \in [Items -> {"none", "in", "out", "purged"}]
    /\ sealed \in [Sources -> {"old", "new"}] /\ label \in [Sources -> {"none", "old", "new", "later"}]
    /\ vault.status \in {"active", "decrypt_only", "destroyed"}
    /\ primary \in {"old", "new", "later"}
    /\ upgrade.status \in {"none", "pending", "failed", "pending_rewrap", "completed"}
    /\ upgrade.frozen \cup upgrade.lost \subseteq Sources /\ upgrade.version \in 0..MaxVersion
-----------------------------------------------------------------------------
(* owned_age_inventory(): what is in the keystore folder.                      *)
Inventory == {i \in Items : place[i] = "in"}

(* output_refs(), and the differences snapshot() finds.                        *)
Outputs == {Copy(r) : r \in {s \in Sources : upgrade.mapped[s] = "copy"}}
              \cup (IF upgrade.envelope THEN {Envelope} ELSE {})
Added   == Inventory \ (Outputs \cup upgrade.frozen)
Missing == upgrade.frozen \ Inventory
Drift   == Inventory # upgrade.frozen \cup Outputs

Target(r) == IF upgrade.mapped[r] = "self" THEN r ELSE Copy(r)

Verified_AnyTarget ==     \* mutant: an acknowledged copy counts though it is gone
    {r \in upgrade.frozen : upgrade.version \in {upgrade.acked[r], upgrade.opened[r]}}

(* snapshot(): acknowledged under the present inventory, with source and       *)
(* target still there.                                                         *)
Verified ==
    {r \in upgrade.frozen \cap Inventory :
        \/ upgrade.mapped[r] # "no" /\ Target(r) \in Inventory /\ upgrade.acked[r] = upgrade.version
        \/ upgrade.envelope /\ Envelope \in Inventory /\ upgrade.opened[r] = upgrade.version}

Unresolved == upgrade.frozen \ Verified

Retained == upgrade.status = "pending_rewrap"
              \/ (upgrade.status = "completed" /\ vault.status = "decrypt_only")

(* authorize_migration(): the token it was begun with, later the new key.      *)
Authorized(statuses) ==
    /\ upgrade.status \in statuses
    /\ \/ owner.kind = "custodial" /\ owner.token = upgrade.token
       \/ owner.kind = "registered" /\ upgrade.status = "completed"
-----------------------------------------------------------------------------
(* keystore.put: the writer declares the key, truly or not.                    *)
Put(r, declared, key) ==
    /\ place[r] = "none" /\ declared \in {"none", primary}
    /\ Retained => declared = "new"
    /\ place' = [place EXCEPT ![r] = "in"]
    /\ sealed' = [sealed EXCEPT ![r] = key] /\ label' = [label EXCEPT ![r] = declared]
    /\ UNCHANGED <<owner, vault, primary, upgrade, moves>>

(* content.move out of the folder and back, content.purge and retention.       *)
Move(i, to) ==
    /\ <<place[i], to>> \in {<<"in", "out">>, <<"out", "in">>, <<"in", "purged">>, <<"out", "purged">>}
    /\ moves < MaxMoves    \* bound
    /\ moves' = moves + 1
    /\ place' = [place EXCEPT ![i] = to]
    /\ UNCHANGED <<sealed, label, owner, vault, primary, upgrade>>

(* token_rotate and token_recover: the new token is another credential.        *)
RenewToken ==
    /\ owner.token \in 1..MaxRenewals - 1    \* bound
    /\ owner' = [owner EXCEPT !.token = @ + 1]
    /\ UNCHANGED <<place, sealed, label, vault, primary, upgrade, moves>>

(* encryption_key_rotate: needs a signature, which the vault's key may not     *)
(* give.                                                                       *)
RotateKey ==
    /\ owner.kind = "registered"
    /\ upgrade.status # "pending_rewrap" /\ ~(upgrade.status = "pending" /\ ~upgrade.lapsed)
    /\ vault.status # "decrypt_only"
    /\ primary' = "later"
    /\ UNCHANGED <<place, sealed, label, owner, vault, upgrade, moves>>
-----------------------------------------------------------------------------
(* custodial_upgrade_start: what is in the keystore is frozen; an attempt that *)
(* failed or lapsed makes room.                                                *)
StartUpgrade ==
    /\ owner.kind = "custodial" /\ owner.token # 0
    /\ upgrade.status \in {"none", "failed"} \/ (upgrade.status = "pending" /\ upgrade.lapsed)
    /\ upgrade' = [NoUpgrade EXCEPT !.status = "pending", !.token = owner.token,
                                    !.frozen = Inventory, !.version = 1]
    /\ UNCHANGED <<place, sealed, label, owner, vault, primary, moves>>

(* The 300 seconds of a challenge pass; later the clean-up removes it.         *)
Lapse ==
    /\ upgrade.status \in {"pending", "failed"}
    /\ upgrade' = IF upgrade.lapsed THEN NoUpgrade ELSE [upgrade EXCEPT !.lapsed = TRUE]
    /\ UNCHANGED <<place, sealed, label, owner, vault, primary, moves>>

Possessed ==
    Authorized({"pending"}) /\ ~upgrade.lapsed

(* custodial_upgrade_finish with a wrong proof or signature: the failure is    *)
(* answered, not raised, so that it is committed.                              *)
FinishWrong ==
    /\ Possessed
    /\ upgrade' = [upgrade EXCEPT !.status = "failed"]
    /\ UNCHANGED <<place, sealed, label, owner, vault, primary, moves>>

(* switch_identity(): the new key, the end of every token, and what is left of *)
(* the vault, in one transaction; a second decision only changes the vault.    *)
SwitchIdentity(retain, lost) ==
    /\ owner' = IF owner.kind = "custodial" THEN [kind |-> "registered", token |-> 0] ELSE owner
    /\ vault' = [status |-> IF retain THEN "decrypt_only" ELSE "destroyed",
                 signing |-> FALSE, decrypting |-> retain]
    /\ primary' = IF owner.kind = "custodial" THEN "new" ELSE primary
    /\ upgrade' = [upgrade EXCEPT !.status = "completed", !.lost = lost]
    /\ UNCHANGED <<place, sealed, label, moves>>

(* custodial_upgrade_finish without an action.  more: the owner did not        *)
(* declare that its copies elsewhere are migrated, or has a recovery policy.   *)
FinishUpgrade(more) ==
    /\ Possessed /\ Inventory = upgrade.frozen
    /\ IF upgrade.frozen # {} \/ more
       THEN /\ upgrade' = [upgrade EXCEPT !.status = "pending_rewrap"]
            /\ primary' = "new"
            /\ UNCHANGED <<place, sealed, label, owner, vault, moves>>
       ELSE SwitchIdentity(FALSE, {})
-----------------------------------------------------------------------------
(* transition(), refresh: what came is added, what went stays and is missing;  *)
(* no earlier acknowledgement counts for the new version.                      *)
Refresh ==
    /\ Authorized({"pending_rewrap", "completed"}) \/ Possessed
    /\ Added # {} \/ Missing # {}
    /\ upgrade.version < MaxVersion    \* bound
    /\ upgrade' = [upgrade EXCEPT
          !.frozen = @ \cup Added, !.version = @ + 1, !.lost = {},
          !.key = [r \in Sources |-> IF r \in Added /\ label[r] # "none" THEN label[r] ELSE @[r]],
          !.mapped = [r \in Sources |-> IF r \in Added /\ label[r] = "new" THEN "self" ELSE @[r]]]
    /\ UNCHANGED <<place, sealed, label, owner, vault, primary, moves>>

(* rewrap(): the vault's key opens the source, a copy is sealed to the new     *)
(* one.                                                                        *)
Rewrap(r) ==
    /\ Authorized({"pending_rewrap", "completed"}) /\ ~Drift
    /\ vault.status \in {"active", "decrypt_only"}
    /\ r \in upgrade.frozen /\ upgrade.key[r] = "old" /\ upgrade.mapped[r] = "no"
    /\ sealed[r] = "old"
    /\ place' = [place EXCEPT ![Copy(r)] = "in"]
    /\ upgrade' = [upgrade EXCEPT !.mapped[r] = "copy"]
    /\ UNCHANGED <<sealed, label, owner, vault, primary, moves>>

(* transition(), recovery_envelope: the old key itself, sealed to the new one. *)
MakeEnvelope ==
    /\ Authorized({"pending_rewrap", "completed"}) /\ ~Drift
    /\ ~upgrade.envelope /\ vault.decrypting /\ primary = "new"
    /\ place' = [place EXCEPT ![Envelope] = "in"]
    /\ upgrade' = [upgrade EXCEPT !.envelope = TRUE]
    /\ UNCHANGED <<sealed, label, owner, vault, primary, moves>>

(* custodial_rewrap_ack of a copy, bound to the inventory or, the old way, to  *)
(* the copy alone; the client has opened it.                                   *)
AckCopy(r, bound) ==
    /\ Authorized({"pending_rewrap", "completed"}) /\ ~Drift
    /\ r \in upgrade.frozen /\ upgrade.mapped[r] # "no"
    /\ upgrade.mapped[r] = "self" => sealed[r] = "new"
    /\ LET version == IF bound THEN upgrade.version ELSE 0
       IN  /\ upgrade.acked[r] # version
           /\ upgrade' = [upgrade EXCEPT !.acked[r] = version]
    /\ UNCHANGED <<place, sealed, label, owner, vault, primary, moves>>

(* custodial_rewrap_ack by compatibility recovery: the client has opened the   *)
(* envelope, and the source with the key it found in it.                       *)
AckRecovery(r) ==
    /\ Authorized({"pending_rewrap", "completed"}) /\ ~Drift
    /\ r \in upgrade.frozen /\ upgrade.envelope /\ upgrade.key[r] = "old" /\ sealed[r] = "old"
    /\ upgrade.opened[r] # upgrade.version
    /\ upgrade' = [upgrade EXCEPT !.opened[r] = upgrade.version]
    /\ UNCHANGED <<place, sealed, label, owner, vault, primary, moves>>

(* transition(), finalize: verified, or what is unresolved is named.           *)
Finalize(resolution) ==
    /\ Authorized({"pending_rewrap", "completed"})
    /\ Added = {} /\ ~(upgrade.status = "completed" /\ ~vault.decrypting)
    /\ resolution = "verified" => ~Drift /\ Unresolved = {}
    /\ resolution = "accept_loss" => Unresolved # {}
    /\ SwitchIdentity(resolution = "retain_decrypt", Unresolved)

NextCustody ==
    \/ \E r \in Sources :
          \/ \E declared \in {"none", "old", "new", "later"}, key \in {"old", "new"} :
                Put(r, declared, key)
          \/ Rewrap(r) \/ AckRecovery(r) \/ \E bound \in BOOLEAN : AckCopy(r, bound)
    \/ \E i \in Items, to \in {"in", "out", "purged"} : Move(i, to)
    \/ RenewToken \/ RotateKey \/ StartUpgrade \/ Lapse \/ FinishWrong
    \/ \E more \in BOOLEAN : FinishUpgrade(more)
    \/ Refresh \/ MakeEnvelope
    \/ \E resolution \in {"verified", "accept_loss", "retain_decrypt"} : Finalize(resolution)

CustodySpec == InitCustody /\ [][NextCustody]_custody_vars
-----------------------------------------------------------------------------
(* What the owner can open by itself: with its new key, a copy of its own, or  *)
(* the old key out of the envelope.                                            *)
Openable(r) ==
    \/ sealed[r] = "new"
    \/ place[Copy(r)] = "in"
    \/ sealed[r] = "old" /\ place[Envelope] = "in"

(* When the vault's last key for the history goes, everything in the keystore  *)
(* can be opened without it or is named in the owner's decision as lost,       *)
(* whatever was written, moved or purged since the exit began.                 *)
NothingLostUnnamed ==
    vault.decrypting /\ ~vault'.decrypting =>
        \A r \in Sources : place[r] = "in" => Openable(r)' \/ r \in upgrade'.lost

(* The identity changes hands in one step: from then on no token of the old    *)
(* one is good and the service can no longer sign for it, and before that it   *)
(* holds both keys.                                                            *)
OneIdentity ==
    IF owner.kind = "registered"
    THEN owner.token = 0 /\ ~vault.signing /\ upgrade.status = "completed"
    ELSE vault.status = "active" /\ vault.signing /\ vault.decrypting
            /\ upgrade.status # "completed"

(* While the service may still rewrap history, the key it rewraps to, which    *)
(* its owner proved, stays the primary one.                                    *)
TargetHeld == Retained => primary = "new"

(* An exit loses no history and no identity.                                 *)
CustodySound ==
    [][CustodyTyped' /\ OneIdentity' /\ TargetHeld' /\ NothingLostUnnamed]_custody_vars
=============================================================================
