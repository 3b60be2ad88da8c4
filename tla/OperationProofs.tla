--------------------------- MODULE OperationProofs ---------------------------
(* Custody of a client's keys, hosting, a client's copy of the event log,      *)
(* topics and groups: for any number of subjects, sources, sites, purchases,   *)
(* resources, events and pages.                                                *)
(*                                                                             *)
(* CustodySound needs four things more to be inductive: the service knows all  *)
(* that it has written, an upgrade that was not finished has written nothing,  *)
(* an acknowledgement means that the key opens the revision, and the vault is  *)
(* left with the keys its status says.  HostingSound is about sums, and every  *)
(* step changes one of their terms.  SyncSound needs that the copy is in step  *)
(* with the body the service keeps, measured by the watched set of that body   *)
(* and not by the present one.  TopicsSound needs that who asked for a seat is *)
(* known while the request is pending, and who was let in while the invitation *)
(* stands.  GroupsSound is inductive as it stands.                             *)
EXTENDS Custody, Hosting, Sync, Topics, Groups, FoldLemmas, SequenceTheorems
-----------------------------------------------------------------------------
(* Custody.                                                                    *)
Begun == {"pending", "failed", "pending_rewrap", "completed"}

UpgradeRows ==
    [status : {"none"} \cup Begun, token : Nat, lapsed : BOOLEAN,
     frozen : SUBSET Sources, version : 0..MaxVersion,
     key : [Sources -> {"old", "new", "later", "none"}], mapped : [Sources -> {"no", "self", "copy"}],
     acked : [Sources -> {-1} \cup 0..MaxVersion], opened : [Sources -> {-1} \cup 0..MaxVersion],
     envelope : BOOLEAN, lost : SUBSET Sources]

CustodyShapes ==
    /\ place \in [Items -> {"none", "in", "out", "purged"}]
    /\ sealed \in [Sources -> {"old", "new"}] /\ label \in [Sources -> {"none", "old", "new", "later"}]
    /\ owner \in [kind : {"custodial", "registered"}, token : Nat]
    /\ vault \in [status : {"active", "decrypt_only", "destroyed"},
                  signing : BOOLEAN, decrypting : BOOLEAN]
    /\ primary \in {"old", "new", "later"}
    /\ upgrade \in UpgradeRows

(* What the service has written, it knows of; what it knows of was there.      *)
OutputsKnown ==
    /\ \A r \in Sources : place[Copy(r)] # "none" => upgrade.mapped[r] = "copy"
    /\ place[Envelope] # "none" => upgrade.envelope
    /\ \A r \in Sources : upgrade.mapped[r] # "no" => r \in upgrade.frozen
    /\ \A r \in upgrade.frozen : place[r] # "none"

(* Before the vault's key was used there are no copies.                        *)
NoneYet ==
    upgrade.status \notin {"pending_rewrap", "completed"} =>
        /\ \A r \in Sources : upgrade.mapped[r] # "copy"
        /\ ~upgrade.envelope

(* What the owner acknowledged under the present inventory, it can open.       *)
AcksTrue ==
    /\ upgrade.status # "none" => upgrade.version >= 1
    /\ \A r \in Sources :
          /\ upgrade.acked[r] <= upgrade.version /\ upgrade.opened[r] <= upgrade.version
          /\ upgrade.opened[r] >= 0 => r \in upgrade.frozen
          /\ upgrade.mapped[r] = "self" /\ upgrade.acked[r] >= 1 /\ upgrade.acked[r] = upgrade.version
                => sealed[r] = "new"
          /\ upgrade.opened[r] >= 1 => sealed[r] = "old"

VaultHonest ==
    /\ vault.decrypting <=> vault.status # "destroyed"
    /\ owner.kind = "registered" => vault.status # "active"

CustodyInv ==
    /\ CustodyShapes /\ OutputsKnown /\ NoneYet /\ AcksTrue /\ VaultHonest
    /\ OneIdentity /\ TargetHeld


LEMMA ItemsApart ==
    ASSUME CustodyAssumption
    PROVE  /\ \A r \in Sources : r \in Items /\ Copy(r) \in Items /\ r # Envelope /\ Copy(r) # Envelope
           /\ \A r, s \in Sources : r # Copy(s) /\ (Copy(r) = Copy(s) => r = s)
           /\ Envelope \in Items
           /\ \A i \in Items : i \notin Sources => i = Envelope \/ \E r \in Sources : i = Copy(r)
           /\ Sources \subseteq Items
           /\ MaxVersion \in Nat \ {0}
  <1>1. \A r \in Sources : Copy(r) # Envelope
    BY DEF Copy, Envelope
  <1>2. \A r, s \in Sources : Copy(r) = Copy(s) => r = s
    BY DEF Copy
  <1>3. \A r \in Sources : Copy(r) \in Rewrapped
    BY DEF Rewrapped
  <1>4. Envelope \in Rewrapped
    BY DEF Rewrapped
  <1>5. MaxVersion \in Nat \ {0}
    BY DEF CustodyAssumption
  <1>6. \A i \in Rewrapped : i = Envelope \/ \E r \in Sources : i = Copy(r)
    BY DEF Rewrapped
  <1> HIDE DEF Copy, Envelope, Rewrapped
  <1> QED  BY <1>1, <1>2, <1>3, <1>4, <1>5, <1>6 DEF CustodyAssumption, Items

LEMMA NoUpgradeTyped ==
    ASSUME CustodyAssumption
    PROVE  NoUpgrade \in UpgradeRows
  BY ItemsApart DEF NoUpgrade, UpgradeRows, Begun

LEMMA CustodyInit == ASSUME CustodyAssumption, InitCustody PROVE CustodyInv
  <1>1. upgrade \in UpgradeRows
    BY NoUpgradeTyped DEF InitCustody
  <1>2. CustodyShapes
    BY <1>1 DEF InitCustody, CustodyShapes
  <1>3. /\ upgrade.status = "none" /\ upgrade.frozen = {} /\ ~upgrade.envelope /\ upgrade.version = 0
        /\ \A r \in Sources : /\ upgrade.mapped[r] = "no" /\ upgrade.acked[r] = -1
                              /\ upgrade.opened[r] = -1
    BY DEF InitCustody, NoUpgrade
  <1>4. OutputsKnown
    BY <1>3, ItemsApart DEF InitCustody, OutputsKnown
  <1>5. NoneYet /\ AcksTrue
    BY <1>3 DEF NoneYet, AcksTrue
  <1>6. VaultHonest /\ OneIdentity /\ TargetHeld
    BY <1>3 DEF InitCustody, VaultHonest, OneIdentity, TargetHeld, Retained
  <1> QED  BY <1>2, <1>4, <1>5, <1>6 DEF CustodyInv

(* The rows of the invariant with their fields.                                *)
LEMMA CustodyOpened ==
    ASSUME CustodyInv
    PROVE  /\ upgrade.status \in {"none"} \cup Begun /\ upgrade.token \in Nat /\ upgrade.lapsed \in BOOLEAN
           /\ upgrade.frozen \in SUBSET Sources /\ upgrade.version \in 0..MaxVersion
           /\ upgrade.key \in [Sources -> {"old", "new", "later", "none"}]
           /\ upgrade.mapped \in [Sources -> {"no", "self", "copy"}]
           /\ upgrade.acked \in [Sources -> {-1} \cup 0..MaxVersion]
           /\ upgrade.opened \in [Sources -> {-1} \cup 0..MaxVersion]
           /\ upgrade.envelope \in BOOLEAN /\ upgrade.lost \in SUBSET Sources
           /\ owner.kind \in {"custodial", "registered"} /\ owner.token \in Nat
           /\ vault.status \in {"active", "decrypt_only", "destroyed"}
           /\ vault.signing \in BOOLEAN /\ vault.decrypting \in BOOLEAN
  BY DEF CustodyInv, CustodyShapes, UpgradeRows

(* Steps that leave the exit's row alone.                                      *)
LEMMA PutKeeps ==
    ASSUME CustodyAssumption, CustodyInv, NEW r \in Sources,
           NEW declared \in {"none", "old", "new", "later"}, NEW key \in {"old", "new"},
           Put(r, declared, key)
    PROVE  CustodyInv'
  <1>1. /\ place[r] = "none" /\ place' = [place EXCEPT ![r] = "in"]
        /\ sealed' = [sealed EXCEPT ![r] = key] /\ label' = [label EXCEPT ![r] = declared]
        /\ UNCHANGED <<owner, vault, primary, upgrade>>
    BY DEF Put
  <1>2. CustodyShapes'
    BY <1>1 DEF CustodyInv, CustodyShapes
  <1>3. /\ \A s \in Sources : place'[Copy(s)] = place[Copy(s)]
        /\ place'[Envelope] = place[Envelope]
        /\ \A s \in Sources : place[s] # "none" => place'[s] # "none"
        /\ r \notin upgrade.frozen
    BY <1>1, ItemsApart, CustodyOpened DEF CustodyInv, CustodyShapes, OutputsKnown
  <1>4. OutputsKnown'
    BY <1>1, <1>3, CustodyOpened DEF CustodyInv, OutputsKnown
  <1>5. AcksTrue'
    <2>1. \A s \in upgrade.frozen : sealed'[s] = sealed[s]
      BY <1>1, <1>3, CustodyOpened DEF CustodyInv, CustodyShapes
    <2> QED  BY <1>1, <2>1, CustodyOpened DEF CustodyInv, AcksTrue, OutputsKnown
  <1>6. NoneYet' /\ VaultHonest' /\ OneIdentity' /\ TargetHeld'
    BY <1>1 DEF CustodyInv, NoneYet, VaultHonest, OneIdentity, TargetHeld, Retained
  <1> QED  BY <1>2, <1>4, <1>5, <1>6 DEF CustodyInv

LEMMA MoveKeeps ==
    ASSUME CustodyAssumption, CustodyInv, NEW i \in Items, NEW to \in {"in", "out", "purged"}, Move(i, to)
    PROVE  CustodyInv'
  <1>1. /\ place[i] # "none" /\ place' = [place EXCEPT ![i] = to]
        /\ UNCHANGED <<sealed, label, owner, vault, primary, upgrade>>
    BY DEF Move
  <1>2. CustodyShapes'
    BY <1>1 DEF CustodyInv, CustodyShapes
  <1>3. \A j \in Items : place'[j] = "none" <=> place[j] = "none"
    BY <1>1 DEF CustodyInv, CustodyShapes
  <1>4. OutputsKnown'
    BY <1>1, <1>3, ItemsApart, CustodyOpened DEF CustodyInv, OutputsKnown
  <1>5. NoneYet' /\ AcksTrue' /\ VaultHonest' /\ OneIdentity' /\ TargetHeld'
    BY <1>1 DEF CustodyInv, NoneYet, AcksTrue, VaultHonest, OneIdentity, TargetHeld, Retained
  <1> QED  BY <1>2, <1>4, <1>5 DEF CustodyInv

LEMMA CredentialKeeps ==
    ASSUME CustodyAssumption, CustodyInv, RenewToken \/ RotateKey
    PROVE  CustodyInv'
  <1>1. UNCHANGED <<place, sealed, label, vault, upgrade>>
    BY DEF RenewToken, RotateKey
  <1>2. OutputsKnown' /\ NoneYet' /\ AcksTrue'
    BY <1>1 DEF CustodyInv, OutputsKnown, NoneYet, AcksTrue
  <1>3. CASE RenewToken
    <2>1. /\ owner.token >= 1 /\ owner' = [owner EXCEPT !.token = @ + 1] /\ primary' = primary
      BY <1>3 DEF RenewToken, CustodyAssumption
    <2>2. owner.kind = "custodial" /\ owner'.kind = "custodial" /\ owner'.token \in Nat
      BY <2>1, CustodyOpened DEF CustodyInv, OneIdentity, CustodyShapes
    <2>3. owner' \in [kind : {"custodial", "registered"}, token : Nat]
      BY <2>1, CustodyOpened DEF CustodyInv, CustodyShapes
    <2>4. CustodyShapes' /\ OneIdentity' /\ TargetHeld' /\ VaultHonest'
      BY <1>1, <2>1, <2>2, <2>3 DEF CustodyInv, CustodyShapes, OneIdentity, TargetHeld, Retained, VaultHonest
    <2> QED  BY <1>2, <2>4 DEF CustodyInv
  <1>4. CASE RotateKey
    <2>1. /\ owner' = owner /\ primary' = "later" /\ ~Retained
      BY <1>4 DEF RotateKey, Retained
    <2>2. CustodyShapes' /\ OneIdentity' /\ TargetHeld' /\ VaultHonest'
      BY <1>1, <2>1 DEF CustodyInv, CustodyShapes, OneIdentity, TargetHeld, Retained, VaultHonest
    <2> QED  BY <1>2, <2>2 DEF CustodyInv
  <1> QED  BY <1>3, <1>4

(* Steps of the challenge.                                                     *)
LEMMA ChallengeKeeps ==
    ASSUME CustodyAssumption, CustodyInv, StartUpgrade \/ Lapse \/ FinishWrong
    PROVE  CustodyInv'
  <1>1. UNCHANGED <<place, sealed, label, owner, vault, primary>>
    BY DEF StartUpgrade, Lapse, FinishWrong
  <1>2. upgrade.status \notin {"pending_rewrap", "completed"}
    BY DEF StartUpgrade, Lapse, FinishWrong, Possessed, Authorized
  <1>3. /\ \A r \in Sources : place[Copy(r)] = "none"
        /\ place[Envelope] = "none"
    BY <1>2 DEF CustodyInv, OutputsKnown, NoneYet
  <1>4. /\ upgrade' \in UpgradeRows
        /\ upgrade'.status \notin {"pending_rewrap", "completed"}
        /\ ~upgrade'.envelope
        /\ \A r \in Sources : /\ upgrade'.mapped[r] # "copy"
                              /\ upgrade'.mapped[r] # "no" => r \in upgrade'.frozen
        /\ \A r \in upgrade'.frozen : place[r] # "none"
        /\ AcksTrue'
    <2>1. CASE StartUpgrade
      <3>1. upgrade' = [NoUpgrade EXCEPT !.status = "pending", !.token = owner.token,
                                         !.frozen = Inventory, !.version = 1]
        BY <2>1 DEF StartUpgrade
      <3>2. Inventory \in SUBSET Sources
        BY <1>3, ItemsApart DEF Inventory
      <3>3. upgrade' \in UpgradeRows
        <4>1. 1 \in 0..MaxVersion /\ owner.token \in Nat /\ NoUpgrade \in UpgradeRows
          BY ItemsApart, NoUpgradeTyped, CustodyOpened
        <4> QED  BY <3>1, <3>2, <4>1 DEF UpgradeRows, Begun
      <3>4. /\ upgrade'.status = "pending" /\ upgrade'.frozen = Inventory /\ ~upgrade'.envelope
            /\ upgrade'.version = 1
            /\ \A r \in Sources : /\ upgrade'.mapped[r] = "no" /\ upgrade'.acked[r] = -1
                                  /\ upgrade'.opened[r] = -1
        BY <3>1 DEF NoUpgrade
      <3>5. AcksTrue'
        BY <3>4 DEF AcksTrue
      <3> QED  BY <3>3, <3>4, <3>5 DEF Inventory
    <2>2. CASE Lapse
      <3>1. CASE upgrade.lapsed
        <4>1. upgrade' = NoUpgrade
          BY <2>2, <3>1 DEF Lapse
        <4>2. /\ upgrade'.status = "none" /\ upgrade'.frozen = {} /\ ~upgrade'.envelope
              /\ upgrade'.version = 0
              /\ \A r \in Sources : /\ upgrade'.mapped[r] = "no" /\ upgrade'.acked[r] = -1
                                    /\ upgrade'.opened[r] = -1
          BY <4>1 DEF NoUpgrade
        <4>3. AcksTrue'
          BY <4>2 DEF AcksTrue
        <4> QED  BY <4>1, <4>2, <4>3, NoUpgradeTyped
      <3>2. CASE ~upgrade.lapsed
        <4>1. upgrade' = [upgrade EXCEPT !.lapsed = TRUE] /\ upgrade \in UpgradeRows
          BY <2>2, <3>2 DEF Lapse, CustodyInv, CustodyShapes
        <4>2. upgrade' \in UpgradeRows
          BY <4>1 DEF UpgradeRows
        <4>3. /\ upgrade'.status = upgrade.status /\ upgrade'.frozen = upgrade.frozen
              /\ upgrade'.envelope = upgrade.envelope /\ upgrade'.mapped = upgrade.mapped
              /\ upgrade'.version = upgrade.version /\ upgrade'.acked = upgrade.acked
              /\ upgrade'.opened = upgrade.opened
          BY <4>1 DEF UpgradeRows
        <4> QED  BY <1>1, <1>2, <4>2, <4>3 DEF CustodyInv, NoneYet, OutputsKnown, AcksTrue
      <3> QED  BY <3>1, <3>2
    <2>3. CASE FinishWrong
      <3>1. upgrade' = [upgrade EXCEPT !.status = "failed"] /\ upgrade \in UpgradeRows
            /\ upgrade.status = "pending"
        BY <2>3 DEF FinishWrong, Possessed, Authorized, CustodyInv, CustodyShapes
      <3>2. upgrade' \in UpgradeRows
        BY <3>1 DEF UpgradeRows, Begun
      <3>3. /\ upgrade'.status = "failed" /\ upgrade'.frozen = upgrade.frozen
            /\ upgrade'.envelope = upgrade.envelope /\ upgrade'.mapped = upgrade.mapped
            /\ upgrade'.version = upgrade.version /\ upgrade'.acked = upgrade.acked
            /\ upgrade'.opened = upgrade.opened
        BY <3>1 DEF UpgradeRows
      <3> QED  BY <1>1, <1>2, <3>1, <3>2, <3>3 DEF CustodyInv, NoneYet, OutputsKnown, AcksTrue
    <2> QED  BY <2>1, <2>2, <2>3
  <1>5. CustodyShapes' /\ VaultHonest'
    BY <1>1, <1>4 DEF CustodyInv, CustodyShapes, VaultHonest
  <1>6. owner.kind = "custodial"
    BY <1>2, CustodyOpened DEF CustodyInv, OneIdentity
  <1>7. OneIdentity' /\ TargetHeld'
    BY <1>1, <1>2, <1>4, <1>6 DEF CustodyInv, OneIdentity, TargetHeld, Retained
  <1>8. OutputsKnown' /\ NoneYet'
    BY <1>1, <1>3, <1>4 DEF OutputsKnown, NoneYet
  <1> QED  BY <1>4, <1>5, <1>7, <1>8 DEF CustodyInv


(* What a transition may do to the exit's row while the vault's key is in use: *)
(* the rest of the invariant is about its fields.                              *)
LEMMA FinishKeeps ==
    ASSUME CustodyAssumption, CustodyInv, NEW more \in BOOLEAN, FinishUpgrade(more)
    PROVE  CustodyInv'
  <1>1. /\ upgrade.status = "pending" /\ owner.kind = "custodial"
        /\ vault.status = "active" /\ vault.signing /\ vault.decrypting
    BY CustodyOpened DEF FinishUpgrade, Possessed, Authorized, CustodyInv, OneIdentity
  <1>2. UNCHANGED <<place, sealed, label>>
    BY DEF FinishUpgrade, SwitchIdentity
  <1>3. upgrade \in UpgradeRows
    BY DEF CustodyInv, CustodyShapes
  <1>4. CASE upgrade' = [upgrade EXCEPT !.status = "pending_rewrap"] /\ primary' = "new"
             /\ UNCHANGED <<owner, vault>>
    <2>1. upgrade' \in UpgradeRows
      BY <1>3, <1>4 DEF UpgradeRows, Begun
    <2>2. /\ upgrade'.status = "pending_rewrap" /\ upgrade'.frozen = upgrade.frozen
          /\ upgrade'.envelope = upgrade.envelope /\ upgrade'.mapped = upgrade.mapped
          /\ upgrade'.version = upgrade.version /\ upgrade'.acked = upgrade.acked
          /\ upgrade'.opened = upgrade.opened
      BY <1>3, <1>4 DEF UpgradeRows
    <2>3. OutputsKnown' /\ NoneYet' /\ AcksTrue'
      BY <1>1, <1>2, <2>2 DEF CustodyInv, OutputsKnown, NoneYet, AcksTrue
    <2>4. CustodyShapes' /\ VaultHonest'
      BY <1>2, <1>4, <2>1 DEF CustodyInv, CustodyShapes, VaultHonest
    <2>5. OneIdentity' /\ TargetHeld'
      BY <1>1, <1>4, <2>2 DEF CustodyInv, OneIdentity, TargetHeld
    <2> QED  BY <2>3, <2>4, <2>5 DEF CustodyInv
  <1>5. CASE SwitchIdentity(FALSE, {})
    <2>1. /\ owner' = [kind |-> "registered", token |-> 0]
          /\ vault' = [status |-> "destroyed", signing |-> FALSE, decrypting |-> FALSE]
          /\ primary' = "new" /\ upgrade' = [upgrade EXCEPT !.status = "completed", !.lost = {}]
      BY <1>1, <1>5 DEF SwitchIdentity
    <2>2. upgrade' \in UpgradeRows
      BY <1>3, <2>1 DEF UpgradeRows, Begun
    <2>3. /\ upgrade'.status = "completed" /\ upgrade'.frozen = upgrade.frozen
          /\ upgrade'.envelope = upgrade.envelope /\ upgrade'.mapped = upgrade.mapped
          /\ upgrade'.version = upgrade.version /\ upgrade'.acked = upgrade.acked
          /\ upgrade'.opened = upgrade.opened
      BY <1>3, <2>1 DEF UpgradeRows
    <2>4. OutputsKnown' /\ NoneYet' /\ AcksTrue'
      BY <1>1, <1>2, <2>3 DEF CustodyInv, OutputsKnown, NoneYet, AcksTrue
    <2>5. CustodyShapes' /\ VaultHonest'
      BY <1>2, <2>1, <2>2 DEF CustodyInv, CustodyShapes, VaultHonest
    <2>6. OneIdentity' /\ TargetHeld'
      BY <2>1, <2>3 DEF OneIdentity, TargetHeld
    <2> QED  BY <2>4, <2>5, <2>6 DEF CustodyInv
  <1> QED  BY <1>4, <1>5 DEF FinishUpgrade

(* Whoever may act on a migration that has begun has a key that is "new".      *)
LEMMA AtWork ==
    ASSUME CustodyInv, Authorized({"pending_rewrap", "completed"})
    PROVE  /\ upgrade.status \in {"pending_rewrap", "completed"}
           /\ upgrade.status = "pending_rewrap" => owner.kind = "custodial"
           /\ upgrade.status = "completed" => owner.kind = "registered"
  BY CustodyOpened DEF Authorized, CustodyInv, OneIdentity

LEMMA FinalizeKeeps ==
    ASSUME CustodyAssumption, CustodyInv,
           NEW resolution \in {"verified", "accept_loss", "retain_decrypt"}, Finalize(resolution)
    PROVE  CustodyInv'
  <1> DEFINE retain == resolution = "retain_decrypt"
  <1>1. /\ SwitchIdentity(retain, Unresolved)
        /\ upgrade.status \in {"pending_rewrap", "completed"}
        /\ upgrade.status = "pending_rewrap" => owner.kind = "custodial"
        /\ upgrade.status = "completed" => owner.kind = "registered"
        /\ upgrade.status = "completed" => vault.decrypting
    BY AtWork DEF Finalize
  <1>2. upgrade \in UpgradeRows /\ Unresolved \in SUBSET Sources
    BY CustodyOpened DEF CustodyInv, CustodyShapes, Unresolved
  <1> HIDE DEF retain
  <1>3. /\ owner' = IF owner.kind = "custodial" THEN [kind |-> "registered", token |-> 0] ELSE owner
        /\ vault' = [status |-> IF retain THEN "decrypt_only" ELSE "destroyed",
                     signing |-> FALSE, decrypting |-> retain]
        /\ primary' = IF owner.kind = "custodial" THEN "new" ELSE primary
        /\ upgrade' = [upgrade EXCEPT !.status = "completed", !.lost = Unresolved]
        /\ UNCHANGED <<place, sealed, label>>
    BY <1>1 DEF SwitchIdentity
  <1>4. upgrade' \in UpgradeRows
    BY <1>2, <1>3 DEF UpgradeRows, Begun
  <1>5. /\ upgrade'.status = "completed" /\ upgrade'.frozen = upgrade.frozen
        /\ upgrade'.envelope = upgrade.envelope /\ upgrade'.mapped = upgrade.mapped
        /\ upgrade'.version = upgrade.version /\ upgrade'.acked = upgrade.acked
        /\ upgrade'.opened = upgrade.opened
    BY <1>2, <1>3 DEF UpgradeRows
  <1>6. OutputsKnown' /\ NoneYet' /\ AcksTrue'
    BY <1>1, <1>3, <1>5 DEF CustodyInv, OutputsKnown, NoneYet, AcksTrue
  <1>7. /\ owner'.kind = "registered" /\ owner'.token = 0
        /\ owner' \in [kind : {"custodial", "registered"}, token : Nat]
    BY <1>3, CustodyOpened DEF CustodyInv, CustodyShapes, OneIdentity
  <1>8. retain \in BOOLEAN
    BY DEF retain
  <1>9. CustodyShapes' /\ VaultHonest'
    BY <1>3, <1>4, <1>7, <1>8 DEF CustodyInv, CustodyShapes, VaultHonest
  <1>10. primary' = "new"
    <2>1. CASE owner.kind = "custodial"
      BY <1>3, <2>1
    <2>2. CASE owner.kind # "custodial"
      <3>1. upgrade.status = "completed" /\ vault.decrypting
        BY <1>1, <2>2
      <3>2. vault.status = "decrypt_only"
        BY <3>1, <2>2, CustodyOpened DEF CustodyInv, OneIdentity, VaultHonest
      <3> QED  BY <1>3, <2>2, <3>1, <3>2 DEF CustodyInv, TargetHeld, Retained
    <2> QED  BY <2>1, <2>2
  <1>11. OneIdentity' /\ TargetHeld'
    BY <1>3, <1>5, <1>7, <1>10 DEF OneIdentity, TargetHeld
  <1> QED  BY <1>6, <1>9, <1>11 DEF CustodyInv


(* A step of a migration that leaves the identity alone: it keeps the status,  *)
(* and what it adds to the row and the keystore is accounted for.              *)
LEMMA MigrationMoves ==
    ASSUME CustodyInv, UNCHANGED <<sealed, label, owner, vault, primary>>,
           upgrade' \in UpgradeRows, upgrade'.status = upgrade.status,
           place' \in [Items -> {"none", "in", "out", "purged"}],
           OutputsKnown', NoneYet', AcksTrue'
    PROVE  CustodyInv'
  <1>1. CustodyShapes' /\ VaultHonest'
    BY DEF CustodyInv, CustodyShapes, VaultHonest
  <1>2. OneIdentity' /\ TargetHeld'
    BY DEF CustodyInv, OneIdentity, TargetHeld, Retained
  <1> QED  BY <1>1, <1>2 DEF CustodyInv

LEMMA RefreshKeeps ==
    ASSUME CustodyAssumption, CustodyInv, Refresh
    PROVE  CustodyInv'
  <1> DEFINE keys == [r \in Sources |-> IF r \in Added /\ label[r] # "none" THEN label[r]
                                        ELSE upgrade.key[r]]
             maps == [r \in Sources |-> IF r \in Added /\ label[r] = "new" THEN "self"
                                        ELSE upgrade.mapped[r]]
  <1>1. /\ UNCHANGED <<place, sealed, label, owner, vault, primary>>
        /\ upgrade.version < MaxVersion
        /\ upgrade' = [upgrade EXCEPT !.frozen = upgrade.frozen \cup Added,
                                      !.version = upgrade.version + 1,
                                      !.lost = {}, !.key = keys, !.mapped = maps]
        /\ upgrade.status # "none"
    BY DEF Refresh, Authorized, Possessed
  <1>2. Added \in SUBSET Sources
    <2>1. \A r \in Sources : place[Copy(r)] = "in" => Copy(r) \in Outputs
      BY DEF CustodyInv, OutputsKnown, Outputs
    <2>2. place[Envelope] = "in" => Envelope \in Outputs
      BY DEF CustodyInv, OutputsKnown, Outputs
    <2> QED  BY <2>1, <2>2, ItemsApart DEF Added, Inventory
  <1>3. /\ keys \in [Sources -> {"old", "new", "later", "none"}]
        /\ maps \in [Sources -> {"no", "self", "copy"}]
    BY CustodyOpened DEF CustodyInv, CustodyShapes
  <1>4. /\ \A r \in Added : place[r] = "in" /\ r \notin upgrade.frozen
        /\ \A r \in Sources : maps[r] = IF r \in Added /\ label[r] = "new" THEN "self"
                                        ELSE upgrade.mapped[r]
    BY DEF Added, Inventory
  <1> HIDE DEF keys, maps
  <1>5. upgrade.version + 1 \in 0..MaxVersion /\ upgrade \in UpgradeRows
    BY <1>1, ItemsApart, CustodyOpened DEF CustodyInv, CustodyShapes
  <1>6. upgrade' \in UpgradeRows
    BY <1>1, <1>2, <1>3, <1>5 DEF UpgradeRows
  <1>7. /\ upgrade'.status = upgrade.status /\ upgrade'.frozen = upgrade.frozen \cup Added
        /\ upgrade'.envelope = upgrade.envelope /\ upgrade'.mapped = maps
        /\ upgrade'.version = upgrade.version + 1 /\ upgrade'.acked = upgrade.acked
        /\ upgrade'.opened = upgrade.opened
    BY <1>1, <1>5 DEF UpgradeRows
  <1>8. OutputsKnown'
    <2>1. \A r \in Sources : upgrade.mapped[r] = "copy" => maps[r] = "copy"
      BY <1>4 DEF CustodyInv, OutputsKnown
    <2>2. \A r \in Sources : maps[r] # "no" => r \in upgrade.frozen \cup Added
      BY <1>4 DEF CustodyInv, OutputsKnown
    <2>3. \A r \in upgrade.frozen \cup Added : place[r] # "none"
      BY <1>4 DEF CustodyInv, OutputsKnown
    <2> QED  BY <1>1, <1>7, <2>1, <2>2, <2>3 DEF CustodyInv, OutputsKnown
  <1>9. NoneYet'
    BY <1>4, <1>7 DEF CustodyInv, NoneYet
  <1>10. AcksTrue'
    BY <1>1, <1>7, CustodyOpened DEF CustodyInv, AcksTrue
  <1> QED  BY <1>1, <1>6, <1>7, <1>8, <1>9, <1>10, MigrationMoves DEF CustodyInv, CustodyShapes

LEMMA RewrapKeeps ==
    ASSUME CustodyAssumption, CustodyInv, NEW r \in Sources, Rewrap(r)
    PROVE  CustodyInv'
  <1>1. /\ UNCHANGED <<sealed, label, owner, vault, primary>>
        /\ upgrade.status \in {"pending_rewrap", "completed"}
        /\ r \in upgrade.frozen /\ upgrade.mapped[r] = "no"
        /\ place' = [place EXCEPT ![Copy(r)] = "in"]
        /\ upgrade' = [upgrade EXCEPT !.mapped = [upgrade.mapped EXCEPT ![r] = "copy"]]
    BY AtWork DEF Rewrap
  <1> DEFINE maps == [upgrade.mapped EXCEPT ![r] = "copy"]
  <1>2. maps \in [Sources -> {"no", "self", "copy"}] /\ upgrade \in UpgradeRows
    BY CustodyOpened DEF CustodyInv, CustodyShapes
  <1>3. \A s \in Sources : maps[s] = IF s = r THEN "copy" ELSE upgrade.mapped[s]
    BY CustodyOpened
  <1>4. upgrade' = [upgrade EXCEPT !.mapped = maps]
    BY <1>1
  <1> HIDE DEF maps
  <1>5. upgrade' \in UpgradeRows
    BY <1>2, <1>4 DEF UpgradeRows
  <1>6. /\ upgrade'.status = upgrade.status /\ upgrade'.frozen = upgrade.frozen
        /\ upgrade'.envelope = upgrade.envelope /\ upgrade'.mapped = maps
        /\ upgrade'.version = upgrade.version /\ upgrade'.acked = upgrade.acked
        /\ upgrade'.opened = upgrade.opened
    BY <1>2, <1>4 DEF UpgradeRows
  <1>7. /\ place' \in [Items -> {"none", "in", "out", "purged"}]
        /\ \A s \in Sources : place'[s] = place[s]
        /\ \A s \in Sources : s # r => place'[Copy(s)] = place[Copy(s)]
        /\ place'[Envelope] = place[Envelope]
    BY <1>1, ItemsApart DEF CustodyInv, CustodyShapes
  <1>8. OutputsKnown'
    BY <1>1, <1>3, <1>6, <1>7, CustodyOpened DEF CustodyInv, OutputsKnown
  <1>9. NoneYet' /\ AcksTrue'
    BY <1>1, <1>3, <1>6, CustodyOpened DEF CustodyInv, NoneYet, AcksTrue
  <1> QED  BY <1>1, <1>5, <1>6, <1>7, <1>8, <1>9, MigrationMoves

LEMMA EnvelopeKeeps ==
    ASSUME CustodyAssumption, CustodyInv, MakeEnvelope
    PROVE  CustodyInv'
  <1>1. /\ UNCHANGED <<sealed, label, owner, vault, primary>>
        /\ upgrade.status \in {"pending_rewrap", "completed"}
        /\ place' = [place EXCEPT ![Envelope] = "in"]
        /\ upgrade' = [upgrade EXCEPT !.envelope = TRUE]
        /\ upgrade \in UpgradeRows
    BY AtWork DEF MakeEnvelope, CustodyInv, CustodyShapes
  <1>2. upgrade' \in UpgradeRows
    BY <1>1 DEF UpgradeRows
  <1>3. /\ upgrade'.status = upgrade.status /\ upgrade'.frozen = upgrade.frozen
        /\ upgrade'.envelope /\ upgrade'.mapped = upgrade.mapped
        /\ upgrade'.version = upgrade.version /\ upgrade'.acked = upgrade.acked
        /\ upgrade'.opened = upgrade.opened
    BY <1>1 DEF UpgradeRows
  <1>4. /\ place' \in [Items -> {"none", "in", "out", "purged"}]
        /\ \A s \in Sources : place'[s] = place[s] /\ place'[Copy(s)] = place[Copy(s)]
    BY <1>1, ItemsApart DEF CustodyInv, CustodyShapes
  <1>5. OutputsKnown'
    BY <1>3, <1>4, CustodyOpened DEF CustodyInv, OutputsKnown
  <1>6. NoneYet' /\ AcksTrue'
    BY <1>1, <1>3, CustodyOpened DEF CustodyInv, NoneYet, AcksTrue
  <1> QED  BY <1>1, <1>2, <1>3, <1>4, <1>5, <1>6, MigrationMoves

LEMMA AckKeeps ==
    ASSUME CustodyAssumption, CustodyInv, NEW r \in Sources, NEW bound \in BOOLEAN,
           AckCopy(r, bound) \/ AckRecovery(r)
    PROVE  CustodyInv'
  <1>1. /\ UNCHANGED <<place, sealed, label, owner, vault, primary>>
        /\ upgrade.status \in {"pending_rewrap", "completed"} /\ r \in upgrade.frozen
        /\ upgrade \in UpgradeRows /\ upgrade.version \in 0..MaxVersion
        /\ place \in [Items -> {"none", "in", "out", "purged"}]
    BY AtWork, CustodyOpened DEF AckCopy, AckRecovery, CustodyInv, CustodyShapes
  <1>2. CASE AckCopy(r, bound)
    <2> DEFINE version == IF bound THEN upgrade.version ELSE 0
               acks == [upgrade.acked EXCEPT ![r] = version]
    <2>1. /\ upgrade' = [upgrade EXCEPT !.acked = acks]
          /\ upgrade.mapped[r] = "self" => sealed[r] = "new"
      BY <1>2 DEF AckCopy
    <2>2. version \in 0..MaxVersion /\ version <= upgrade.version
      BY <1>1, ItemsApart
    <2>3. acks \in [Sources -> {-1} \cup 0..MaxVersion]
      BY <2>2, CustodyOpened
    <2>4. \A s \in Sources : acks[s] = IF s = r THEN version ELSE upgrade.acked[s]
      BY CustodyOpened
    <2> HIDE DEF version, acks
    <2>5. upgrade' \in UpgradeRows
      BY <1>1, <2>1, <2>3 DEF UpgradeRows
    <2>6. /\ upgrade'.status = upgrade.status /\ upgrade'.frozen = upgrade.frozen
          /\ upgrade'.envelope = upgrade.envelope /\ upgrade'.mapped = upgrade.mapped
          /\ upgrade'.version = upgrade.version /\ upgrade'.acked = acks
          /\ upgrade'.opened = upgrade.opened
      BY <1>1, <2>1 DEF UpgradeRows
    <2>7. OutputsKnown' /\ NoneYet'
      BY <1>1, <2>6 DEF CustodyInv, OutputsKnown, NoneYet
    <2>8. AcksTrue'
      BY <1>1, <2>1, <2>2, <2>4, <2>6, CustodyOpened DEF CustodyInv, AcksTrue
    <2> QED  BY <1>1, <2>5, <2>6, <2>7, <2>8, MigrationMoves
  <1>3. CASE AckRecovery(r)
    <2> DEFINE acks == [upgrade.opened EXCEPT ![r] = upgrade.version]
    <2>1. upgrade' = [upgrade EXCEPT !.opened = acks] /\ sealed[r] = "old"
      BY <1>3 DEF AckRecovery
    <2>2. acks \in [Sources -> {-1} \cup 0..MaxVersion]
      BY <1>1, CustodyOpened
    <2>3. \A s \in Sources : acks[s] = IF s = r THEN upgrade.version ELSE upgrade.opened[s]
      BY CustodyOpened
    <2> HIDE DEF acks
    <2>4. upgrade' \in UpgradeRows
      BY <1>1, <2>1, <2>2 DEF UpgradeRows
    <2>5. /\ upgrade'.status = upgrade.status /\ upgrade'.frozen = upgrade.frozen
          /\ upgrade'.envelope = upgrade.envelope /\ upgrade'.mapped = upgrade.mapped
          /\ upgrade'.version = upgrade.version /\ upgrade'.acked = upgrade.acked
          /\ upgrade'.opened = acks
      BY <1>1, <2>1 DEF UpgradeRows
    <2>6. OutputsKnown' /\ NoneYet'
      BY <1>1, <2>5 DEF CustodyInv, OutputsKnown, NoneYet
    <2>7. AcksTrue'
      BY <1>1, <2>1, <2>3, <2>5, CustodyOpened DEF CustodyInv, AcksTrue
    <2> QED  BY <1>1, <2>4, <2>5, <2>6, <2>7, MigrationMoves
  <1> QED  BY <1>2, <1>3

LEMMA CustodyStep ==
    ASSUME CustodyAssumption, CustodyInv, [NextCustody]_custody_vars
    PROVE  CustodyInv'
  <1>1. CASE UNCHANGED custody_vars
    BY <1>1 DEF custody_vars, CustodyInv, CustodyShapes, OutputsKnown, NoneYet, AcksTrue,
                VaultHonest, OneIdentity, TargetHeld, Retained
  <1>2. CASE NextCustody
    BY <1>2, PutKeeps, MoveKeeps, CredentialKeeps, ChallengeKeeps, FinishKeeps, FinalizeKeeps,
       RefreshKeeps, RewrapKeeps, EnvelopeKeeps, AckKeeps DEF NextCustody
  <1> QED  BY <1>1, <1>2

(* Upgrades that start, fail, lapse and finish, and what is moved, rewrapped   *)
(* or purged meanwhile, keep the inventory, the acknowledgements and the       *)
(* vault's keys consistent (plugins/identity.py, custodial_lifecycle.py).    *)
THEOREM CustodyInvariance == ASSUME CustodyAssumption PROVE CustodySpec => []CustodyInv
  <1>1. InitCustody => CustodyInv
    BY CustodyInit
  <1>2. CustodyInv /\ [NextCustody]_custody_vars => CustodyInv'
    BY CustodyStep
  <1> QED  BY <1>1, <1>2, PTL DEF CustodySpec

(* The two steps in which the vault's last key goes.                           *)
LEMMA NamedAsLost ==
    ASSUME CustodyAssumption, CustodyInv, [NextCustody]_custody_vars
    PROVE  NothingLostUnnamed
  <1> SUFFICES ASSUME vault.decrypting, ~vault'.decrypting, NEW r \in Sources, place[r] = "in"
               PROVE  Openable(r)' \/ r \in upgrade'.lost
    BY DEF NothingLostUnnamed
  <1>1. ASSUME NEW more \in BOOLEAN, FinishUpgrade(more) PROVE FALSE
    <2>1. Inventory = {}
      BY <1>1 DEF FinishUpgrade
    <2> QED  BY <2>1, ItemsApart DEF Inventory
  <1>2. ASSUME NEW resolution \in {"verified", "accept_loss", "retain_decrypt"}, Finalize(resolution)
        PROVE  Openable(r)' \/ r \in upgrade'.lost
    <2>1. /\ upgrade.status \in {"pending_rewrap", "completed"} /\ Added = {}
          /\ upgrade' = [upgrade EXCEPT !.status = "completed", !.lost = Unresolved]
          /\ UNCHANGED <<place, sealed>>
      BY <1>2, AtWork DEF Finalize, SwitchIdentity
    <2>2. upgrade'.lost = Unresolved
      BY <2>1 DEF CustodyInv, CustodyShapes, UpgradeRows
    <2>3. r \in Inventory /\ r \in Items
      BY ItemsApart DEF Inventory
    <2>4. r \notin Outputs
      BY ItemsApart DEF Outputs
    <2>5. r \in upgrade.frozen
      BY <2>1, <2>3, <2>4 DEF Added
    <2>6. CASE r \in Verified
      <3>1. upgrade.version >= 1
        BY <2>1 DEF CustodyInv, AcksTrue
      <3>2. CASE /\ upgrade.mapped[r] # "no" /\ Target(r) \in Inventory
                 /\ upgrade.acked[r] = upgrade.version
        <4>1. CASE upgrade.mapped[r] = "self"
          BY <2>1, <3>1, <3>2, <4>1 DEF CustodyInv, AcksTrue, Openable
        <4>2. CASE upgrade.mapped[r] # "self"
          BY <2>1, <3>2, <4>2 DEF Target, Inventory, Openable
        <4> QED  BY <4>1, <4>2
      <3>3. CASE Envelope \in Inventory /\ upgrade.opened[r] = upgrade.version
        BY <2>1, <3>1, <3>3 DEF CustodyInv, AcksTrue, Openable, Inventory
      <3> QED  BY <2>6, <3>2, <3>3 DEF Verified
    <2>7. CASE r \notin Verified
      BY <2>2, <2>5, <2>7 DEF Unresolved
    <2> QED  BY <2>6, <2>7
  <1>3. CASE UNCHANGED vault
    BY <1>3
  <1>4. UNCHANGED custody_vars => UNCHANGED vault
    BY DEF custody_vars
  <1>5. \/ UNCHANGED vault
        \/ \E more \in BOOLEAN : FinishUpgrade(more)
        \/ \E resolution \in {"verified", "accept_loss", "retain_decrypt"} : Finalize(resolution)
    BY <1>4 DEF NextCustody, Put, Rewrap, AckRecovery, AckCopy, Move, RenewToken, RotateKey,
                StartUpgrade, Lapse, FinishWrong, Refresh, MakeEnvelope
  <1> QED  BY <1>1, <1>2, <1>3, <1>5

(* The custodial key is given up only for what was acknowledged as readable    *)
(* with the owner's own key, or is named as lost; and the two identities are   *)
(* never mixed, however the upgrade, its token and the keystore interleave.    *)
THEOREM CustodyAlwaysSound == ASSUME CustodyAssumption PROVE CustodySpec => CustodySound
  <1>1. CustodyInv => CustodyTyped /\ OneIdentity /\ TargetHeld
    BY CustodyOpened DEF CustodyInv, CustodyShapes, CustodyTyped, Begun
  <1>2. CustodyInv /\ CustodyInv' /\ [NextCustody]_custody_vars =>
            [CustodyTyped' /\ OneIdentity' /\ TargetHeld' /\ NothingLostUnnamed]_custody_vars
    <2> SUFFICES ASSUME CustodyInv, CustodyInv', [NextCustody]_custody_vars
                 PROVE  CustodyTyped' /\ OneIdentity' /\ TargetHeld' /\ NothingLostUnnamed
      OBVIOUS
    <2>1. CustodyTyped' /\ OneIdentity' /\ TargetHeld'
      BY <1>1, PTL
    <2> QED  BY <2>1, NamedAsLost
  <1> QED  BY <1>2, CustodyInvariance, PTL DEF CustodySpec, CustodySound
-----------------------------------------------------------------------------
(* Hosting.                                                                    *)
(* Websites and the capacity they share.                                       *)
WebsiteRows == [owner : Owners, live : BOOLEAN, size : Nat, past : SUBSET Nat]

PurchaseRows ==
    [state : {"none", "pending", "settled", "refunded"}, who : Owners, quantity : Nat,
     total : Nat, lasts : Nat, until : Nat, granted : BOOLEAN, ends : Nat]

HostingShapes ==
    /\ date \in 0..LastDate
    /\ website \in [Sites -> WebsiteRows] /\ \A w \in Sites : website[w].size \in website[w].past
    /\ quote \in [terms : Quotes, enabled : BOOLEAN]
    /\ purchase \in [Purchases -> PurchaseRows]
    /\ till \in Nat /\ wallet \in [Owners -> Nat] /\ held \in [Purchases -> Nat]

HostingInv == HostingShapes /\ CapacityBounded /\ PurchasesBacked

(* A purchase that took no money before, or one that is decided.               *)
LEMMA RowPut ==
    ASSUME HostingAssumption, HostingShapes, NEW p \in Purchases, NEW row \in PurchaseRows,
           purchase' = [purchase EXCEPT ![p] = row], UNCHANGED date
    PROVE  /\ purchase' \in [Purchases -> PurchaseRows] /\ purchase'[p] = row
           /\ \A x \in Purchases \ {p} : purchase'[x] = purchase[x]
           /\ \A o \in Owners :
                 Extra(o)' = Extra(o) + Entitled(row, o) - Entitled(purchase[p], o)
           /\ SumFunction([x \in Purchases |-> Taken(purchase'[x])])
                 = SumFunction([x \in Purchases |-> Taken(purchase[x])]) + Taken(row) - Taken(purchase[p])
  <1> DEFINE taken == [x \in Purchases |-> Taken(purchase[x])]
             takes == [x \in Purchases |-> Taken(purchase'[x])]
  <1>1. /\ purchase' \in [Purchases -> PurchaseRows] /\ purchase'[p] = row
        /\ \A x \in Purchases \ {p} : purchase'[x] = purchase[x]
        /\ IsFiniteSet(Purchases) /\ purchase \in [Purchases -> PurchaseRows]
        /\ date \in Nat /\ date' = date
    BY DEF HostingShapes, HostingAssumption
  <1>2. ASSUME NEW r \in PurchaseRows PROVE Taken(r) \in Nat /\ \A o \in Owners : Entitled(r, o) \in Nat
    BY DEF PurchaseRows, Taken, Entitled
  <1>3. SumFunction(takes) = SumFunction(taken) + Taken(row) - Taken(purchase[p])
    <2>1. taken \in [Purchases -> Nat] /\ taken[p] = Taken(purchase[p])
      BY <1>1, <1>2
    <2>2. /\ takes \in [Purchases -> Nat] /\ takes[p] = Taken(row)
          /\ \A x \in Purchases \ {p} : takes[x] = taken[x]
      BY <1>1, <1>2
    <2> HIDE DEF taken, takes
    <2> QED  BY <1>1, <2>1, <2>2, SumPut
  <1>4. ASSUME NEW o \in Owners
        PROVE  Extra(o)' = Extra(o) + Entitled(row, o) - Entitled(purchase[p], o)
    <2> DEFINE has == [x \in Purchases |-> Entitled(purchase[x], o)]
               gets == [x \in Purchases |-> IF purchase'[x].granted /\ purchase'[x].who = o
                                               /\ purchase'[x].ends > date'
                                            THEN purchase'[x].quantity ELSE 0]
    <2>1. has \in [Purchases -> Nat] /\ has[p] = Entitled(purchase[p], o)
      BY <1>1, <1>2
    <2>2. /\ gets \in [Purchases -> Nat] /\ gets[p] = Entitled(row, o)
          /\ \A x \in Purchases \ {p} : gets[x] = has[x]
      BY <1>1 DEF Entitled, PurchaseRows
    <2>4. Extra(o)' = SumFunction(gets) /\ Extra(o) = SumFunction(has)
      BY DEF Extra, Entitled
    <2> HIDE DEF has, gets
    <2> QED  BY <1>1, <2>1, <2>2, <2>4, SumPut
  <1> QED  BY <1>1, <1>3, <1>4

LEMMA ExtraCounts == ASSUME HostingAssumption, HostingShapes, NEW o \in Owners PROVE Extra(o) \in Nat
  <1> DEFINE has == [x \in Purchases |-> Entitled(purchase[x], o)]
  <1>1. has \in [Purchases -> Nat] /\ IsFiniteSet(Purchases)
    BY DEF HostingShapes, PurchaseRows, Entitled, HostingAssumption
  <1>2. Extra(o) = SumFunctionOnSet(has, Purchases)
    BY <1>1 DEF Extra, SumFunction
  <1> HIDE DEF has
  <1> QED  BY <1>1, <1>2, SumNat

(* The books before and after money moves.                                     *)
LEMMA Books ==
    ASSUME HostingAssumption, HostingShapes
    PROVE  SumFunction(wallet) \in Nat /\ SumFunction(held) \in Nat
  <1>1. /\ wallet \in [Owners -> Nat] /\ held \in [Purchases -> Nat] /\ till \in Nat
        /\ IsFiniteSet(Owners) /\ IsFiniteSet(Purchases)
    BY DEF HostingShapes, HostingAssumption
  <1>2. /\ SumFunction(wallet) = SumFunctionOnSet(wallet, Owners) /\ \A x \in Owners : wallet[x] \in Nat
        /\ SumFunction(held) = SumFunctionOnSet(held, Purchases) /\ \A x \in Purchases : held[x] \in Nat
    BY <1>1 DEF SumFunction
  <1> QED  BY <1>1, <1>2, SumNat

LEMMA WalletPut ==
    ASSUME HostingAssumption, HostingShapes, NEW o \in Owners, NEW n \in Nat,
           wallet' = [wallet EXCEPT ![o] = n]
    PROVE  /\ wallet' \in [Owners -> Nat] /\ SumFunction(wallet) \in Nat
           /\ SumFunction(wallet') = SumFunction(wallet) + n - wallet[o]
  <1>1. wallet \in [Owners -> Nat] /\ IsFiniteSet(Owners)
    BY DEF HostingShapes, HostingAssumption
  <1>2. /\ wallet' \in [Owners -> Nat] /\ wallet'[o] = n
        /\ \A y \in Owners \ {o} : wallet'[y] = wallet[y]
    BY <1>1
  <1>3. ASSUME NEW g, g \in [Owners -> Nat], g[o] = n, \A y \in Owners \ {o} : g[y] = wallet[y]
        PROVE  SumFunction(wallet) \in Nat /\ SumFunction(g) = SumFunction(wallet) + n - wallet[o]
    BY <1>1, <1>3, SumPut
  <1> QED  BY <1>2, <1>3

LEMMA HeldPut ==
    ASSUME HostingAssumption, HostingShapes, NEW p \in Purchases, NEW n \in Nat,
           held' = [held EXCEPT ![p] = n]
    PROVE  /\ held' \in [Purchases -> Nat] /\ SumFunction(held) \in Nat
           /\ SumFunction(held') = SumFunction(held) + n - held[p]
  <1>1. held \in [Purchases -> Nat] /\ IsFiniteSet(Purchases)
    BY DEF HostingShapes, HostingAssumption
  <1>2. /\ held' \in [Purchases -> Nat] /\ held'[p] = n
        /\ \A y \in Purchases \ {p} : held'[y] = held[y]
    BY <1>1
  <1>3. ASSUME NEW g, g \in [Purchases -> Nat], g[p] = n, \A y \in Purchases \ {p} : g[y] = held[y]
        PROVE  SumFunction(held) \in Nat /\ SumFunction(g) = SumFunction(held) + n - held[p]
    BY <1>1, <1>3, SumPut
  <1> QED  BY <1>2, <1>3
-----------------------------------------------------------------------------
(* One purchase: what every step about it has in common.                       *)
PurchaseStep(p, row) ==
    /\ row \in PurchaseRows /\ purchase' = [purchase EXCEPT ![p] = row]
    /\ UNCHANGED <<date, website, quote>>

LEMMA PurchaseKeeps ==
    ASSUME HostingAssumption, HostingInv, NEW p \in Purchases, NEW row, PurchaseStep(p, row),
           wallet' \in [Owners -> Nat], till' \in Nat,
           NEW n \in Nat, held' = [held EXCEPT ![p] = n],
           n = (IF row.state = "pending" THEN row.total ELSE 0),
           row.granted <=> row.state = "settled",
           till' = till + Taken(row) - Taken(purchase[p]),
           SumFunction(wallet') + n + till' = SumFunction(wallet) + held[p] + till,
           \A o \in Owners : Base + Extra(o) + Entitled(row, o) - Entitled(purchase[p], o) <= MaxCapacity
    PROVE  HostingInv'
  <1>1. /\ HostingShapes /\ row \in PurchaseRows /\ purchase' = [purchase EXCEPT ![p] = row]
        /\ UNCHANGED <<date, website, quote>> /\ CapacityBounded /\ PurchasesBacked
    BY DEF PurchaseStep, HostingInv
  <1>2. /\ purchase' \in [Purchases -> PurchaseRows] /\ purchase'[p] = row
        /\ \A x \in Purchases \ {p} : purchase'[x] = purchase[x]
        /\ \A o \in Owners : Extra(o)' = Extra(o) + Entitled(row, o) - Entitled(purchase[p], o)
        /\ SumFunction([x \in Purchases |-> Taken(purchase'[x])])
              = SumFunction([x \in Purchases |-> Taken(purchase[x])]) + Taken(row) - Taken(purchase[p])
    BY <1>1, RowPut
  <1>3. /\ held' \in [Purchases -> Nat] /\ held'[p] = n
        /\ \A x \in Purchases \ {p} : held'[x] = held[x]
        /\ SumFunction(held') = SumFunction(held) + n - held[p]
        /\ SumFunction(held) \in Nat /\ SumFunction(wallet) \in Nat /\ held[p] \in Nat
    <2>1. n \in Nat /\ held \in [Purchases -> Nat]
      BY <1>1 DEF PurchaseRows, HostingShapes
    <2> QED  BY <1>1, <2>1, Books, HeldPut
  <1>4. HostingShapes'
    BY <1>1, <1>2, <1>3 DEF HostingShapes
  <1>5. CapacityBounded'
    <2>1. ASSUME NEW o \in Owners PROVE Base + Extra(o)' <= MaxCapacity
      <3>1. Extra(o) \in Nat /\ Entitled(row, o) \in Nat /\ Entitled(purchase[p], o) \in Nat
            /\ Base \in Nat
        BY <1>1, ExtraCounts DEF Entitled, PurchaseRows, HostingShapes, HostingAssumption
      <3> QED  BY <1>2, <3>1
    <2> QED  BY <2>1 DEF CapacityBounded
  <1>6. \A x \in Purchases :
           /\ held'[x] = (IF purchase'[x].state = "pending" THEN purchase'[x].total ELSE 0)
           /\ purchase'[x].granted <=> purchase'[x].state = "settled"
    BY <1>1, <1>2, <1>3 DEF PurchasesBacked
  <1>7. till' = SumFunction([x \in Purchases |-> Taken(purchase'[x])])
    BY <1>1, <1>2 DEF PurchasesBacked
  <1>8. SumFunction(wallet') + SumFunction(held') + till' = Budget * Cardinality(Owners)
    <2>1. SumFunction(wallet) + SumFunction(held) + till = Budget * Cardinality(Owners)
      BY <1>1 DEF PurchasesBacked
    <2>2. SumFunction(wallet') \in Nat
      <3>1. SumFunction(wallet') = SumFunctionOnSet(wallet', Owners) /\ \A x \in Owners : wallet'[x] \in Nat
        BY DEF SumFunction
      <3>2. IsFiniteSet(Owners)
        BY DEF HostingAssumption
      <3> QED  BY <3>1, <3>2, SumNat
    <2>3. till \in Nat /\ till' \in Nat
      BY <1>1 DEF HostingShapes
    <2> DEFINE a == SumFunction(wallet)
               b == SumFunction(held)
               c == SumFunction(wallet')
               d == SumFunction(held')
    <2>4. a + b + till = Budget * Cardinality(Owners) /\ c + n + till' = a + held[p] + till
          /\ d = b + n - held[p] /\ a \in Nat /\ b \in Nat /\ c \in Nat
      BY <1>3, <2>1, <2>2
    <2>5. c + d + till' = a + b + till
      <3> HIDE DEF a, b, c, d
      <3> QED  BY <1>3, <2>3, <2>4
    <2> QED  BY <2>1, <2>5
  <1>9. PurchasesBacked'
    BY <1>6, <1>7, <1>8 DEF PurchasesBacked, Taken
  <1> QED  BY <1>4, <1>5, <1>9 DEF HostingInv

(* What the terms of the offer come to.                                        *)
LEMMA TotalCounts ==
    ASSUME HostingAssumption, HostingShapes, NEW quantity \in Quantities
    PROVE  /\ quote.terms.price * quantity \in Nat /\ quantity \in Nat /\ quote.terms.lasts \in Nat
           /\ Ends(quote.terms.lasts) \in Nat /\ date + PurchaseTTL \in Nat
  <1>1. quote.terms \in [price : Nat, lasts : Nat] /\ quantity \in Nat /\ date \in Nat /\ LastDate \in Nat
        /\ PurchaseTTL \in Nat
    BY DEF HostingAssumption, HostingShapes
  <1>2. \A m, n \in Nat : m * n \in Nat
    OBVIOUS
  <1>3. quote.terms.price \in Nat /\ quote.terms.lasts \in Nat
    BY <1>1
  <1> QED  BY <1>1, <1>2, <1>3 DEF Ends, Endless

(* A purchase that was never made holds nothing and gives nothing.             *)
LEMMA FreshPurchase ==
    ASSUME HostingAssumption, HostingInv, NEW p \in Purchases, purchase[p].state = "none"
    PROVE  /\ held[p] = 0 /\ Taken(purchase[p]) = 0
           /\ \A o \in Owners : Entitled(purchase[p], o) = 0
  BY DEF HostingInv, PurchasesBacked, Taken, Entitled

LEMMA PendingPurchase ==
    ASSUME HostingAssumption, HostingInv, NEW p \in Purchases, purchase[p].state = "pending"
    PROVE  /\ held[p] = purchase[p].total /\ Taken(purchase[p]) = 0 /\ ~purchase[p].granted
           /\ purchase[p] \in PurchaseRows
           /\ \A o \in Owners : Entitled(purchase[p], o) = 0
  BY DEF HostingInv, HostingShapes, PurchasesBacked, Taken, Entitled

(* Extra capacity that fits keeps everybody within theirs.                     *)
LEMMA GrantFits ==
    ASSUME HostingAssumption, HostingInv, NEW who \in Owners, NEW row \in PurchaseRows,
           row.who = who, Grantable(who, row.quantity), NEW o \in Owners
    PROVE  Base + Extra(o) + Entitled(row, o) - 0 <= MaxCapacity
  <1>1. /\ Extra(o) \in Nat /\ Base \in Nat /\ MaxCapacity \in Nat /\ row.quantity \in Nat
        /\ Base + Extra(o) <= MaxCapacity
    BY ExtraCounts DEF HostingInv, HostingAssumption, PurchaseRows, CapacityBounded
  <1> QED  BY <1>1 DEF Grantable, Entitled

LEMMA RedeemKeeps ==
    ASSUME HostingAssumption, HostingInv, NEW o \in Owners, NEW p \in Purchases,
           NEW quantity \in Quantities, Redeem(o, p, quantity)
    PROVE  HostingInv'
  <1> DEFINE total == quote.terms.price * quantity
             row == [state |-> "settled", who |-> o, quantity |-> quantity, total |-> total,
                     lasts |-> quote.terms.lasts, until |-> date + PurchaseTTL,
                     granted |-> TRUE, ends |-> Ends(quote.terms.lasts)]
  <1>1. /\ HostingShapes /\ purchase[p].state = "none" /\ Grantable(o, quantity) /\ wallet[o] >= total
        /\ wallet' = [wallet EXCEPT ![o] = wallet[o] - total] /\ till' = till + total
        /\ purchase' = [purchase EXCEPT ![p] = row] /\ UNCHANGED <<date, website, quote, held>>
        /\ wallet \in [Owners -> Nat] /\ held \in [Purchases -> Nat] /\ till \in Nat
    BY DEF Redeem, HostingInv, HostingShapes
  <1>2. total \in Nat /\ row \in PurchaseRows
    BY <1>1, TotalCounts DEF PurchaseRows
  <1>3. Taken(row) = total /\ row.who = o /\ row.quantity = quantity /\ row.state = "settled" /\ row.granted
    BY DEF Taken
  <1> HIDE DEF total, row
  <1>4. /\ held[p] = 0 /\ Taken(purchase[p]) = 0 /\ \A x \in Owners : Entitled(purchase[p], x) = 0
    BY <1>1, FreshPurchase
  <1>5. /\ wallet' \in [Owners -> Nat] /\ wallet[o] \in Nat /\ wallet[o] - total \in Nat
        /\ SumFunction(wallet') = SumFunction(wallet) + (wallet[o] - total) - wallet[o]
        /\ SumFunction(wallet) \in Nat
    <2>1. wallet[o] - total \in Nat /\ wallet[o] \in Nat
      BY <1>1, <1>2
    <2> QED  BY <1>1, <2>1, WalletPut
  <1>6. held' = [held EXCEPT ![p] = 0]
    BY <1>1, <1>4
  <1>7. /\ till' \in Nat /\ till' = till + Taken(row) - Taken(purchase[p])
        /\ SumFunction(wallet') + 0 + till' = SumFunction(wallet) + held[p] + till
    BY <1>1, <1>2, <1>3, <1>4, <1>5
  <1>8. ASSUME NEW x \in Owners
        PROVE  Base + Extra(x) + Entitled(row, x) - Entitled(purchase[p], x) <= MaxCapacity
    <2>1. Base + Extra(x) + Entitled(row, x) - 0 <= MaxCapacity
      BY <1>1, <1>2, <1>3, GrantFits
    <2> QED  BY <1>4, <2>1
  <1>9. PurchaseStep(p, row)
    BY <1>1, <1>2 DEF PurchaseStep
  <1> QED  BY <1>3, <1>5, <1>6, <1>7, <1>8, <1>9, PurchaseKeeps

LEMMA ReserveKeeps ==
    ASSUME HostingAssumption, HostingInv, NEW o \in Owners, NEW p \in Purchases,
           NEW quantity \in Quantities, ReservePurchase(o, p, quantity)
    PROVE  HostingInv'
  <1> DEFINE total == quote.terms.price * quantity
             row == [state |-> "pending", who |-> o, quantity |-> quantity, total |-> total,
                     lasts |-> quote.terms.lasts, until |-> date + PurchaseTTL,
                     granted |-> FALSE, ends |-> 0]
  <1>1. /\ HostingShapes /\ purchase[p].state = "none" /\ wallet[o] >= total
        /\ wallet' = [wallet EXCEPT ![o] = wallet[o] - total] /\ held' = [held EXCEPT ![p] = total]
        /\ purchase' = [purchase EXCEPT ![p] = row] /\ UNCHANGED <<date, website, quote, till>>
        /\ wallet \in [Owners -> Nat] /\ held \in [Purchases -> Nat] /\ till \in Nat
    BY DEF ReservePurchase, HostingInv, HostingShapes
  <1>2. total \in Nat /\ row \in PurchaseRows
    BY <1>1, TotalCounts DEF PurchaseRows
  <1>3. /\ Taken(row) = 0 /\ row.state = "pending" /\ ~row.granted /\ row.total = total
        /\ \A x \in Owners : Entitled(row, x) = 0
    BY DEF Taken, Entitled
  <1> HIDE DEF total, row
  <1>4. /\ held[p] = 0 /\ Taken(purchase[p]) = 0 /\ \A x \in Owners : Entitled(purchase[p], x) = 0
    BY <1>1, FreshPurchase
  <1>5. /\ wallet' \in [Owners -> Nat] /\ wallet[o] \in Nat /\ wallet[o] - total \in Nat
        /\ SumFunction(wallet') = SumFunction(wallet) + (wallet[o] - total) - wallet[o]
        /\ SumFunction(wallet) \in Nat
    <2>1. wallet[o] - total \in Nat /\ wallet[o] \in Nat
      BY <1>1, <1>2
    <2> QED  BY <1>1, <2>1, WalletPut
  <1>7. /\ till' \in Nat /\ till' = till + Taken(row) - Taken(purchase[p])
        /\ SumFunction(wallet') + total + till' = SumFunction(wallet) + held[p] + till
    BY <1>1, <1>2, <1>3, <1>4, <1>5
  <1>8. ASSUME NEW x \in Owners
        PROVE  Base + Extra(x) + Entitled(row, x) - Entitled(purchase[p], x) <= MaxCapacity
    <2>1. Base + Extra(x) <= MaxCapacity /\ Extra(x) \in Nat /\ Base \in Nat
      BY <1>1, ExtraCounts DEF HostingInv, CapacityBounded, HostingAssumption
    <2> QED  BY <1>3, <1>4, <2>1
  <1>9. PurchaseStep(p, row)
    BY <1>1, <1>2 DEF PurchaseStep
  <1>10. total = (IF row.state = "pending" THEN row.total ELSE 0)
    BY <1>3
  <1>11. row.granted <=> row.state = "settled"
    BY <1>3
  <1> QED  BY <1>1, <1>2, <1>5, <1>7, <1>8, <1>9, <1>10, <1>11, PurchaseKeeps

LEMMA RefundKeeps ==
    ASSUME HostingAssumption, HostingInv, NEW p \in Purchases, Refund(p)
    PROVE  HostingInv'
  <1> DEFINE row == [purchase[p] EXCEPT !.state = "refunded"]
             who == purchase[p].who
  <1>1. /\ HostingShapes /\ purchase[p].state = "pending" /\ purchase[p] \in PurchaseRows
        /\ wallet' = [wallet EXCEPT ![who] = wallet[who] + purchase[p].total]
        /\ held' = [held EXCEPT ![p] = held[p] - purchase[p].total]
        /\ purchase' = [purchase EXCEPT ![p] = row] /\ UNCHANGED <<date, website, quote, till>>
        /\ wallet \in [Owners -> Nat] /\ held \in [Purchases -> Nat] /\ till \in Nat
    BY DEF Refund, HostingInv, HostingShapes
  <1>2. /\ held[p] = purchase[p].total /\ Taken(purchase[p]) = 0 /\ ~purchase[p].granted
        /\ \A x \in Owners : Entitled(purchase[p], x) = 0
    BY <1>1, PendingPurchase
  <1>3. /\ row \in PurchaseRows /\ row.state = "refunded" /\ row.granted = purchase[p].granted
        /\ row.total = purchase[p].total /\ who \in Owners /\ purchase[p].total \in Nat
    BY <1>1 DEF PurchaseRows
  <1> HIDE DEF row, who
  <1>4. Taken(row) = 0 /\ \A x \in Owners : Entitled(row, x) = 0
    BY <1>2, <1>3 DEF Taken, Entitled
  <1>5. /\ wallet' \in [Owners -> Nat] /\ wallet[who] \in Nat
        /\ SumFunction(wallet') = SumFunction(wallet) + (wallet[who] + purchase[p].total) - wallet[who]
        /\ SumFunction(wallet) \in Nat
    <2>1. wallet[who] + purchase[p].total \in Nat /\ wallet[who] \in Nat
      BY <1>1, <1>3
    <2> QED  BY <1>1, <1>3, <2>1, WalletPut
  <1>6. held' = [held EXCEPT ![p] = 0]
    <2>1. held[p] - purchase[p].total = 0
      BY <1>2, <1>3
    <2> QED  BY <1>1, <2>1
  <1>7. /\ till' \in Nat /\ till' = till + Taken(row) - Taken(purchase[p])
        /\ SumFunction(wallet') + 0 + till' = SumFunction(wallet) + held[p] + till
    BY <1>1, <1>2, <1>3, <1>4, <1>5
  <1>8. ASSUME NEW x \in Owners
        PROVE  Base + Extra(x) + Entitled(row, x) - Entitled(purchase[p], x) <= MaxCapacity
    <2>1. Base + Extra(x) <= MaxCapacity /\ Extra(x) \in Nat /\ Base \in Nat
      BY <1>1, ExtraCounts DEF HostingInv, CapacityBounded, HostingAssumption
    <2> QED  BY <1>2, <1>4, <2>1
  <1>9. PurchaseStep(p, row)
    BY <1>1, <1>3 DEF PurchaseStep
  <1>10. till' \in Nat /\ 0 = (IF row.state = "pending" THEN row.total ELSE 0)
         /\ (row.granted <=> row.state = "settled")
    BY <1>2, <1>3, <1>7
  <1> QED  BY <1>5, <1>6, <1>7, <1>8, <1>9, <1>10, PurchaseKeeps

LEMMA SettleKeeps ==
    ASSUME HostingAssumption, HostingInv, NEW p \in Purchases, SettleReserved(p)
    PROVE  HostingInv'
  <1> DEFINE row == [purchase[p] EXCEPT !.state = "settled", !.granted = TRUE,
                                        !.ends = Ends(purchase[p].lasts)]
  <1>1. /\ HostingShapes /\ purchase[p].state = "pending" /\ purchase[p] \in PurchaseRows
        /\ Grantable(purchase[p].who, purchase[p].quantity)
        /\ till' = till + purchase[p].total
        /\ held' = [held EXCEPT ![p] = held[p] - purchase[p].total]
        /\ UNCHANGED <<date, website, quote, wallet>>
        /\ wallet \in [Owners -> Nat] /\ held \in [Purchases -> Nat] /\ till \in Nat
    BY DEF SettleReserved, HostingInv, HostingShapes
  <1>0. purchase' = [purchase EXCEPT ![p] = row]
    <2>1. /\ purchase' = [purchase EXCEPT ![p].state = "settled", ![p].granted = TRUE,
                                          ![p].ends = Ends(purchase[p].lasts)]
          /\ purchase \in [Purchases -> PurchaseRows]
      BY <1>1 DEF SettleReserved, HostingShapes
    <2> QED  BY <2>1
  <1>2. /\ held[p] = purchase[p].total /\ Taken(purchase[p]) = 0
        /\ \A x \in Owners : Entitled(purchase[p], x) = 0
    BY <1>1, PendingPurchase
  <1>3. /\ row \in PurchaseRows /\ row.state = "settled" /\ row.granted
        /\ row.total = purchase[p].total /\ row.who = purchase[p].who
        /\ row.quantity = purchase[p].quantity /\ purchase[p].who \in Owners
        /\ purchase[p].total \in Nat
    <2>1. purchase[p].lasts \in Nat /\ date \in Nat /\ LastDate \in Nat
      BY <1>1 DEF PurchaseRows, HostingShapes, HostingAssumption
    <2>2. Ends(purchase[p].lasts) \in Nat
      BY <2>1 DEF Ends, Endless
    <2> QED  BY <1>1, <2>2 DEF PurchaseRows
  <1> HIDE DEF row
  <1>4. Taken(row) = purchase[p].total
    BY <1>3 DEF Taken
  <1>6. held' = [held EXCEPT ![p] = 0]
    <2>1. held[p] - purchase[p].total = 0
      BY <1>2, <1>3
    <2> QED  BY <1>1, <2>1
  <1>7. /\ till' \in Nat /\ till' = till + Taken(row) - Taken(purchase[p])
        /\ SumFunction(wallet') + 0 + till' = SumFunction(wallet) + held[p] + till
    <2>1. SumFunction(wallet) \in Nat /\ wallet' = wallet
      BY <1>1, Books
    <2> QED  BY <1>1, <1>2, <1>3, <1>4, <2>1
  <1>8. ASSUME NEW x \in Owners
        PROVE  Base + Extra(x) + Entitled(row, x) - Entitled(purchase[p], x) <= MaxCapacity
    <2>1. Base + Extra(x) + Entitled(row, x) - 0 <= MaxCapacity
      BY <1>1, <1>3, GrantFits
    <2> QED  BY <1>2, <2>1
  <1>9. PurchaseStep(p, row)
    BY <1>0, <1>1, <1>3 DEF PurchaseStep
  <1>10. wallet' \in [Owners -> Nat]
    BY <1>1
  <1> QED  BY <1>3, <1>6, <1>7, <1>8, <1>9, <1>10, PurchaseKeeps
-----------------------------------------------------------------------------
(* One website.                                                                *)
LEMMA OccupiedPut ==
    ASSUME HostingAssumption, HostingShapes, NEW w \in Sites, NEW row \in WebsiteRows,
           website' = [website EXCEPT ![w] = row], NEW o \in Owners
    PROVE  /\ Occupied(o, {w}) \in Nat
           /\ Occupied(o, {}) = Occupied(o, {w}) + Published(website[w], o)
           /\ Occupied(o, {})' = Occupied(o, {w}) + Published(row, o)
  <1> DEFINE f == [x \in Sites |-> Published(website[x], o)]
             g == [x \in Sites |-> Published(website'[x], o)]
  <1>1. /\ website' \in [Sites -> WebsiteRows] /\ website'[w] = row
        /\ \A x \in Sites \ {w} : website'[x] = website[x]
        /\ website \in [Sites -> WebsiteRows] /\ IsFiniteSet(Sites)
    BY DEF HostingShapes, HostingAssumption
  <1>2. \A r \in WebsiteRows : Published(r, o) \in Nat
    BY DEF WebsiteRows, Published
  <1>3. /\ Occupied(o, {w}) = SumFunctionOnSet(f, Sites \ {w})
        /\ Occupied(o, {}) = SumFunctionOnSet(f, Sites \ {})
        /\ Occupied(o, {})' = SumFunctionOnSet(g, Sites \ {})
    BY DEF Occupied, Published
  <1>4. /\ \A x \in Sites : f[x] \in Nat /\ g[x] \in Nat
        /\ \A x \in Sites \ {w} : f[x] = g[x]
        /\ f[w] = Published(website[w], o) /\ g[w] = Published(row, o)
    BY <1>1, <1>2
  <1> HIDE DEF f, g
  <1>5. IsFiniteSet(Sites \ {w}) /\ Sites \ {} = Sites
    BY <1>1, FS_Subset
  <1>6. SumFunctionOnSet(f, Sites \ {w}) = SumFunctionOnSet(g, Sites \ {w})
    BY <1>4, <1>5, SumSame
  <1>7. /\ SumFunctionOnSet(f, Sites) = f[w] + SumFunctionOnSet(f, Sites \ {w})
        /\ SumFunctionOnSet(g, Sites) = g[w] + SumFunctionOnSet(g, Sites \ {w})
    BY <1>1, <1>4, SumWithout
  <1>8. SumFunctionOnSet(f, Sites \ {w}) \in Nat
    BY <1>4, <1>5, SumNat
  <1>9. f[w] \in Nat /\ g[w] \in Nat
    BY <1>4
  <1> QED  BY <1>3, <1>4, <1>5, <1>6, <1>7, <1>8, <1>9

(* A website that grows must fit; one that does not is free to change.         *)
LEMMA SiteKeeps ==
    ASSUME HostingAssumption, HostingInv, NEW w \in Sites, NEW row \in WebsiteRows,
           website' = [website EXCEPT ![w] = row], row.size \in row.past,
           UNCHANGED <<date, quote, purchase, wallet, till, held>>,
           \A o \in Owners : \/ Published(row, o) <= Published(website[w], o)
                            \/ Occupied(o, {w}) + Published(row, o) <= Capacity(o)
    PROVE  HostingInv' /\ GrowthWithinCapacity
  <1>1. HostingShapes /\ CapacityBounded /\ PurchasesBacked
    BY DEF HostingInv
  <1>2. HostingShapes'
    BY <1>1 DEF HostingShapes
  <1>3. CapacityBounded'
    BY <1>1 DEF CapacityBounded, Extra, Entitled
  <1>4. PurchasesBacked'
    BY <1>1 DEF PurchasesBacked, Taken
  <1>5. ASSUME NEW o \in Owners, Occupied(o, {})' > Occupied(o, {})
        PROVE  Occupied(o, {})' <= Capacity(o)
    <2>1. /\ Occupied(o, {w}) \in Nat
          /\ Occupied(o, {}) = Occupied(o, {w}) + Published(website[w], o)
          /\ Occupied(o, {})' = Occupied(o, {w}) + Published(row, o)
      BY <1>1, OccupiedPut
    <2>2. Published(row, o) \in Nat /\ Published(website[w], o) \in Nat
      BY <1>1 DEF Published, WebsiteRows, HostingShapes
    <2>3. ~(Published(row, o) <= Published(website[w], o))
      BY <1>5, <2>1, <2>2
    <2> QED  BY <2>1, <2>3
  <1>6. GrowthWithinCapacity
    BY <1>5 DEF GrowthWithinCapacity
  <1> QED  BY <1>2, <1>3, <1>4, <1>6 DEF HostingInv

LEMMA SitesKeep ==
    ASSUME HostingAssumption, HostingInv, NEW w \in Sites,
           \/ \E size \in Sizes : Deploy(w, size) \/ Activate(w, size)
           \/ ArchiveSite(w) \/ RestoreSite(w) \/ \E o \in Owners : ChownSite(w, o)
    PROVE  HostingInv' /\ GrowthWithinCapacity
  <1>1. /\ website \in [Sites -> WebsiteRows] /\ website[w] \in WebsiteRows
        /\ website[w].size \in website[w].past
        /\ website[w].size \in Nat /\ website[w].owner \in Owners /\ website[w].past \in SUBSET Nat
    BY DEF HostingInv, HostingShapes, WebsiteRows
  <1>2. ASSUME NEW size \in Sizes, Deploy(w, size)
        PROVE  HostingInv' /\ GrowthWithinCapacity
    <2> DEFINE row == [website[w] EXCEPT !.size = size, !.past = website[w].past \cup {size}]
    <2>1. size \in Nat
      BY DEF HostingAssumption
    <2>2. /\ row \in WebsiteRows /\ row.size = size /\ row.past = website[w].past \cup {size}
          /\ row.owner = website[w].owner
      BY <1>1, <2>1 DEF WebsiteRows
    <2>3. website' = [website EXCEPT ![w] = row]
      BY <1>1, <1>2 DEF Deploy
    <2>4. /\ HasRoom(website[w].owner, w, size) /\ UNCHANGED <<date, quote, purchase, wallet, till, held>>
      BY <1>2 DEF Deploy
    <2> HIDE DEF row
    <2>5. ASSUME NEW o \in Owners
          PROVE  \/ Published(row, o) <= Published(website[w], o)
                 \/ Occupied(o, {w}) + Published(row, o) <= Capacity(o)
      <3>1. CASE o = website[w].owner /\ row.live
        BY <2>2, <2>4, <3>1 DEF HasRoom, Published
      <3>2. CASE ~(o = website[w].owner /\ row.live)
        BY <1>1, <2>2, <3>2 DEF Published
      <3> QED  BY <3>1, <3>2
    <2> QED  BY <2>2, <2>3, <2>4, <2>5, SiteKeeps
  <1>3. ASSUME NEW size \in Sizes, Activate(w, size)
        PROVE  HostingInv' /\ GrowthWithinCapacity
    <2> DEFINE row == [website[w] EXCEPT !.size = size]
    <2>1. size \in Nat /\ size \in website[w].past
      BY <1>3 DEF HostingAssumption, Activate
    <2>2. /\ row \in WebsiteRows /\ row.size = size /\ row.past = website[w].past
          /\ row.owner = website[w].owner
      BY <1>1, <2>1 DEF WebsiteRows
    <2>3. website' = [website EXCEPT ![w] = row]
      BY <1>1, <1>3 DEF Activate
    <2>4. /\ HasRoom(website[w].owner, w, size) /\ UNCHANGED <<date, quote, purchase, wallet, till, held>>
      BY <1>3 DEF Activate
    <2> HIDE DEF row
    <2>5. ASSUME NEW o \in Owners
          PROVE  \/ Published(row, o) <= Published(website[w], o)
                 \/ Occupied(o, {w}) + Published(row, o) <= Capacity(o)
      <3>1. CASE o = website[w].owner /\ row.live
        BY <2>2, <2>4, <3>1 DEF HasRoom, Published
      <3>2. CASE ~(o = website[w].owner /\ row.live)
        BY <1>1, <2>2, <3>2 DEF Published
      <3> QED  BY <3>1, <3>2
    <2> QED  BY <2>1, <2>2, <2>3, <2>4, <2>5, SiteKeeps
  <1>4. ASSUME ArchiveSite(w)
        PROVE  HostingInv' /\ GrowthWithinCapacity
    <2> DEFINE row == [website[w] EXCEPT !.live = FALSE]
    <2>1. /\ row \in WebsiteRows /\ row.size = website[w].size /\ row.past = website[w].past
          /\ ~row.live
      BY <1>1 DEF WebsiteRows
    <2>2. website' = [website EXCEPT ![w] = row] /\ UNCHANGED <<date, quote, purchase, wallet, till, held>>
      BY <1>1, <1>4 DEF ArchiveSite
    <2> HIDE DEF row
    <2>3. \A o \in Owners : Published(row, o) <= Published(website[w], o)
      BY <1>1, <2>1 DEF Published
    <2> QED  BY <1>1, <2>1, <2>2, <2>3, SiteKeeps
  <1>5. ASSUME RestoreSite(w)
        PROVE  HostingInv' /\ GrowthWithinCapacity
    <2> DEFINE row == [website[w] EXCEPT !.live = TRUE]
    <2>1. /\ row \in WebsiteRows /\ row.size = website[w].size /\ row.past = website[w].past
          /\ row.owner = website[w].owner
      BY <1>1 DEF WebsiteRows
    <2>2. /\ website' = [website EXCEPT ![w] = row] /\ UNCHANGED <<date, quote, purchase, wallet, till, held>>
          /\ HasRoom(website[w].owner, w, website[w].size)
      BY <1>1, <1>5 DEF RestoreSite
    <2> HIDE DEF row
    <2>3. ASSUME NEW o \in Owners
          PROVE  \/ Published(row, o) <= Published(website[w], o)
                 \/ Occupied(o, {w}) + Published(row, o) <= Capacity(o)
      <3>1. CASE o = website[w].owner /\ row.live
        BY <2>1, <2>2, <3>1 DEF HasRoom, Published
      <3>2. CASE ~(o = website[w].owner /\ row.live)
        BY <1>1, <2>1, <3>2 DEF Published
      <3> QED  BY <3>1, <3>2
    <2> QED  BY <1>1, <2>1, <2>2, <2>3, SiteKeeps
  <1>6. ASSUME NEW c \in Owners, ChownSite(w, c)
        PROVE  HostingInv' /\ GrowthWithinCapacity
    <2> DEFINE row == [website[w] EXCEPT !.owner = c]
    <2>1. /\ row \in WebsiteRows /\ row.size = website[w].size /\ row.past = website[w].past
          /\ row.owner = c /\ row.live = website[w].live
      BY <1>1 DEF WebsiteRows
    <2>2. /\ website' = [website EXCEPT ![w] = row] /\ UNCHANGED <<date, quote, purchase, wallet, till, held>>
          /\ website[w].live => HasRoom(c, w, website[w].size)
      BY <1>1, <1>6 DEF ChownSite
    <2> HIDE DEF row
    <2>3. ASSUME NEW o \in Owners
          PROVE  \/ Published(row, o) <= Published(website[w], o)
                 \/ Occupied(o, {w}) + Published(row, o) <= Capacity(o)
      <3>1. CASE o = c /\ row.live
        BY <2>1, <2>2, <3>1 DEF HasRoom, Published
      <3>2. CASE ~(o = c /\ row.live)
        BY <1>1, <2>1, <3>2 DEF Published
      <3> QED  BY <3>1, <3>2
    <2> QED  BY <1>1, <2>1, <2>2, <2>3, SiteKeeps
  <1> QED  BY <1>2, <1>3, <1>4, <1>5, <1>6
-----------------------------------------------------------------------------
LEMMA InitHostingInv == ASSUME HostingAssumption, InitHosting PROVE HostingInv
  <1>1. HostingShapes
    <2>0. quote \in [terms : Quotes, enabled : BOOLEAN]
      <3>1. quote \in [terms : Quotes, enabled : {TRUE}]
        BY DEF InitHosting
      <3> QED  BY <3>1
    <2>1. /\ date \in 0..LastDate /\ till \in Nat /\ wallet \in [Owners -> Nat] /\ held \in [Purchases -> Nat]
      BY DEF InitHosting, HostingAssumption
    <2>2. website \in [Sites -> WebsiteRows] /\ \A w \in Sites : website[w].size \in website[w].past
      BY DEF InitHosting, HostingAssumption, WebsiteRows
    <2>3. purchase \in [Purchases -> PurchaseRows]
      BY DEF InitHosting, HostingAssumption, PurchaseRows
    <2> QED  BY <2>0, <2>1, <2>2, <2>3 DEF HostingShapes
  <1>2. IsFiniteSet(Purchases) /\ IsFiniteSet(Owners) /\ Budget \in Nat /\ Base \in Nat /\ Base <= MaxCapacity
        /\ MaxCapacity \in Nat
    BY DEF HostingAssumption
  <1>3. SumFunctionOnSet([p \in Purchases |-> 0], Purchases) = 0
    <2>1. Cardinality(Purchases) \in Nat
      BY <1>2, FS_CardinalityType
    <2>2. SumFunctionOnSet([p \in Purchases |-> 0], Purchases) = 0 * Cardinality(Purchases)
      BY <1>2, SumConstant
    <2> QED  BY <2>1, <2>2
  <1>4. ASSUME NEW o \in Owners PROVE Base + Extra(o) <= MaxCapacity
    <2>1. [p \in Purchases |-> Entitled(purchase[p], o)] = [p \in Purchases |-> 0]
      BY DEF InitHosting, Entitled
    <2>2. Extra(o) = 0
      BY <1>3, <2>1 DEF Extra, SumFunction
    <2> QED  BY <1>2, <2>2
  <1>5. till = SumFunction([p \in Purchases |-> Taken(purchase[p])])
    <2>1. [p \in Purchases |-> Taken(purchase[p])] = [p \in Purchases |-> 0]
      BY DEF InitHosting, Taken
    <2> QED  BY <1>3, <2>1 DEF SumFunction, InitHosting
  <1>6. SumFunction(wallet) + SumFunction(held) + till = Budget * Cardinality(Owners)
    <2>1. SumFunction(wallet) = Budget * Cardinality(Owners)
      BY <1>2, SumConstant DEF InitHosting, SumFunction
    <2>2. SumFunction(held) = 0
      BY <1>3 DEF InitHosting, SumFunction
    <2>3. SumFunction(wallet) \in Nat
      BY <1>1, Books
    <2> QED  BY <2>1, <2>2, <2>3 DEF InitHosting
  <1>7. PurchasesBacked
    BY <1>5, <1>6 DEF PurchasesBacked, InitHosting
  <1> QED  BY <1>1, <1>4, <1>7 DEF HostingInv, CapacityBounded

LEMMA OccupiedCounts ==
    ASSUME HostingAssumption, HostingInv, NEW o \in Owners
    PROVE  Occupied(o, {}) \in Int
  <1> DEFINE f == [w \in Sites |-> Published(website[w], o)]
  <1>1. Occupied(o, {}) = SumFunctionOnSet(f, Sites \ {})
    BY DEF Occupied
  <1>2. IsFiniteSet(Sites \ {}) /\ \A w \in Sites \ {} : f[w] \in Int
    BY FS_Subset DEF HostingAssumption, HostingInv, HostingShapes, WebsiteRows, Published
  <1> HIDE DEF f
  <1> QED  BY <1>1, <1>2, SumInt

(* As long as the websites stay, none of them grows.                           *)
LEMMA SitesStay ==
    ASSUME HostingAssumption, HostingInv, UNCHANGED website
    PROVE  GrowthWithinCapacity
  <1>1. ASSUME NEW o \in Owners, Occupied(o, {})' > Occupied(o, {})
        PROVE  Occupied(o, {})' <= Capacity(o)
    <2>1. Occupied(o, {})' = Occupied(o, {})
      BY DEF Occupied, Published
    <2>2. ~(Occupied(o, {}) > Occupied(o, {}))
      <3>1. Occupied(o, {}) \in Int
        BY OccupiedCounts
      <3> QED  BY <3>1
    <2> QED  BY <1>1, <2>1, <2>2
  <1> QED  BY <1>1 DEF GrowthWithinCapacity

(* Entitlements only run out as time passes.                                   *)
LEMMA DatePassesKeeps == ASSUME HostingAssumption, HostingInv, DatePasses PROVE HostingInv'
  <1>1. /\ HostingShapes /\ CapacityBounded /\ PurchasesBacked
        /\ UNCHANGED <<website, quote, purchase, wallet, till, held>>
        /\ date \in Nat /\ LastDate \in Nat /\ date' = date + 1 /\ date < LastDate
    BY DEF HostingInv, HostingShapes, DatePasses, HostingAssumption
  <1>2. HostingShapes'
    BY <1>1 DEF HostingShapes
  <1>3. PurchasesBacked'
    BY <1>1 DEF PurchasesBacked, Taken
  <1>4. ASSUME NEW o \in Owners PROVE Base + Extra(o)' <= MaxCapacity
    <2> DEFINE f == [p \in Purchases |-> Entitled(purchase[p], o)]
               g == [p \in Purchases |-> IF purchase[p].granted /\ purchase[p].who = o
                                             /\ purchase[p].ends > date + 1
                                          THEN purchase[p].quantity ELSE 0]
    <2>1. /\ Extra(o) = SumFunctionOnSet(f, Purchases) /\ Extra(o)' = SumFunctionOnSet(g, Purchases)
      BY <1>1 DEF Extra, SumFunction, Entitled
    <2>2. \A p \in Purchases : g[p] \in Int /\ f[p] \in Int /\ g[p] <= f[p]
      BY <1>1 DEF Entitled, HostingShapes, PurchaseRows
    <2> HIDE DEF f, g
    <2>3. IsFiniteSet(Purchases) /\ Base \in Nat /\ MaxCapacity \in Nat
      BY DEF HostingAssumption
    <2>4. /\ SumFunctionOnSet(g, Purchases) <= SumFunctionOnSet(f, Purchases)
          /\ SumFunctionOnSet(g, Purchases) \in Int /\ SumFunctionOnSet(f, Purchases) \in Int
      BY <2>2, <2>3, SumOrdered, SumInt
    <2>5. Base + Extra(o) <= MaxCapacity
      BY <1>1 DEF CapacityBounded
    <2> QED  BY <2>1, <2>3, <2>4, <2>5
  <1> QED  BY <1>2, <1>3, <1>4 DEF HostingInv, CapacityBounded

LEMMA NextHostingInv ==
    ASSUME HostingAssumption, HostingInv, [NextHosting]_hosting_vars
    PROVE  HostingInv' /\ GrowthWithinCapacity
  <1>1. ASSUME NEW w \in Sites,
               \/ \E size \in Sizes : Deploy(w, size) \/ Activate(w, size)
               \/ ArchiveSite(w) \/ RestoreSite(w) \/ \E o \in Owners : ChownSite(w, o)
        PROVE  HostingInv' /\ GrowthWithinCapacity
    BY <1>1, SitesKeep
  <1>2. ASSUME NEW p \in Purchases, NEW o \in Owners, NEW quantity \in Quantities,
               Redeem(o, p, quantity) \/ ReservePurchase(o, p, quantity)
        PROVE  HostingInv' /\ GrowthWithinCapacity
    <2>1. UNCHANGED website
      BY <1>2 DEF Redeem, ReservePurchase
    <2> QED  BY <1>2, <2>1, RedeemKeeps, ReserveKeeps, SitesStay
  <1>3. ASSUME NEW p \in Purchases, Refund(p) \/ SettleReserved(p)
        PROVE  HostingInv' /\ GrowthWithinCapacity
    <2>1. UNCHANGED website
      BY <1>3 DEF Refund, SettleReserved
    <2> QED  BY <1>3, <2>1, RefundKeeps, SettleKeeps, SitesStay
  <1>4. ASSUME DisableOffer \/ \E terms \in Quotes : SetOffer(terms)
        PROVE  HostingInv' /\ GrowthWithinCapacity
    <2>1. /\ UNCHANGED <<date, website, purchase, wallet, till, held>>
          /\ quote' \in [terms : Quotes, enabled : BOOLEAN]
      <3>1. quote \in [terms : Quotes, enabled : BOOLEAN]
        BY DEF HostingInv, HostingShapes
      <3>2. CASE DisableOffer
        BY <3>1, <3>2 DEF DisableOffer
      <3>3. ASSUME NEW terms \in Quotes, SetOffer(terms)
            PROVE  /\ UNCHANGED <<date, website, purchase, wallet, till, held>>
                   /\ quote' \in [terms : Quotes, enabled : BOOLEAN]
        BY <3>3 DEF SetOffer
      <3> QED  BY <1>4, <3>2, <3>3
    <2>2. HostingShapes'
      BY <2>1 DEF HostingInv, HostingShapes
    <2>3. CapacityBounded' /\ PurchasesBacked'
      BY <2>1 DEF HostingInv, CapacityBounded, PurchasesBacked, Extra, Entitled, Taken
    <2> QED  BY <2>1, <2>2, <2>3, SitesStay DEF HostingInv
  <1>5. CASE DatePasses
    BY <1>5, DatePassesKeeps, SitesStay DEF DatePasses
  <1>6. CASE UNCHANGED hosting_vars
    <2>1. HostingShapes'
      BY <1>6 DEF HostingInv, HostingShapes, hosting_vars
    <2>2. CapacityBounded' /\ PurchasesBacked'
      BY <1>6 DEF HostingInv, CapacityBounded, PurchasesBacked, Extra, Entitled, Taken, hosting_vars
    <2> QED  BY <1>6, <2>1, <2>2, SitesStay DEF HostingInv, hosting_vars
  <1> QED  BY <1>1, <1>2, <1>3, <1>4, <1>5, <1>6 DEF NextHosting

(* The inductive invariant of capacity and its purchases.                      *)
THEOREM HostingInvariance == HostingSpec => []HostingInv
  <1>1. InitHosting => HostingInv
    BY InitHostingInv, HostingAssumption
  <1>2. HostingInv /\ [NextHosting]_hosting_vars => HostingInv'
    BY NextHostingInv, HostingAssumption
  <1> QED  BY <1>1, <1>2, PTL DEF HostingSpec

(* Whatever is reserved, settled, cancelled or left to expire side by side,    *)
(* capacity is paid for and bounded, no money appears or vanishes, and nothing *)
(* published, restored, activated or handed over takes its owner past its      *)
(* capacity (plugins/hosting_capacity.py, plugins/offers.py).                  *)
THEOREM HostingAlwaysSound == HostingSpec => HostingSound
  <1>1. HostingInv /\ [NextHosting]_hosting_vars =>
           HostingTyped' /\ CapacityBounded' /\ PurchasesBacked' /\ GrowthWithinCapacity
    <2> SUFFICES ASSUME HostingInv, [NextHosting]_hosting_vars
                 PROVE  HostingTyped' /\ CapacityBounded' /\ PurchasesBacked' /\ GrowthWithinCapacity
      OBVIOUS
    <2>1. HostingInv' /\ GrowthWithinCapacity
      BY NextHostingInv, HostingAssumption
    <2>2. HostingTyped'
      BY <2>1 DEF HostingInv, HostingShapes, HostingTyped, WebsiteRows, PurchaseRows
    <2> QED  BY <2>1, <2>2 DEF HostingInv
  <1> QED  BY <1>1, HostingInvariance, PTL DEF HostingSpec, HostingSound
-----------------------------------------------------------------------------
(* The event log and a client's copy of it, then topics.                       *)
LEMMA GreatestOf ==
    ASSUME NEW S \in SUBSET Nat, S # {}, NEW n \in Nat, \A x \in S : x <= n
    PROVE  /\ Max(S) \in S
           /\ \A x \in S : x <= Max(S)
  <1> DEFINE T == {n - x : x \in S}
  <1>1. T \in SUBSET Nat
    OBVIOUS
  <1>2. T # {}
    OBVIOUS
  <1>3. PICK y \in T : \A z \in T : y <= z
    BY <1>1, <1>2, LeastOf
  <1>4. PICK x \in S : y = n - x
    BY <1>3
  <1>5. \A z \in S : x >= z
    BY <1>3, <1>4
  <1>6. \E z \in S : \A w \in S : z >= w
    BY <1>5
  <1> QED  BY <1>6 DEF Max

LEMMA PartOfSize ==
    ASSUME NEW S, IsFiniteSet(S), NEW k \in Nat, k <= Cardinality(S)
    PROVE  \E part \in SUBSET S : Cardinality(part) = k
  <1> DEFINE Steps == {n \in 0..k : \E part \in SUBSET S : Cardinality(part) = n}
  <1>1. Cardinality({}) = 0 /\ Cardinality(S) \in Nat
    BY FS_EmptySet, FS_CardinalityType
  <1>2. 0 \in Steps
    BY <1>1
  <1>3. /\ Max(Steps) \in Steps
        /\ \A n \in Steps : n <= Max(Steps)
    <2>1. Steps \in SUBSET Nat /\ \A n \in Steps : n <= k
      OBVIOUS
    <2> HIDE DEF Steps
    <2> QED  BY <1>2, <2>1, GreatestOf
  <1>4. PICK m \in Steps : \A n \in Steps : n <= m
    BY <1>3
  <1>5. PICK part \in SUBSET S : Cardinality(part) = m
    OBVIOUS
  <1>6. CASE m = k
    BY <1>5, <1>6
  <1>7. CASE m < k
    <2>1. PICK x \in S : x \notin part
      BY <1>1, <1>5, <1>7
    <2>2. IsFiniteSet(part)
      BY FS_Subset
    <2>3. Cardinality(part \cup {x}) = m + 1
      BY <1>5, <2>1, <2>2, FS_AddElement
    <2>4. m + 1 \in Steps
      BY <1>7, <2>3
    <2> QED  BY <1>4, <2>4
  <1> QED  BY <1>6, <1>7

Bodies == [seq : 0..MaxEvents, seen : SUBSET Things, watched : SUBSET Things, epoch : Nat]
Deltas == [gone : SUBSET Things, news : SUBSET ((1..MaxEvents) \X Things), stale : BOOLEAN, next : Bodies]
Pages  == [version : Nat, limit : Limits, delta : Deltas]
Positions == {Nowhere} \cup [kind : {"cursor"}, at : Bodies] \cup [kind : {"token"}, version : Nat]
Copies == [Things -> 0..MaxEvents]

SyncShapes ==
    /\ events \in Seq((SUBSET Things) \ {{}}) /\ Len(events) <= MaxEvents
    /\ access \in [Things -> {"read", "lent", "none"}]
    /\ epoch \in 0..MaxEpoch /\ watched \in SUBSET Things
    /\ checkpoint \in [version : Nat, body : Bodies] /\ checkpoint.body.seq <= Len(events)
    /\ reader \in [copy : Copies, position : Positions, pages : SUBSET Pages, asked : Pages \cup {NoPage}]
    /\ reader.asked # NoPage => reader.position.kind = "token"

(* A copy is in step with a body: the body knows what is in it, and while no   *)
(* authority has changed since, what may be read of the things it was about is *)
(* as new as the body's place in the log.                                      *)
InStep(body, copy, log, rights, now) ==
    /\ body \in Bodies /\ copy \in Copies
    /\ body.seq <= Len(log) /\ body.epoch <= now
    /\ {t \in Things : copy[t] > 0} = body.seen
    /\ body.epoch = now =>
          \A t \in Own \cup body.watched, e \in 1..body.seq :
              rights[t] # "none" /\ t \in log[e] => copy[t] >= e

SyncInv ==
    /\ SyncShapes
    /\ reader.position # Nowhere => InStep(Body, Held, events, access, epoch)

LEMMA OwnThings ==
    ASSUME SyncAssumption
    PROVE  /\ IsFiniteSet(Things) /\ Own \subseteq Things /\ Limits \subseteq Nat \ {0}
           /\ MaxEvents \in Nat /\ MaxEpoch \in Nat
  BY DEF SyncAssumption

(* What is lost, as much of it as fits.                                        *)
LEMMA LostIsLost ==
    ASSUME SyncAssumption, NEW body \in Bodies, NEW limit \in Limits
    PROVE  /\ Lost(body, limit) \in SUBSET {t \in body.seen : ~MayRead(t)}
           /\ Cardinality(Lost(body, limit)) \in 0..limit
  <1> DEFINE lost == {t \in body.seen : ~MayRead(t)}
             k == IF Cardinality(lost) < limit THEN Cardinality(lost) ELSE limit
  <1>1. IsFiniteSet(lost)
    <2>1. lost \in SUBSET Things
      BY DEF Bodies
    <2> QED  BY <2>1, OwnThings, FS_Subset
  <1>2. Cardinality(lost) \in Nat /\ limit \in Nat
    BY <1>1, OwnThings, FS_CardinalityType
  <1>3. k \in Nat /\ k <= Cardinality(lost) /\ k <= limit
    BY <1>2
  <1> HIDE DEF k, lost
  <1>4. \E part \in SUBSET lost : Cardinality(part) = k
    BY <1>1, <1>3, PartOfSize
  <1>5. Lost(body, limit) = CHOOSE part \in SUBSET lost : Cardinality(part) = k
    BY DEF Lost, lost, k
  <1>6. Lost(body, limit) \in SUBSET lost /\ Cardinality(Lost(body, limit)) = k
    BY <1>4, <1>5
  <1> QED  BY <1>2, <1>3, <1>6 DEF lost

LEMMA ReachInLog ==
    ASSUME SyncAssumption, NEW body \in Bodies, NEW room \in Nat,
           Len(events) \in Nat, body.seq <= Len(events)
    PROVE  Reach(body, room) \in body.seq..Len(events)
  <1> DEFINE S == {n \in body.seq..Len(events) : Cardinality(News(body.seq, n)) <= room}
  <1>1. body.seq \in Nat
    BY OwnThings DEF Bodies
  <1>2. CASE Stale(body) \/ room = 0
    BY <1>1, <1>2 DEF Reach
  <1>3. CASE ~(Stale(body) \/ room = 0)
    <2>1. body.seq + 1..body.seq = {}
      BY <1>1
    <2>2. News(body.seq, body.seq) = {}
      BY <2>1 DEF News
    <2>3. body.seq \in S
      <3>1. Cardinality(News(body.seq, body.seq)) = 0
        BY <2>2, FS_EmptySet
      <3>2. body.seq \in body.seq..Len(events)
        BY <1>1
      <3> QED  BY <3>1, <3>2
    <2>4. S \in SUBSET Nat /\ \A n \in S : n <= Len(events)
      BY <1>1
    <2>5. Reach(body, room) = Max(S)
      BY <1>3 DEF Reach
    <2>6. S \subseteq body.seq..Len(events)
      OBVIOUS
    <2> HIDE DEF S
    <2>7. Max(S) \in S
      BY <2>3, <2>4, GreatestOf
    <2> QED  BY <2>5, <2>6, <2>7
  <1> QED  BY <1>2, <1>3

(* The copy after a page.                                                      *)
LEMMA AppliedCopy ==
    ASSUME SyncAssumption, NEW copy \in Copies, NEW page \in Deltas, NEW t \in Things
    PROVE  /\ Applied(copy, page)[t] \in 0..MaxEvents
           /\ t \in page.gone => Applied(copy, page)[t] = 0
           /\ t \notin page.gone =>
                 /\ Applied(copy, page)[t] >= copy[t]
                 /\ \A e \in 1..MaxEvents : <<e, t>> \in page.news => Applied(copy, page)[t] >= e
                 /\ \/ Applied(copy, page)[t] = copy[t]
                    \/ <<Applied(copy, page)[t], t>> \in page.news
  <1> DEFINE S == {copy[t]} \cup {n[1] : n \in {m \in page.news : m[2] = t}}
  <1>1. page.news \in SUBSET ((1..MaxEvents) \X Things) /\ copy[t] \in 0..MaxEvents /\ MaxEvents \in Nat
    BY OwnThings DEF Deltas, Copies
  <1>2. Applied(copy, page)[t] = IF t \in page.gone THEN 0 ELSE Max(S)
    BY DEF Applied
  <1>3. S \in SUBSET Nat /\ \A n \in S : n <= MaxEvents
    BY <1>1
  <1>4. copy[t] \in S
    OBVIOUS
  <1>5. \A e \in 1..MaxEvents : <<e, t>> \in page.news => e \in S
    OBVIOUS
  <1>6. \A n \in S : n = copy[t] \/ <<n, t>> \in page.news
    <2> SUFFICES ASSUME NEW m \in page.news, m[2] = t PROVE <<m[1], t>> \in page.news
      OBVIOUS
    <2>1. m = <<m[1], m[2]>>
      BY <1>1
    <2> QED  BY <2>1
  <1> HIDE DEF S
  <1>7. Max(S) \in S /\ \A n \in S : n <= Max(S)
    BY <1>1, <1>3, <1>4, GreatestOf
  <1>8. Max(S) \in 0..MaxEvents
    <2>1. Max(S) \in Nat /\ Max(S) <= MaxEvents /\ MaxEvents \in Nat
      BY <1>1, <1>3, <1>7
    <2> QED  BY <2>1
  <1> QED  BY <1>1, <1>2, <1>3, <1>4, <1>5, <1>6, <1>7, <1>8

(* A page keeps the copy in step.                                              *)
LEMMA PageKeepsStep ==
    ASSUME SyncAssumption, Len(events) \in Nat, Len(events) <= MaxEvents, epoch \in Nat,
           NEW body, NEW copy, InStep(body, copy, events, access, epoch),
           watched = body.watched, NEW limit \in Limits
    PROVE  LET page == Delta(body, limit)
           IN  /\ page \in Deltas
               /\ InStep(page.next, Applied(copy, page), events, access, epoch)
  <1> DEFINE gone  == Lost(body, limit)
             reach == Reach(body, limit - Cardinality(gone))
             news  == News(body.seq, reach)
             next  == [body EXCEPT !.seq = reach, !.seen = (body.seen \ gone) \cup {n[2] : n \in news}]
             page  == [gone |-> gone, news |-> news, stale |-> Stale(body), next |-> next]
             after == Applied(copy, page)
  <1>1. Delta(body, limit) = page
    BY DEF Delta
  <1>2. /\ body \in Bodies /\ copy \in Copies
        /\ body.seq \in Nat /\ body.seq <= Len(events) /\ body.epoch \in Nat /\ body.epoch <= epoch
        /\ body.seen \in SUBSET Things /\ body.watched \in SUBSET Things
        /\ {t \in Things : copy[t] > 0} = body.seen
    BY OwnThings DEF InStep, Bodies
  <1>3. gone \in SUBSET {t \in body.seen : ~MayRead(t)} /\ Cardinality(gone) \in 0..limit
    BY <1>2, LostIsLost
  <1>4. limit - Cardinality(gone) \in Nat
    BY <1>3, OwnThings
  <1>5. reach \in body.seq..Len(events)
    BY <1>2, <1>4, ReachInLog
  <1>6. reach \in 0..MaxEvents /\ reach <= Len(events) /\ body.seq <= reach
    BY <1>2, <1>5, OwnThings
  <1> HIDE DEF gone, reach
  <1>7. /\ news \in SUBSET ((1..MaxEvents) \X Things)
        /\ \A e \in body.seq + 1..reach : \A t \in Told(e) : t \in Things => <<e, t>> \in news
        /\ \A n \in news : MayRead(n[2]) /\ n[2] \in Things
    <2>1. \A e \in body.seq + 1..reach : e \in 1..MaxEvents
      BY <1>2, <1>6, OwnThings
    <2> QED  BY <2>1 DEF News, Told
  <1> HIDE DEF news
  <1>8. {n[2] : n \in news} \in SUBSET Things
    BY <1>7
  <1>9. next \in Bodies
    BY <1>2, <1>6, <1>8 DEF Bodies
  <1>10. /\ next.seq = reach /\ next.seen = (body.seen \ gone) \cup {n[2] : n \in news}
         /\ next.epoch = body.epoch /\ next.watched = body.watched
    BY <1>2 DEF Bodies
  <1> HIDE DEF next
  <1>11. Stale(body) \in BOOLEAN /\ gone \in SUBSET Things
    BY <1>2, <1>3 DEF Stale
  <1>12. page \in Deltas /\ page.gone = gone /\ page.news = news /\ page.next = next
    BY <1>7, <1>9, <1>11 DEF Deltas
  <1> HIDE DEF page
  <1>13. ASSUME NEW t \in Things
         PROVE  /\ after[t] \in 0..MaxEvents
                /\ t \in gone => after[t] = 0
                /\ t \notin gone => after[t] >= copy[t]
                /\ t \notin gone => \A e \in 1..MaxEvents : <<e, t>> \in news => after[t] >= e
                /\ t \notin gone => after[t] = copy[t] \/ <<after[t], t>> \in news
    BY <1>2, <1>12, AppliedCopy
  <1>18. \A t \in Things : after[t] \in Nat
    <2>1. \A n \in 0..MaxEvents : n \in Nat
      BY OwnThings
    <2> QED  BY <1>13, <2>1
  <1>14. after \in Copies
    <2>1. after = [t \in Things |-> after[t]]
      BY DEF Applied
    <2> HIDE DEF after
    <2> QED  BY <1>13, <2>1 DEF Copies
  <1> HIDE DEF after
  <1>15. {t \in Things : after[t] > 0} = next.seen
    <2>1. ASSUME NEW t \in Things, after[t] > 0 PROVE t \in next.seen
      <3>1. t \notin gone
        <4>1. t \in gone => after[t] = 0
          BY <1>13
        <4> QED  BY <2>1, <4>1
      <3>2. CASE after[t] = copy[t]
        BY <1>2, <1>10, <2>1, <3>1, <3>2
      <3>3. CASE <<after[t], t>> \in news
        BY <1>10, <3>3
      <3> QED  BY <1>13, <3>1, <3>2, <3>3
    <2>2. ASSUME NEW t \in next.seen PROVE t \in Things /\ after[t] > 0
      <3>1. CASE t \in body.seen \ gone
        <4>1. t \in Things /\ copy[t] > 0 /\ copy[t] \in Nat /\ t \notin gone
          BY <1>2, <3>1, OwnThings DEF Copies
        <4>2. after[t] >= copy[t] /\ after[t] \in Nat
          BY <1>13, <1>18, <4>1
        <4> QED  BY <4>1, <4>2
      <3>2. CASE t \in {n[2] : n \in news}
        <4>1. PICK n \in news : t = n[2]
          BY <3>2
        <4>2. t \in Things /\ MayRead(t) /\ n[1] \in 1..MaxEvents /\ n = <<n[1], t>>
          BY <1>7, <4>1
        <4>3. t \notin gone
          BY <1>3, <4>2
        <4>4. <<n[1], t>> \in news
          BY <4>1, <4>2
        <4>5. after[t] >= n[1] /\ after[t] \in Nat
          BY <1>13, <1>18, <4>2, <4>3, <4>4
        <4> QED  BY <4>2, <4>5
      <3> QED  BY <1>10, <2>2, <3>1, <3>2
    <2> QED  BY <2>1, <2>2
  <1>16. ASSUME next.epoch = epoch, NEW t \in Own \cup next.watched, NEW e \in 1..next.seq,
                access[t] # "none", t \in events[e]
         PROVE  after[t] >= e
    <2>1. t \in Things /\ t \notin gone /\ MayRead(t)
      BY <1>2, <1>3, <1>10, <1>16, OwnThings DEF MayRead
    <2>2. e \in Nat
      BY <1>6, <1>10
    <2>3. CASE e \in 1..body.seq
      <3>1. copy[t] >= e
        BY <1>10, <1>16, <2>3 DEF InStep
      <3>2. copy[t] \in Nat
        BY <1>2, <2>1, OwnThings DEF Copies
      <3>3. after[t] >= copy[t] /\ after[t] \in Nat
        BY <1>13, <1>18, <2>1
      <3> QED  BY <2>2, <3>1, <3>2, <3>3
    <2>4. CASE e \in body.seq + 1..reach
      <3>1. t \in Told(e)
        BY <1>10, <1>16, <2>1 DEF Told, Followed
      <3>2. <<e, t>> \in news /\ e \in 1..MaxEvents
        BY <1>2, <1>6, <1>7, <2>1, <2>4, <3>1, OwnThings
      <3> QED  BY <1>13, <2>1, <3>2
    <2> QED  BY <1>2, <1>6, <1>10, <2>2, <2>3, <2>4
  <1>17. InStep(next, after, events, access, epoch)
    BY <1>2, <1>6, <1>9, <1>10, <1>14, <1>15, <1>16 DEF InStep
  <1> QED  BY <1>1, <1>12, <1>17 DEF after


LEMMA SyncInitial == ASSUME SyncAssumption, InitSync PROVE SyncInv
  <1>1. events \in Seq((SUBSET Things) \ {{}}) /\ Len(events) = 0
    BY DEF InitSync
  <1>2. Unopened.body \in Bodies /\ Unopened.version = 0 /\ Unopened.body.seq = 0
        /\ Unopened \in [version : Nat, body : Bodies]
    BY OwnThings DEF Unopened, Bodies
  <1>3. [t \in Things |-> 0] \in Copies
    BY OwnThings DEF Copies
  <1>4. reader \in [copy : Copies, position : Positions, pages : SUBSET Pages, asked : Pages \cup {NoPage}]
    BY <1>3 DEF InitSync, Positions
  <1>5. /\ access \in [Things -> {"read", "lent", "none"}] /\ epoch \in 0..MaxEpoch
        /\ watched \in SUBSET Things /\ reader.asked = NoPage /\ reader.position = Nowhere
    BY OwnThings DEF InitSync
  <1> QED  BY <1>1, <1>2, <1>4, <1>5, OwnThings DEF InitSync, SyncInv, SyncShapes

LEMMA SyncOpened ==
    ASSUME SyncAssumption, SyncInv
    PROVE  /\ Len(events) \in Nat /\ Len(events) <= MaxEvents /\ epoch \in Nat
           /\ checkpoint.version \in Nat /\ checkpoint.body \in Bodies
           /\ checkpoint.body.seq \in Nat /\ checkpoint.body.seq <= Len(events)
           /\ reader.copy \in Copies /\ reader.position \in Positions
           /\ reader.pages \in SUBSET Pages /\ reader.asked \in Pages \cup {NoPage}
           /\ \A page \in Pages : page # NoPage
           /\ reader.position.kind \in {"none", "cursor", "token"}
           /\ reader.position.kind = "none" <=> reader.position = Nowhere
  <1>1. Len(events) \in Nat /\ epoch \in Nat
    BY OwnThings DEF SyncInv, SyncShapes
  <1>2. checkpoint.body.seq \in Nat /\ checkpoint.body \in Bodies
    BY OwnThings DEF SyncInv, SyncShapes, Bodies
  <1>3. \A page \in Pages : page # NoPage
    BY DEF Pages, NoPage
  <1>4. /\ reader.position.kind \in {"none", "cursor", "token"}
        /\ reader.position.kind = "none" <=> reader.position = Nowhere
    BY DEF SyncInv, SyncShapes, Positions, Nowhere
  <1> QED  BY <1>1, <1>2, <1>3, <1>4 DEF SyncInv, SyncShapes

(* What happens elsewhere leaves every copy in step.                           *)
LEMMA OthersKeepStep ==
    ASSUME SyncAssumption, SyncShapes,
           \/ \E about \in (SUBSET Things) \ {{}} : Publish(about)
           \/ \E t \in Things, to \in {"read", "lent", "none"} : ChangeReading(t, to)
           \/ \E t \in Things : ShareEnds(t) \/ Watch(t),
           NEW body, NEW copy, InStep(body, copy, events, access, epoch)
    PROVE  InStep(body, copy, events', access', epoch')
  <1>1. /\ body \in Bodies /\ copy \in Copies /\ body.seq \in Nat /\ body.epoch \in Nat
        /\ body.seq <= Len(events) /\ Len(events) \in Nat /\ epoch \in Nat /\ body.epoch <= epoch
        /\ body.watched \in SUBSET Things
    BY OwnThings DEF InStep, Bodies, SyncShapes
  <1>2. ASSUME NEW about \in (SUBSET Things) \ {{}}, Publish(about)
        PROVE  InStep(body, copy, events', access', epoch')
    <2>1. /\ Len(events') = Len(events) + 1
          /\ \A e \in 1..Len(events) : events'[e] = events[e]
          /\ UNCHANGED <<access, epoch>>
      BY <1>2 DEF Publish, SyncShapes
    <2> QED  BY <1>1, <2>1 DEF InStep
  <1>3. ASSUME NEW t \in Things, NEW to \in {"read", "lent", "none"}, ChangeReading(t, to)
        PROVE  InStep(body, copy, events', access', epoch')
    <2>1. epoch' = epoch + 1 /\ events' = events
      BY <1>3 DEF ChangeReading
    <2> QED  BY <1>1, <2>1 DEF InStep
  <1>4. ASSUME NEW t \in Things, ShareEnds(t) PROVE InStep(body, copy, events', access', epoch')
    <2>1. /\ UNCHANGED <<events, epoch>>
          /\ \A s \in Things : access'[s] # "none" => access[s] # "none"
      BY <1>4 DEF ShareEnds, SyncShapes
    <2> QED  BY <1>1, <2>1, OwnThings DEF InStep
  <1>5. ASSUME NEW t \in Things, Watch(t) PROVE InStep(body, copy, events', access', epoch')
    BY <1>5 DEF Watch
  <1> QED  BY <1>2, <1>3, <1>4, <1>5

LEMMA OthersKeep ==
    ASSUME SyncAssumption, SyncInv,
           \/ \E about \in (SUBSET Things) \ {{}} : Publish(about)
           \/ \E t \in Things, to \in {"read", "lent", "none"} : ChangeReading(t, to)
           \/ \E t \in Things : ShareEnds(t) \/ Watch(t)
    PROVE  SyncInv'
  <1>1. UNCHANGED <<checkpoint, reader>>
    BY DEF Publish, ChangeReading, ShareEnds, Watch
  <1>2. SyncShapes'
    <2>1. ASSUME NEW about \in (SUBSET Things) \ {{}}, Publish(about) PROVE SyncShapes'
      <3>1. /\ events' \in Seq((SUBSET Things) \ {{}}) /\ Len(events') = Len(events) + 1
            /\ Len(events) < MaxEvents /\ Len(events) \in Nat /\ UNCHANGED <<access, epoch, watched>>
        BY <2>1 DEF Publish, SyncInv, SyncShapes
      <3>2. Len(events') <= MaxEvents /\ checkpoint.body.seq <= Len(events')
        BY <3>1, SyncOpened, OwnThings
      <3> QED  BY <1>1, <3>1, <3>2 DEF SyncInv, SyncShapes
    <2>2. ASSUME NEW t \in Things, NEW to \in {"read", "lent", "none"}, ChangeReading(t, to)
          PROVE  SyncShapes'
      <3>1. epoch' \in 0..MaxEpoch
        BY <2>2, OwnThings DEF ChangeReading, SyncInv, SyncShapes
      <3> QED  BY <1>1, <2>2, <3>1 DEF ChangeReading, SyncInv, SyncShapes
    <2>3. ASSUME NEW t \in Things, ShareEnds(t) PROVE SyncShapes'
      BY <1>1, <2>3 DEF ShareEnds, SyncInv, SyncShapes
    <2>4. ASSUME NEW t \in Things, Watch(t) PROVE SyncShapes'
      BY <1>1, <2>4 DEF Watch, SyncInv, SyncShapes
    <2> QED  BY <2>1, <2>2, <2>3, <2>4
  <1>3. Body' = Body /\ Held' = Held
    BY <1>1 DEF Body, Held, Applied
  <1>4. reader.position # Nowhere => InStep(Body, Held, events', access', epoch')
    BY OthersKeepStep DEF SyncInv
  <1> QED  BY <1>1, <1>2, <1>3, <1>4 DEF SyncInv

(* Steps of the client and its calls: the log and all authority stay.          *)
LEMMA ClientMoves ==
    ASSUME SyncInv, UNCHANGED <<events, access, epoch, watched>>,
           checkpoint' \in [version : Nat, body : Bodies], checkpoint'.body.seq <= Len(events),
           reader' \in [copy : Copies, position : Positions, pages : SUBSET Pages, asked : Pages \cup {NoPage}],
           reader'.asked # NoPage => reader'.position.kind = "token",
           reader'.position # Nowhere => InStep(Body', Held', events, access, epoch)
    PROVE  SyncInv'
  BY DEF SyncInv, SyncShapes

LEMMA StartKeeps ==
    ASSUME SyncAssumption, SyncInv, NEW limit \in Limits, Start(limit)
    PROVE  SyncInv'
  <1> DEFINE empty == [t \in Things |-> 0]
             page == Delta(Origin, limit)
  <1>1. InStep(Origin, empty, events, access, epoch) /\ Origin.watched = watched
    <2>1. Origin \in Bodies /\ Origin.seq = 0 /\ Origin.seen = {} /\ Origin.epoch = epoch
          /\ Origin.watched = watched
      BY SyncOpened, OwnThings DEF Origin, Bodies, SyncInv, SyncShapes
    <2>2. empty \in Copies /\ {t \in Things : empty[t] > 0} = {}
      BY OwnThings DEF Copies
    <2> HIDE DEF empty
    <2> QED  BY <2>1, <2>2, SyncOpened DEF InStep
  <1> HIDE DEF empty
  <1>2. /\ page \in Deltas
        /\ InStep(page.next, Applied(empty, page), events, access, epoch)
    BY <1>1, SyncOpened, PageKeepsStep
  <1> HIDE DEF page
  <1>3. /\ reader' = [copy |-> Applied(empty, page), pages |-> {}, asked |-> NoPage,
                      position |-> [kind |-> "cursor", at |-> page.next]]
        /\ checkpoint' = Unopened /\ UNCHANGED <<events, access, epoch, watched>>
    BY DEF Start, empty, page
  <1>4. page.next \in Bodies /\ Applied(empty, page) \in Copies
    BY <1>2 DEF InStep
  <1>5. Unopened \in [version : Nat, body : Bodies] /\ Unopened.body.seq = 0
    BY OwnThings DEF Unopened, Bodies
  <1>6. /\ reader' \in [copy : Copies, position : Positions, pages : SUBSET Pages, asked : Pages \cup {NoPage}]
        /\ reader'.asked = NoPage
    BY <1>3, <1>4 DEF Positions
  <1>7. Body' = page.next /\ Held' = Applied(empty, page)
    BY <1>3 DEF Body, Held
  <1> QED  BY <1>2, <1>3, <1>5, <1>6, <1>7, SyncOpened, ClientMoves

LEMMA ContinueKeeps ==
    ASSUME SyncAssumption, SyncInv, NEW limit \in Limits, Continue(limit)
    PROVE  SyncInv'
  <1> DEFINE body == reader.position.at
             page == Delta(body, limit)
  <1>1. /\ reader.position.kind = "cursor" /\ body.watched = watched
        /\ UNCHANGED <<events, access, epoch, watched, checkpoint>>
        /\ reader' = [reader EXCEPT !.copy = Applied(reader.copy, page),
               !.position = IF page.stale THEN Nowhere ELSE [kind |-> "cursor", at |-> page.next]]
    BY DEF Continue, Answerable
  <1>2. reader.asked = NoPage /\ Body = body /\ Held = reader.copy /\ reader.position # Nowhere
    BY <1>1, SyncOpened DEF SyncInv, SyncShapes, Body, Held
  <1> HIDE DEF body
  <1>3. /\ page \in Deltas
        /\ InStep(page.next, Applied(reader.copy, page), events, access, epoch)
    BY <1>1, <1>2, SyncOpened, PageKeepsStep DEF SyncInv
  <1> HIDE DEF page
  <1> DEFINE seating == IF page.stale THEN Nowhere ELSE [kind |-> "cursor", at |-> page.next]
             copy  == Applied(reader.copy, page)
  <1>4. page.next \in Bodies /\ copy \in Copies
    BY <1>3 DEF InStep
  <1>5. seating \in Positions /\ (seating # Nowhere => seating = [kind |-> "cursor", at |-> page.next])
    BY <1>4 DEF Positions
  <1>6. reader' = [reader EXCEPT !.copy = copy, !.position = seating]
    BY <1>1
  <1>7. InStep(page.next, copy, events, access, epoch)
    BY <1>3
  <1> HIDE DEF seating, copy
  <1>8. /\ reader' \in [copy : Copies, position : Positions, pages : SUBSET Pages, asked : Pages \cup {NoPage}]
        /\ reader'.asked = NoPage /\ reader'.position = seating /\ reader'.copy = copy
    BY <1>2, <1>4, <1>5, <1>6 DEF SyncInv, SyncShapes
  <1>9. reader'.position # Nowhere => Body' = page.next /\ Held' = copy
    BY <1>5, <1>8 DEF Body, Held
  <1> QED  BY <1>1, <1>7, <1>8, <1>9, SyncOpened, ClientMoves DEF SyncInv, SyncShapes

LEMMA PositionKeeps ==
    ASSUME SyncAssumption, SyncInv, PositionExpires \/ OpenCheckpoint
    PROVE  SyncInv'
  <1>1. CASE PositionExpires
    <2>1. /\ reader' = [reader EXCEPT !.position = Nowhere, !.pages = {}, !.asked = NoPage]
          /\ checkpoint' = Unopened /\ UNCHANGED <<events, access, epoch, watched>>
      BY <1>1 DEF PositionExpires
    <2>2. Unopened \in [version : Nat, body : Bodies] /\ Unopened.body.seq = 0
      BY OwnThings DEF Unopened, Bodies
    <2>3. /\ reader' \in [copy : Copies, position : Positions, pages : SUBSET Pages, asked : Pages \cup {NoPage}]
          /\ reader'.asked = NoPage /\ reader'.position = Nowhere
      BY <2>1 DEF SyncInv, SyncShapes, Positions
    <2> QED  BY <2>1, <2>2, <2>3, SyncOpened, ClientMoves
  <1>2. CASE OpenCheckpoint
    <2> DEFINE body == reader.position.at
               seating == [kind |-> "token", version |-> 0]
    <2>1. /\ reader.position.kind = "cursor" /\ checkpoint' = [version |-> 0, body |-> body]
          /\ reader' = [reader EXCEPT !.position = seating, !.pages = {}]
          /\ UNCHANGED <<events, access, epoch, watched>>
      BY <1>2 DEF OpenCheckpoint
    <2>2. reader.asked = NoPage /\ Body = body /\ Held = reader.copy /\ reader.position # Nowhere
      BY <2>1, SyncOpened DEF SyncInv, SyncShapes, Body, Held
    <2>3. InStep(body, reader.copy, events, access, epoch)
      BY <2>2 DEF SyncInv
    <2> HIDE DEF body
    <2>4. body \in Bodies /\ body.seq <= Len(events)
      BY <2>3 DEF InStep
    <2>5. seating \in Positions /\ seating.kind = "token"
      BY DEF Positions
    <2> HIDE DEF seating
    <2>6. /\ reader' \in [copy : Copies, position : Positions, pages : SUBSET Pages, asked : Pages \cup {NoPage}]
          /\ reader'.asked = NoPage /\ reader'.position = seating /\ reader'.copy = reader.copy
      BY <2>1, <2>2, <2>5 DEF SyncInv, SyncShapes
    <2>7. Body' = body /\ Held' = reader.copy
      BY <2>1, <2>5, <2>6 DEF Body, Held
    <2> QED  BY <2>1, <2>3, <2>4, <2>6, <2>7, ClientMoves
  <1> QED  BY <1>1, <1>2

LEMMA GetPageKeeps ==
    ASSUME SyncAssumption, SyncInv, NEW limit \in Limits, GetPage(limit)
    PROVE  SyncInv'
  <1> DEFINE page == [version |-> checkpoint.version, limit |-> limit, delta |-> Delta(checkpoint.body, limit)]
  <1>1. /\ reader.position.kind = "token" /\ reader.asked = NoPage
        /\ checkpoint.body.watched = watched
        /\ reader' = [reader EXCEPT !.pages = reader.pages \cup {page}]
        /\ UNCHANGED <<events, access, epoch, watched, checkpoint>>
    BY DEF GetPage, Answerable
  <1>2. Body = checkpoint.body /\ Held = reader.copy /\ reader.position # Nowhere
    BY <1>1, SyncOpened DEF Body, Held
  <1>3. InStep(checkpoint.body, reader.copy, events, access, epoch)
    BY <1>2 DEF SyncInv
  <1>4. Delta(checkpoint.body, limit) \in Deltas
    BY <1>1, <1>3, SyncOpened, PageKeepsStep
  <1>5. page \in Pages
    BY <1>4, SyncOpened DEF Pages
  <1> HIDE DEF page
  <1>6. /\ reader' \in [copy : Copies, position : Positions, pages : SUBSET Pages, asked : Pages \cup {NoPage}]
        /\ reader'.asked = NoPage /\ reader'.position = reader.position /\ reader'.copy = reader.copy
    BY <1>1, <1>5 DEF SyncInv, SyncShapes
  <1>7. Body' = checkpoint.body /\ Held' = reader.copy
    BY <1>1, <1>6 DEF Body, Held
  <1> QED  BY <1>1, <1>3, <1>6, <1>7, SyncOpened, ClientMoves DEF SyncInv, SyncShapes

LEMMA AcknowledgeKeeps ==
    ASSUME SyncAssumption, SyncInv, NEW page \in reader.pages, Acknowledge(page)
    PROVE  SyncInv'
  <1> DEFINE delta == Delta(checkpoint.body, page.limit)
  <1>1. /\ reader.position.kind = "token" /\ reader.asked = NoPage
        /\ UNCHANGED <<events, access, epoch, watched>>
        /\ page \in Pages /\ page.limit \in Limits /\ page # NoPage
    BY SyncOpened DEF Acknowledge, Pages
  <1>2. Body = checkpoint.body /\ Held = reader.copy /\ reader.position # Nowhere
    BY <1>1, SyncOpened DEF Body, Held
  <1>3. InStep(checkpoint.body, reader.copy, events, access, epoch)
    BY <1>2 DEF SyncInv
  <1>4. CASE Accepted(page)
    <2>1. /\ checkpoint' = [version |-> checkpoint.version + 1, body |-> delta.next]
          /\ reader' = [reader EXCEPT !.asked = page, !.pages = reader.pages \ {page}]
      BY <1>4 DEF Acknowledge
    <2>2. page.delta = delta /\ checkpoint.body.watched = watched
      BY <1>4 DEF Accepted, Answerable
    <2>3. InStep(delta.next, Applied(reader.copy, delta), events, access, epoch)
      BY <1>1, <1>3, <2>2, SyncOpened, PageKeepsStep
    <2> HIDE DEF delta
    <2>4. delta.next \in Bodies /\ delta.next.seq <= Len(events)
      BY <2>3 DEF InStep
    <2>5. /\ reader' \in [copy : Copies, position : Positions, pages : SUBSET Pages, asked : Pages \cup {NoPage}]
          /\ reader'.asked = page /\ reader'.position = reader.position /\ reader'.copy = reader.copy
      BY <1>1, <2>1 DEF SyncInv, SyncShapes
    <2>6. Body' = delta.next /\ Held' = Applied(reader.copy, delta)
      BY <1>1, <2>1, <2>2, <2>5 DEF Body, Held, Applied
    <2>7. /\ checkpoint' \in [version : Nat, body : Bodies]
          /\ checkpoint'.body.seq <= Len(events)
      BY <2>1, <2>4, SyncOpened
    <2> QED  BY <1>1, <2>3, <2>5, <2>6, <2>7, ClientMoves
  <1>5. CASE ~Accepted(page)
    <2>1. /\ checkpoint' = checkpoint
          /\ reader' = [reader EXCEPT !.pages = reader.pages \ {page}]
      BY <1>5 DEF Acknowledge
    <2>2. /\ reader' \in [copy : Copies, position : Positions, pages : SUBSET Pages, asked : Pages \cup {NoPage}]
          /\ reader'.asked = NoPage /\ reader'.position = reader.position /\ reader'.copy = reader.copy
      BY <1>1, <2>1 DEF SyncInv, SyncShapes
    <2>3. Body' = checkpoint.body /\ Held' = reader.copy
      BY <1>1, <2>1, <2>2 DEF Body, Held
    <2> QED  BY <1>1, <1>3, <2>1, <2>2, <2>3, SyncOpened, ClientMoves DEF SyncInv, SyncShapes
  <1> QED  BY <1>4, <1>5

LEMMA HearKeeps ==
    ASSUME SyncAssumption, SyncInv, HearAccepted
    PROVE  SyncInv'
  <1> DEFINE asked == reader.asked
             seating == [kind |-> "token", version |-> asked.version + 1]
             copy  == Applied(reader.copy, asked.delta)
  <1>1. /\ asked # NoPage /\ reader.position.kind = "token"
        /\ UNCHANGED <<events, access, epoch, watched, checkpoint>>
        /\ reader' = [reader EXCEPT !.copy = copy, !.asked = NoPage,
                         !.position = [reader.position EXCEPT !.version = asked.version + 1]]
    BY DEF HearAccepted, SyncInv, SyncShapes
  <1>2. Body = checkpoint.body /\ Held = copy /\ reader.position # Nowhere
    BY <1>1, SyncOpened DEF Body, Held
  <1>3. InStep(checkpoint.body, copy, events, access, epoch)
    BY <1>2 DEF SyncInv
  <1>4. asked.version \in Nat
    BY <1>1, SyncOpened DEF Pages
  <1>5. [reader.position EXCEPT !.version = asked.version + 1] = seating
    BY <1>1, SyncOpened DEF Positions, Nowhere
  <1>6. seating \in Positions /\ seating.kind = "token" /\ seating # Nowhere
    BY <1>4 DEF Positions, Nowhere
  <1>7. reader' = [reader EXCEPT !.copy = copy, !.asked = NoPage, !.position = seating]
    BY <1>1, <1>5
  <1>8. copy \in Copies
    BY <1>3 DEF InStep
  <1> HIDE DEF seating, copy, asked
  <1>9. /\ reader' \in [copy : Copies, position : Positions, pages : SUBSET Pages, asked : Pages \cup {NoPage}]
        /\ reader'.asked = NoPage /\ reader'.position = seating /\ reader'.copy = copy
    BY <1>6, <1>7, <1>8 DEF SyncInv, SyncShapes
  <1>10. Body' = checkpoint.body /\ Held' = copy
    BY <1>1, <1>6, <1>9 DEF Body, Held
  <1> QED  BY <1>1, <1>3, <1>9, <1>10, SyncOpened, ClientMoves DEF SyncInv, SyncShapes

LEMMA SyncStep ==
    ASSUME SyncAssumption, SyncInv, [NextSync]_sync_vars
    PROVE  SyncInv'
  <1>1. CASE UNCHANGED sync_vars
    <2>1. /\ events' = events /\ access' = access /\ epoch' = epoch
          /\ watched' = watched /\ checkpoint' = checkpoint /\ reader' = reader
      BY <1>1 DEF sync_vars
    <2>2. Body' = Body /\ Held' = Held
      BY <2>1 DEF Body, Held, Applied
    <2>3. SyncShapes'
      BY <2>1 DEF SyncInv, SyncShapes
    <2>4. reader.position # Nowhere => InStep(Body', Held', events', access', epoch')
      BY <2>1, <2>2 DEF SyncInv
    <2>5. reader'.position # Nowhere => reader.position # Nowhere
      BY <2>1
    <2> QED  BY <2>3, <2>4, <2>5 DEF SyncInv, Nowhere
  <1>2. CASE NextSync
    BY <1>2, OthersKeep, StartKeeps, ContinueKeeps, PositionKeeps, GetPageKeeps, AcknowledgeKeeps,
       HearKeeps DEF NextSync
  <1> QED  BY <1>1, <1>2

(* Whatever is published, granted, withdrawn, answered late or twice, the copy *)
(* a client holds stays in step with what the service believes it holds        *)
(* (plugins/communication.py, event_stream.py).                                *)
THEOREM SyncInvariance == ASSUME SyncAssumption PROVE SyncSpec => []SyncInv
  <1>1. InitSync => SyncInv
    BY SyncInitial
  <1>2. SyncInv /\ [NextSync]_sync_vars => SyncInv'
    BY SyncStep
  <1> QED  BY <1>1, <1>2, PTL DEF SyncSpec

(* A client that asks for pages and acknowledges them misses nothing that it   *)
(* may read and follows, and is told of every loss                             *)
(* (communication.sync, sync_checkpoint_open, sync_checkpoint_ack).            *)
THEOREM SyncAlwaysSound == ASSUME SyncAssumption PROVE SyncSpec => []SyncSound
  <1>1. ASSUME SyncInv PROVE SyncSound
    <2>1. SyncTyped
      <3>1. checkpoint.body \in Bodies /\ checkpoint.body.seq <= Len(events)
            /\ checkpoint.version \in Nat /\ Len(events) \in Nat
        BY <1>1 DEF SyncInv, SyncShapes
      <3>2. checkpoint.body.seq \in 0..Len(events)
        BY <3>1, OwnThings DEF Bodies
      <3>3. reader.copy \in Copies /\ reader.position \in Positions
        BY <1>1 DEF SyncInv, SyncShapes
      <3>4. reader.copy \in [Things -> 0..MaxEvents]
        BY <3>3 DEF Copies
      <3>5. reader.position.kind \in {"none", "cursor", "token"}
        BY <3>3 DEF Positions, Nowhere
      <3>6. watched \subseteq Things /\ epoch \in 0..MaxEpoch
            /\ access \in [Things -> {"read", "lent", "none"}]
            /\ events \in Seq((SUBSET Things) \ {{}}) /\ Len(events) <= MaxEvents
        BY <1>1 DEF SyncInv, SyncShapes
      <3> QED  BY <3>1, <3>2, <3>4, <3>5, <3>6 DEF SyncTyped
    <2>2. LossesTellable
      BY <1>1 DEF SyncInv, InStep, LossesTellable
    <2>3. NothingMissed
      BY <1>1 DEF SyncInv, InStep, NothingMissed, MayRead, Followed
    <2> QED  BY <2>1, <2>2, <2>3 DEF SyncSound
  <1> QED  BY <1>1, SyncInvariance, PTL
-----------------------------------------------------------------------------
RequestsKnown ==
    \A m \in Members :
        /\ seat[m].status = "pending" => came[m].asked
        /\ seat[m].status = "invited" => came[m].let

TopicsInv == TopicsSound /\ RequestsKnown

Place == [role : {"member", "admin"}, status : States]
Way   == [asked : BOOLEAN, free : BOOLEAN, let : BOOLEAN, appointed : BOOLEAN]

USE DEF Seat, Nohow, States, Entries

LEMMA TopicsInit == ASSUME TopicsAssumption, InitTopics PROVE TopicsInv
  <1>1. TopicsTyped
    <2>1. ASSUME NEW m \in Members PROVE [Nohow EXCEPT !.appointed = (m = Creator)] \in Way
      <3>1. CASE m = Creator
        BY <3>1 DEF Way
      <3>2. CASE m # Creator
        BY <3>2 DEF Way
      <3> QED
        BY <3>1, <3>2
    <2>2. came \in [Members -> Way]
      BY <2>1 DEF InitTopics
    <2> QED
      BY <2>2 DEF TopicsAssumption, InitTopics, TopicsTyped, Forever, Way
  <1>2. Creator \in Admins
    BY DEF TopicsAssumption, InitTopics, Admins
  <1>3. BannedOutside /\ ProperlyAdmitted /\ RequestsKnown
    BY DEF InitTopics, BannedOutside, Banned, ProperlyAdmitted, Seated, RequestsKnown
  <1> QED
    BY <1>1, <1>2, <1>3 DEF TopicsInv, TopicsSound, Administered

(* Taking away one administrator of several leaves one.                        *)
LEMMA AnotherAdmin ==
    ASSUME TopicsAssumption, TopicsInv, NEW m \in Members, NotLast(m)
    PROVE  \E n \in Admins : n # m
  <1>1. CASE m \notin Admins
    BY <1>1 DEF TopicsInv, TopicsSound, Administered
  <1>2. CASE m \in Admins
    <2>1. IsFiniteSet(Admins)
      BY FS_Subset DEF Admins, TopicsAssumption
    <2>2. /\ Cardinality(Admins) \in Nat /\ Cardinality(Admins) > 1
          /\ Cardinality(Admins \ {m}) = Cardinality(Admins) - 1
          /\ IsFiniteSet(Admins \ {m})
      BY <1>2, <2>1, FS_CardinalityType, FS_RemoveElement DEF NotLast
    <2>3. Admins \ {m} # {}
      BY <2>2, FS_EmptySet
    <2> QED
      BY <2>3
  <1> QED
    BY <1>1, <1>2

(* A step that changes the row of one member, and not the bans, is sound when  *)
(* its new row is.                                                             *)
LEMMA RowChanged ==
    ASSUME TopicsAssumption, TopicsInv, NEW m \in Members,
           NEW seating \in Place, NEW way \in Way,
           seat' = [seat EXCEPT ![m] = seating], came' = [came EXCEPT ![m] = way],
           UNCHANGED <<hour, ban>>, entry' \in Entries,
           seating.status \in {"active", "pending", "invited"} => ~Banned(m),
           seating.status = "active" => way.appointed \/ (way.asked /\ (way.free \/ way.let)),
           seating.status = "pending" => way.asked,
           seating.status = "invited" => way.let,
           m \in Admins => NotLast(m) \/ seating = [role |-> "admin", status |-> "active"]
    PROVE  TopicsInv'
  <1>1. /\ seat' \in [Members -> Place] /\ came' \in [Members -> Way]
        /\ seat'[m] = seating /\ came'[m] = way
        /\ \A n \in Members \ {m} : seat'[n] = seat[n] /\ came'[n] = came[n]
    BY DEF TopicsInv, TopicsSound, TopicsTyped, Place, Way
  <1>2. TopicsTyped'
    BY <1>1 DEF TopicsInv, TopicsSound, TopicsTyped, Place, Way, Forever
  <1>3. Administered'
    <2>1. CASE seating = [role |-> "admin", status |-> "active"]
      BY <1>1, <2>1 DEF Administered, Admins
    <2>2. CASE seating # [role |-> "admin", status |-> "active"]
      <3>1. NotLast(m)
        BY <2>2 DEF NotLast
      <3>2. PICK n \in Admins : n # m
        BY <3>1, AnotherAdmin
      <3>3. n \in Admins'
        BY <1>1, <3>2 DEF Admins
      <3> QED
        BY <3>3 DEF Administered
    <2> QED
      BY <2>1, <2>2
  <1>4. BannedOutside'
    BY <1>1 DEF TopicsInv, TopicsSound, BannedOutside, Banned
  <1>5. ProperlyAdmitted' /\ RequestsKnown'
    BY <1>1 DEF TopicsInv, TopicsSound, ProperlyAdmitted, Seated, RequestsKnown
  <1> QED
    BY <1>2, <1>3, <1>4, <1>5 DEF TopicsInv, TopicsSound

(* No operation of a topic, nor time, breaks the invariant.                    *)
LEMMA TopicsStep == ASSUME TopicsAssumption, TopicsInv, NextTopics PROVE TopicsInv'
  <1>0. /\ seat \in [Members -> Place] /\ came \in [Members -> Way] /\ entry \in Entries
        /\ hour \in 0..LastHour
        /\ ban \in [Members -> [status : {"none", "active", "lifted"}, until : 0..Forever]]
    BY DEF TopicsInv, TopicsSound, TopicsTyped, Place, Way
  <1>1. ASSUME NEW m \in Members, JoinTopic(m) PROVE TopicsInv'
    <2> DEFINE status == IF entry = "approval" /\ seat[m].status # "invited"
                         THEN "pending" ELSE "active"
               way == [came[m] EXCEPT !.asked = TRUE, !.free = (@ \/ entry = "open")]
    <2>1. seat' = [seat EXCEPT ![m] = [role |-> "member", status |-> status]]
      BY <1>1 DEF JoinTopic, Sit
    <2>2. came' = [came EXCEPT ![m] = way] /\ way \in Way
      BY <1>0, <1>1 DEF JoinTopic, Way
    <2>3. [role |-> "member", status |-> status] \in Place
      BY DEF Place
    <2>4. status = "active" => way.asked /\ (way.free \/ way.let)
      BY <1>0, <1>1 DEF JoinTopic, TopicsInv, RequestsKnown, Way
    <2>5. ~Banned(m) /\ m \notin Admins /\ way.asked /\ status # "invited"
      BY <1>0, <1>1 DEF JoinTopic, Admins, Way
    <2> HIDE DEF status, way
    <2> QED
      BY <1>0, <1>1, <2>1, <2>2, <2>3, <2>4, <2>5, RowChanged DEF JoinTopic
  <1>2. ASSUME NEW m \in Members, NEW status \in {"left", "removed"}, NotLast(m),
               Sit(m, "member", status), Out(m), UNCHANGED <<hour, entry, ban>>
        PROVE  TopicsInv'
    <2>1. [role |-> "member", status |-> status] \in Place /\ Nohow \in Way
      BY DEF Place, Way
    <2> QED
      BY <1>0, <1>2, <2>1, RowChanged DEF Sit, Out
  <1>3. ASSUME NEW m \in Members, LeaveTopic(m) PROVE TopicsInv'
    BY <1>2, <1>3 DEF LeaveTopic
  <1>4. ASSUME NEW a, NEW m \in Members, RemoveFromTopic(a, m) PROVE TopicsInv'
    BY <1>2, <1>4 DEF RemoveFromTopic
  <1>5. ASSUME NEW a, NEW m \in Members, InviteToTopic(a, m) PROVE TopicsInv'
    <2> DEFINE way == [came[m] EXCEPT !.let = TRUE]
    <2>1. [role |-> "member", status |-> "invited"] \in Place /\ way \in Way /\ way.let
      BY <1>0 DEF Place, Way
    <2>2. came' = [came EXCEPT ![m] = way] /\ m \notin Admins
      BY <1>0, <1>5 DEF InviteToTopic, Admins
    <2> HIDE DEF way
    <2> QED
      BY <1>0, <1>5, <2>1, <2>2, RowChanged DEF InviteToTopic, Sit
  <1>6. ASSUME NEW a, NEW m \in Members, ApproveForTopic(a, m) PROVE TopicsInv'
    <2> DEFINE way == [came[m] EXCEPT !.let = TRUE]
               seating == [role |-> seat[m].role, status |-> "active"]
    <2>1. seating \in Place /\ way \in Way /\ way.let
      BY <1>0 DEF Place, Way
    <2>2. way.asked
      BY <1>0, <1>6 DEF ApproveForTopic, TopicsInv, RequestsKnown, Way
    <2>3. seat' = [seat EXCEPT ![m] = seating] /\ came' = [came EXCEPT ![m] = way] /\ m \notin Admins
      BY <1>0, <1>6 DEF ApproveForTopic, Sit, Admins
    <2>4. seating.status = "active"
      OBVIOUS
    <2> HIDE DEF way, seating
    <2> QED
      BY <1>0, <1>6, <2>1, <2>2, <2>3, <2>4, RowChanged DEF ApproveForTopic
  <1>7. ASSUME NEW m \in Members, NEW role \in {"member", "admin"}, Seated(m),
               role = "member" => NotLast(m),
               Sit(m, role, "active"), UNCHANGED <<hour, entry, ban, came>>
        PROVE  TopicsInv'
    <2>1. [role |-> role, status |-> "active"] \in Place /\ came[m] \in Way
      BY <1>0 DEF Place
    <2>2. came' = [came EXCEPT ![m] = came[m]]
      BY <1>0, <1>7
    <2>3. /\ ~Banned(m)
          /\ came[m].appointed \/ (came[m].asked /\ (came[m].free \/ came[m].let))
      BY <1>7 DEF TopicsInv, TopicsSound, BannedOutside, ProperlyAdmitted, Seated
    <2> QED
      BY <1>0, <1>7, <2>1, <2>2, <2>3, RowChanged DEF Sit
  <1>8. ASSUME NEW a, NEW m \in Members, Promote(a, m) PROVE TopicsInv'
    BY <1>7, <1>8 DEF Promote
  <1>9. ASSUME NEW a, NEW m \in Members, Demote(a, m) PROVE TopicsInv'
    BY <1>7, <1>9 DEF Demote, Admins, Seated
  <1>10. ASSUME NEW a, NEW m \in Members, NEW until \in 1..Forever, BanFromTopic(a, m, until)
         PROVE  TopicsInv'
    <2>1. TopicsTyped'
      <3>1. ban' \in [Members -> [status : {"none", "active", "lifted"}, until : 0..Forever]]
        BY <1>0, <1>10 DEF BanFromTopic, Forever, TopicsAssumption
      <3>2. seat' \in [Members -> Place] /\ came' \in [Members -> Way]
        <4>1. [role |-> "member", status |-> "removed"] \in Place /\ Nohow \in Way
          BY DEF Place, Way
        <4>2. CASE seat[m].status # "none"
          BY <1>0, <1>10, <4>1, <4>2 DEF BanFromTopic, Sit, Out
        <4>3. CASE seat[m].status = "none"
          BY <1>0, <1>10, <4>3 DEF BanFromTopic
        <4> QED
          BY <4>2, <4>3
      <3> QED
        BY <1>0, <1>10, <3>1, <3>2 DEF BanFromTopic, TopicsTyped, Place, Way, Forever
    <2>2. /\ \A n \in Members \ {m} : seat'[n] = seat[n] /\ came'[n] = came[n] /\ ban'[n] = ban[n]
          /\ seat'[m].status \in {"none", "removed"}
          /\ hour' = hour
      BY <1>0, <1>10 DEF BanFromTopic, Sit, Out
    <2>3. Administered'
      <3>1. PICK n \in Admins : n # m
        BY <1>10, AnotherAdmin DEF BanFromTopic
      <3>2. n \in Admins'
        BY <2>2, <3>1 DEF Admins
      <3> QED
        BY <3>2 DEF Administered
    <2>4. BannedOutside'
      BY <2>2 DEF TopicsInv, TopicsSound, BannedOutside, Banned
    <2>5. ProperlyAdmitted' /\ RequestsKnown'
      BY <2>2 DEF TopicsInv, TopicsSound, ProperlyAdmitted, Seated, RequestsKnown
    <2> QED
      BY <2>1, <2>3, <2>4, <2>5 DEF TopicsInv, TopicsSound
  <1>11. ASSUME NEW a, NEW m \in Members, Unban(a, m) PROVE TopicsInv'
    <2>1. /\ ban' \in [Members -> [status : {"none", "active", "lifted"}, until : 0..Forever]]
          /\ \A n \in Members : ban'[n].status = "active" => ban'[n] = ban[n]
      BY <1>0, <1>11 DEF Unban
    <2>2. TopicsTyped'
      BY <1>0, <1>11, <2>1 DEF Unban, TopicsTyped, Place, Way, Forever
    <2>3. BannedOutside'
      BY <1>11, <2>1 DEF Unban, TopicsInv, TopicsSound, BannedOutside, Banned
    <2> QED
      BY <1>11, <2>2, <2>3 DEF Unban, TopicsInv, TopicsSound, Administered, Admins, ProperlyAdmitted,
                               Seated, RequestsKnown
  <1>12. ASSUME NEW a, NEW policy \in Entries, SetEntry(a, policy) PROVE TopicsInv'
    BY <1>12 DEF SetEntry, TopicsInv, TopicsSound, TopicsTyped, Forever, Administered, Admins,
                 BannedOutside, Banned, ProperlyAdmitted, Seated, RequestsKnown
  <1>13. ASSUME NEW m \in Members, NEW replace \in BOOLEAN, Appoint(m, replace) PROVE TopicsInv'
    <2>1. /\ seat' \in [Members -> Place]
          /\ seat'[m] = [role |-> "admin", status |-> "active"]
          /\ \A n \in Members \ {m} : seat'[n].status = seat[n].status
      BY <1>0, <1>13 DEF Appoint, Place
    <2>2. /\ came' \in [Members -> Way] /\ came'[m].appointed
          /\ \A n \in Members \ {m} : came'[n] = came[n]
      BY <1>0, <1>13 DEF Appoint, Way
    <2>3. TopicsTyped' /\ m \in Admins'
      BY <1>0, <1>13, <2>1, <2>2 DEF Appoint, TopicsTyped, Place, Way, Admins, Forever
    <2>4. BannedOutside'
      BY <1>13, <2>1 DEF Appoint, TopicsInv, TopicsSound, BannedOutside, Banned
    <2>5. ProperlyAdmitted' /\ RequestsKnown'
      BY <2>1, <2>2 DEF TopicsInv, TopicsSound, ProperlyAdmitted, Seated, RequestsKnown
    <2> QED
      BY <2>3, <2>4, <2>5 DEF TopicsInv, TopicsSound, Administered
  <1>14. ASSUME HourPasses PROVE TopicsInv'
    <2>1. TopicsTyped'
      BY <1>0, <1>14 DEF HourPasses, TopicsTyped, Place, Way, Forever, TopicsAssumption
    <2>2. BannedOutside'
      BY <1>0, <1>14 DEF HourPasses, TopicsInv, TopicsSound, BannedOutside, Banned, Forever,
                         TopicsAssumption
    <2> QED
      BY <1>14, <2>1, <2>2 DEF HourPasses, TopicsInv, TopicsSound, Administered, Admins,
                               ProperlyAdmitted, Seated, RequestsKnown
  <1> QED
    BY <1>1, <1>3, <1>4, <1>5, <1>6, <1>8, <1>9, <1>10, <1>11, <1>12, <1>13, <1>14 DEF NextTopics

(* A topic always has an administrator, whoever is banned is wholly outside,   *)
(* and every seat was asked for and granted since its holder was last out      *)
(* (plugins/content.py, topic_join to topic_policy_set).                       *)
THEOREM TopicsAlwaysSound == ASSUME TopicsAssumption PROVE TopicsSpec => []TopicsSound
  <1>1. InitTopics => TopicsInv
    BY TopicsInit
  <1>2. TopicsInv /\ [NextTopics]_topics_vars => TopicsInv'
    <2>1. CASE NextTopics
      BY <2>1, TopicsStep
    <2>2. CASE UNCHANGED topics_vars
      BY <2>2 DEF topics_vars, TopicsInv, TopicsSound, TopicsTyped, Administered, Admins,
                  BannedOutside, Banned, ProperlyAdmitted, Seated, RequestsKnown, Forever
    <2> QED
      BY <2>1, <2>2
  <1>3. TopicsInv => TopicsSound
    BY DEF TopicsInv
  <1> QED
    BY <1>1, <1>2, <1>3, PTL DEF TopicsSpec

HIDE DEF Seat, Nohow, States, Entries
-----------------------------------------------------------------------------
(* Groups.                                                                     *)
USE DEF Active, HasRow, Rolled, NoRow, Ranks, Standings, Policies

LEMMA GroupsInit == ASSUME GroupsAssumption, InitGroups PROVE GroupsSound
  BY DEF GroupsAssumption, InitGroups, GroupsSound, GroupsTyped, OneOwner, Consented, RequestsOwn

(* A row of somebody else than the owner may get any rank but the owner's, and *)
(* be active if it was, or if its subject asked or is put in.                  *)
LEMMA RowSet ==
    ASSUME GroupsSound, NEW t \in Persons, t # chief,
           NEW rank \in {"member", "maintainer"}, NEW standing \in Standings,
           Set(t, rank, standing), chief' = chief,
           admission' \in Policies, willing' \subseteq Persons, placed' \subseteq Persons,
           willing \ {t} \subseteq willing', placed \ {t} \subseteq placed',
           standing = "active" => t \in willing' \cup placed',
           standing = "pending" => t \in willing'
    PROVE  GroupsSound'
  <1>1. roll' = [roll EXCEPT ![t] = [rank |-> rank, standing |-> standing]]
    BY DEF Set
  <1>2. /\ roll'[t] = [rank |-> rank, standing |-> standing]
        /\ \A p \in Persons \ {t} : roll'[p] = roll[p]
        /\ roll' \in [Persons -> [rank : Ranks, standing : Standings]]
    BY <1>1 DEF GroupsSound, GroupsTyped
  <1>3. GroupsTyped'
    BY <1>2 DEF GroupsSound, GroupsTyped
  <1>4. OneOwner'
    BY <1>2 DEF GroupsSound, OneOwner, GroupsTyped
  <1>5. Consented' /\ RequestsOwn'
    BY <1>2 DEF GroupsSound, Consented, RequestsOwn
  <1> QED
    BY <1>3, <1>4, <1>5 DEF GroupsSound

(* remove_group_member() of somebody else than the owner.                      *)
LEMMA RowStruck ==
    ASSUME GroupsSound, NEW t \in Persons, t # chief, Struck(t),
           UNCHANGED <<chief, admission>>
    PROVE  GroupsSound'
  <1>1. Set(t, "member", "none") /\ willing' = willing \ {t} /\ placed' = placed \ {t}
    BY DEF Struck, Gone, Set
  <1> QED
    BY <1>1, RowSet DEF GroupsSound, GroupsTyped

(* No operation of a group breaks GroupsSound.                                 *)
LEMMA GroupsStep == ASSUME GroupsSound, NextGroups PROVE GroupsSound'
  <1> USE DEF GroupsSound, GroupsTyped
  <1>0. Active(chief) /\ chief \in Persons
    BY DEF OneOwner
  <1>1. ASSUME NEW p \in Persons, JoinGroup(p) PROVE GroupsSound'
    <2>1. PICK standing \in {"pending", "active"} : Set(p, "member", standing)
      BY <1>1 DEF JoinGroup
    <2>2. p # chief /\ p \in willing'
      BY <1>0, <1>1 DEF JoinGroup
    <2> QED
      BY <1>1, <2>1, <2>2, RowSet DEF JoinGroup
  <1>2. ASSUME NEW p \in Persons, LeaveGroup(p) PROVE GroupsSound'
    BY <1>2, RowStruck DEF LeaveGroup
  <1>3. ASSUME NEW a \in Persons, NEW t \in Persons, AddMember(a, t) PROVE GroupsSound'
    <2>1. t # chief
      BY <1>3 DEF AddMember, MayTouch
    <2>2. CASE NeedsAcceptance(t)
      BY <1>3, <2>1, <2>2, RowSet DEF AddMember
    <2>3. CASE ~NeedsAcceptance(t)
      <3>1. Set(t, "member", "active") /\ t \in willing' \cup placed'
        BY <1>3, <2>3 DEF AddMember, Consented
      <3> QED
        BY <1>3, <2>1, <2>3, <3>1, RowSet DEF AddMember
    <2> QED
      BY <2>2, <2>3
  <1>4. ASSUME NEW a \in Persons, NEW t \in Persons, AddMaintainer(a, t) PROVE GroupsSound'
    <2>1. t # chief /\ Set(t, "maintainer", "active") /\ t \in willing' \cup placed'
      BY <1>4 DEF AddMaintainer, MayTouch, Consented
    <2> QED
      BY <1>4, <2>1, RowSet DEF AddMaintainer
  <1>5. ASSUME NEW a \in Persons, NEW t \in Persons, RemoveMaintainer(a, t) PROVE GroupsSound'
    BY <1>5, RowSet DEF RemoveMaintainer, MayTouch, Consented
  <1>6. ASSUME NEW a \in Persons, NEW t \in Persons, RemoveMember(a, t) PROVE GroupsSound'
    BY <1>6, RowStruck DEF RemoveMember, MayTouch
  <1>7. ASSUME NEW a \in Persons, NEW t \in Persons, InviteMember(a, t) PROVE GroupsSound'
    BY <1>0, <1>7, RowSet DEF InviteMember
  <1>8. ASSUME NEW a \in Persons, NEW t \in Persons, ApproveMember(a, t) PROVE GroupsSound'
    BY <1>0, <1>8, RowSet DEF ApproveMember, RequestsOwn
  <1>9. ASSUME NEW a \in Persons, NEW t \in Persons, RejectMember(a, t) PROVE GroupsSound'
    BY <1>0, <1>9, RowSet DEF RejectMember, Gone
  <1>10. ASSUME NEW a \in Persons, NEW t \in Persons, NEW rank \in {"member", "maintainer"},
                SetRole(a, t, rank)
         PROVE  GroupsSound'
    BY <1>10, RowSet DEF SetRole, Consented
  <1>11. ASSUME NEW a \in Persons, NEW policy \in Policies, SetPolicy(a, policy) PROVE GroupsSound'
    BY <1>11 DEF SetPolicy, OneOwner, Consented, RequestsOwn
  <1>12. ASSUME NEW a \in Persons, NEW t \in Persons, TransferGroup(a, t) PROVE GroupsSound'
    <2>1. /\ roll'[chief] = [rank |-> "maintainer", standing |-> "active"]
          /\ roll'[t] = [rank |-> "owner", standing |-> "active"]
          /\ \A p \in Persons \ {chief, t} : roll'[p] = roll[p]
          /\ roll' \in [Persons -> [rank : Ranks, standing : Standings]]
      BY <1>0, <1>12 DEF TransferGroup
    <2>2. GroupsTyped' /\ OneOwner'
      BY <1>0, <1>12, <2>1 DEF TransferGroup, OneOwner
    <2>3. Consented' /\ RequestsOwn'
      BY <1>0, <1>12, <2>1 DEF TransferGroup, Consented, RequestsOwn
    <2> QED
      BY <2>2, <2>3
  <1> QED
    BY <1>1, <1>2, <1>3, <1>4, <1>5, <1>6, <1>7, <1>8, <1>9, <1>10, <1>11, <1>12 DEF NextGroups

(* A group has exactly one owner, an active member, and nobody is a member of  *)
(* it who neither asked nor was put in while its policy allowed that           *)
(* (plugins/identity.py, group.create to group.owner_transfer).                *)
THEOREM GroupsAlwaysSound == ASSUME GroupsAssumption PROVE GroupsSpec => []GroupsSound
  <1>1. InitGroups => GroupsSound
    BY GroupsInit
  <1>2. GroupsSound /\ [NextGroups]_groups_vars => GroupsSound'
    <2>1. CASE NextGroups
      BY <2>1, GroupsStep
    <2>2. CASE UNCHANGED groups_vars
      BY <2>2 DEF groups_vars, GroupsSound, GroupsTyped, OneOwner, Consented, RequestsOwn
    <2> QED
      BY <2>1, <2>2
  <1> QED
    BY <1>1, <1>2, PTL DEF GroupsSpec
=============================================================================
