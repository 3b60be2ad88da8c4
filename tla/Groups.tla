------------------------------- MODULE Groups -------------------------------
(* One organization group: its owner, its membership policy and the rows of    *)
(* table memberships (plugins/identity.py, group.create to owner_transfer).    *)
(* An action is one transaction.  Who may call an operation at all, by the     *)
(* modes of the group's resource, is left open; who may change whom is not.    *)
EXTENDS Integers, FiniteSets

CONSTANTS
    Persons,      \* registered subjects
    Founder,      \* who created the group
    Overriders    \* holders of the capability group.manage_override

GroupsAssumption == Founder \in Persons /\ Overriders \subseteq Persons
ASSUME GroupsAssumption

VARIABLES
    chief,        \* the owner of the organization's resource
    admission,    \* membership_policy
    roll,         \* [Persons -> the row of memberships, "none" where there is none]
    willing,      \* history: who asked to be a member since it was last out
    placed        \* history: who was put in while the policy let managers do so

groups_vars == <<chief, admission, roll, willing, placed>>

Ranks     == {"member", "maintainer", "owner"}
Standings == {"none", "active", "invited", "pending", "rejected"}
Policies  == {"open", "approval", "invite", "managed"}

Rolled(rank, standing) == [rank |-> rank, standing |-> standing]
NoRow == Rolled("member", "none")

InitGroups ==
    /\ chief = Founder
    /\ admission = "invite"
    /\ roll = [p \in Persons |-> IF p = Founder THEN Rolled("owner", "active") ELSE NoRow]
    /\ willing = {Founder}
    /\ placed = {}

GroupsTyped ==
    /\ chief \in Persons
    /\ admission \in Policies
    /\ roll \in [Persons -> [rank : Ranks, standing : Standings]]
    /\ willing \subseteq Persons /\ placed \subseteq Persons
-----------------------------------------------------------------------------
Active(p)   == roll[p].standing = "active"
HasRow(p)   == roll[p].standing # "none"
Maintains(p) == Active(p) /\ roll[p].rank \in {"owner", "maintainer"}

(* group_context() and group_manager(): the owner is whom the resource names;  *)
(* an override stands in for the owner, but not where only the owner may act.  *)
Owns(a)    == a = chief
Manages(a) == Owns(a) \/ Maintains(a) \/ a \in Overriders
Commands(a) == Owns(a) \/ a \in Overriders

(* A row of somebody else than the owner, that of a maintainer only by whom    *)
(* commands.                                                                   *)
MayTouch(a, t) == Manages(a) /\ t # chief /\ (Maintains(t) => Commands(a))

Set(t, rank, standing) == roll' = [roll EXCEPT ![t] = Rolled(rank, standing)]

Gone(t) ==
    /\ willing' = willing \ {t}
    /\ placed' = placed \ {t}

(* remove_group_member().                                                      *)
Struck(t) == HasRow(t) /\ roll' = [roll EXCEPT ![t] = NoRow] /\ Gone(t)

NeedsAcceptance(t) == admission \in {"invite", "approval"} /\ ~Active(t)

(* group.member.add: a member, or an invitation where the policy asks for it.  *)
AddMember(a, t) ==
    /\ MayTouch(a, t)
    /\ Set(t, "member", IF NeedsAcceptance(t) THEN "invited" ELSE "active")
    /\ placed' = IF NeedsAcceptance(t) \/ Active(t) THEN placed ELSE placed \cup {t}
    /\ UNCHANGED <<chief, admission, willing>>

(* group.admin.add.                                                            *)
AddMaintainer(a, t) ==
    /\ MayTouch(a, t) /\ Commands(a) /\ ~NeedsAcceptance(t)
    /\ Set(t, "maintainer", "active")
    /\ placed' = IF Active(t) THEN placed ELSE placed \cup {t}
    /\ UNCHANGED <<chief, admission, willing>>

(* group.admin.remove.                                                         *)
RemoveMaintainer(a, t) ==
    /\ MayTouch(a, t) /\ Active(t) /\ roll[t].rank = "maintainer"
    /\ Set(t, "member", "active")
    /\ UNCHANGED <<chief, admission, willing, placed>>

(* group.member.remove and group.remove.                                       *)
RemoveMember(a, t) ==
    /\ MayTouch(a, t) /\ Struck(t)
    /\ UNCHANGED <<chief, admission>>

(* group.policy_set.                                                           *)
SetPolicy(a, policy) ==
    /\ Owns(a) /\ policy # admission
    /\ admission' = policy
    /\ UNCHANGED <<chief, roll, willing, placed>>

(* group.join.                                                                 *)
JoinGroup(p) ==
    /\ admission \in {"open", "approval", "invite"} /\ ~Active(p)
    /\ admission = "invite" => roll[p].standing = "invited"
    /\ Set(p, "member",
           IF admission = "approval" /\ roll[p].standing # "invited" THEN "pending" ELSE "active")
    /\ willing' = willing \cup {p}
    /\ UNCHANGED <<chief, admission, placed>>

(* group.invite: also whoever has asked or was rejected.                       *)
InviteMember(a, t) ==
    /\ Manages(a) /\ ~Active(t)
    /\ Set(t, "member", "invited")
    /\ UNCHANGED <<chief, admission, willing, placed>>

(* group.approve.                                                              *)
ApproveMember(a, t) ==
    /\ Manages(a) /\ roll[t].standing = "pending"
    /\ Set(t, "member", "active")
    /\ UNCHANGED <<chief, admission, willing, placed>>

(* group.reject.                                                               *)
RejectMember(a, t) ==
    /\ Manages(a) /\ roll[t].standing = "pending"
    /\ Set(t, "member", "rejected") /\ Gone(t)
    /\ UNCHANGED <<chief, admission>>

(* group.leave: also who is only invited, pending or rejected.                 *)
LeaveGroup(p) ==
    /\ p # chief /\ Struck(p)
    /\ UNCHANGED <<chief, admission>>

(* group.role_set.                                                             *)
SetRole(a, t, rank) ==
    /\ Owns(a) /\ t # chief /\ Active(t)
    /\ Set(t, rank, "active")
    /\ UNCHANGED <<chief, admission, willing, placed>>

TransferGroup_Resource(a, t) ==    \* mutant: the old owner's row is left as it is
    /\ Owns(a) /\ t # chief /\ Active(t) /\ Active(a)
    /\ Set(t, "owner", "active")
    /\ chief' = t
    /\ UNCHANGED <<admission, willing, placed>>

(* group.owner_transfer: the rows of both and the resource change together.    *)
TransferGroup(a, t) ==
    /\ Owns(a) /\ t # chief /\ Active(t) /\ Active(a)
    /\ roll' = [roll EXCEPT ![chief] = Rolled("maintainer", "active"), ![t] = Rolled("owner", "active")]
    /\ chief' = t
    /\ UNCHANGED <<admission, willing, placed>>

NextGroups ==
    \/ \E p \in Persons : JoinGroup(p) \/ LeaveGroup(p)
    \/ \E a, t \in Persons :
          \/ AddMember(a, t) \/ AddMaintainer(a, t) \/ RemoveMaintainer(a, t) \/ RemoveMember(a, t)
          \/ InviteMember(a, t) \/ ApproveMember(a, t) \/ RejectMember(a, t)
          \/ TransferGroup(a, t)
          \/ \E rank \in {"member", "maintainer"} : SetRole(a, t, rank)
    \/ \E a \in Persons, policy \in Policies : SetPolicy(a, policy)

GroupsSpec == InitGroups /\ [][NextGroups]_groups_vars
-----------------------------------------------------------------------------
(* The owner of the resource is the one member with the owner's rank, through  *)
(* every transfer, removal, invitation and change of roles.                    *)
OneOwner ==
    /\ Active(chief)
    /\ \A p \in Persons : roll[p].rank = "owner" <=> p = chief

(* Nobody is a member against its will: it asked, and was not turned away      *)
(* since, or was put in while the policy was open or managed.                  *)
Consented == \A p \in Persons : Active(p) => p \in willing \cup placed

(* A request or a refusal belongs to somebody who asked, or did.               *)
RequestsOwn == \A p \in Persons : roll[p].standing = "pending" => p \in willing

(* A group has one owner, and members of their own accord.                     *)
GroupsSound == GroupsTyped /\ OneOwner /\ Consented /\ RequestsOwn
=============================================================================
