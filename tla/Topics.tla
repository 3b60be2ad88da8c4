------------------------------- MODULE Topics -------------------------------
(* The membership of one topic: tables topic_memberships, topic_bans and       *)
(* topic_settings (plugins/content.py, topic_create to topic_policy_set), and  *)
(* the operator's appointment of an administrator (admin/boards.py).  An       *)
(* action is one transaction.  The root subject is an administrator of every   *)
(* topic without a row.                                                        *)
EXTENDS Integers, FiniteSets

CONSTANTS
    Members,      \* registered subjects
    Creator,      \* who created the topic
    Root,         \* the root subject
    LastHour      \* bound: the clock stops

TopicsAssumption ==
    /\ IsFiniteSet(Members) /\ Creator \in Members /\ Root \notin Members /\ LastHour \in Nat
ASSUME TopicsAssumption

VARIABLES
    hour,         \* the clock
    entry,        \* membership_policy
    seat,         \* [Members -> the row of topic_memberships]
    ban,          \* [Members -> the row of topic_bans]
    came          \* history: [Members -> how it came to its seat]

topics_vars == <<hour, entry, seat, ban, came>>

Entries == {"open", "approval", "invite", "closed"}
States  == {"none", "active", "pending", "invited", "left", "removed"}
Forever == LastHour + 1

Seat(role, status) == [role |-> role, status |-> status]

(* asked: joined itself; free: while the topic was open; let: an administrator *)
(* invited or approved it; appointed: by the operator, or as the creator.      *)
Nohow == [asked |-> FALSE, free |-> FALSE, let |-> FALSE, appointed |-> FALSE]

InitTopics ==
    /\ hour = 0
    /\ entry = "open"
    /\ seat = [m \in Members |-> IF m = Creator THEN Seat("admin", "active") ELSE Seat("member", "none")]
    /\ ban = [m \in Members |-> [status |-> "none", until |-> 0]]
    /\ came = [m \in Members |-> [Nohow EXCEPT !.appointed = (m = Creator)]]

TopicsTyped ==
    /\ hour \in 0..LastHour
    /\ entry \in Entries
    /\ seat \in [Members -> [role : {"member", "admin"}, status : States]]
    /\ ban \in [Members -> [status : {"none", "active", "lifted"}, until : 0..Forever]]
    /\ came \in [Members -> [asked : BOOLEAN, free : BOOLEAN, let : BOOLEAN, appointed : BOOLEAN]]
-----------------------------------------------------------------------------
Seated(m) == seat[m].status = "active"
Admins    == {m \in Members : seat[m] = Seat("admin", "active")}
Governs(a) == a = Root \/ a \in Admins

(* active_topic_ban().                                                         *)
Banned(m) == ban[m].status = "active" /\ ban[m].until > hour

Sit(m, role, status) == seat' = [seat EXCEPT ![m] = Seat(role, status)]
Out(m) == came' = [came EXCEPT ![m] = Nohow]

(* topic_leave, topic_remove, topic_demote and topic_ban count before they     *)
(* take an administrator away.                                                 *)
NotLast(m) == m \in Admins => Cardinality(Admins) > 1

(* topic_join.                                                                 *)
JoinTopic(m) ==
    /\ ~Banned(m) /\ seat[m].status \notin {"active", "pending"}
    /\ \/ entry \in {"open", "approval"}
       \/ entry = "invite" /\ seat[m].status = "invited"
    /\ Sit(m, "member",
           IF entry = "approval" /\ seat[m].status # "invited" THEN "pending" ELSE "active")
    /\ came' = [came EXCEPT ![m].asked = TRUE, ![m].free = (@ \/ entry = "open")]
    /\ UNCHANGED <<hour, entry, ban>>

(* topic_leave.                                                                *)
LeaveTopic(m) ==
    /\ seat[m].status \in {"active", "pending", "invited"} /\ NotLast(m)
    /\ Sit(m, "member", "left") /\ Out(m)
    /\ UNCHANGED <<hour, entry, ban>>

(* topic_invite.                                                               *)
InviteToTopic(a, m) ==
    /\ Governs(a) /\ ~Banned(m)
    /\ seat[m].status \notin {"active", "pending", "invited"}
    /\ Sit(m, "member", "invited")
    /\ came' = [came EXCEPT ![m].let = TRUE]
    /\ UNCHANGED <<hour, entry, ban>>

(* topic_approve: the role of a pending row stays.                             *)
ApproveForTopic(a, m) ==
    /\ Governs(a) /\ ~Banned(m) /\ seat[m].status = "pending"
    /\ Sit(m, seat[m].role, "active")
    /\ came' = [came EXCEPT ![m].let = TRUE]
    /\ UNCHANGED <<hour, entry, ban>>

(* topic_remove.                                                               *)
RemoveFromTopic(a, m) ==
    /\ Governs(a) /\ Seated(m) /\ NotLast(m)
    /\ Sit(m, "member", "removed") /\ Out(m)
    /\ UNCHANGED <<hour, entry, ban>>

(* topic_promote.                                                              *)
Promote(a, m) ==
    /\ Governs(a) /\ Seated(m) /\ seat[m].role = "member"
    /\ Sit(m, "admin", "active")
    /\ UNCHANGED <<hour, entry, ban, came>>

(* topic_demote.                                                               *)
Demote(a, m) ==
    /\ Governs(a) /\ m \in Admins /\ NotLast(m)
    /\ Sit(m, "member", "active")
    /\ UNCHANGED <<hour, entry, ban, came>>

BanFromTopic_Pending(a, m, until) ==    \* mutant: only a seat is taken away, not a request or invitation
    /\ Governs(a) /\ NotLast(m) /\ until > hour
    /\ ban' = [ban EXCEPT ![m] = [status |-> "active", until |-> until]]
    /\ IF Seated(m) THEN Sit(m, "member", "removed") /\ Out(m) ELSE UNCHANGED <<seat, came>>
    /\ UNCHANGED <<hour, entry>>

(* topic_ban: whatever the row is, it is removed with the ban.                 *)
BanFromTopic(a, m, until) ==
    /\ Governs(a) /\ NotLast(m) /\ until > hour
    /\ ban' = [ban EXCEPT ![m] = [status |-> "active", until |-> until]]
    /\ IF seat[m].status # "none" THEN Sit(m, "member", "removed") /\ Out(m)
       ELSE UNCHANGED <<seat, came>>
    /\ UNCHANGED <<hour, entry>>

(* topic_unban: the seat is not given back.                                    *)
Unban(a, m) ==
    /\ Governs(a) /\ ban[m].status = "active"
    /\ ban' = [ban EXCEPT ![m].status = "lifted"]
    /\ UNCHANGED <<hour, entry, seat, came>>

(* topic_policy_set.                                                           *)
SetEntry(a, policy) ==
    /\ Governs(a)
    /\ entry' = policy
    /\ UNCHANGED <<hour, seat, ban, came>>

(* appoint_administrator(): with replace, the others first become members.     *)
Appoint(m, replace) ==
    /\ ~Banned(m)
    /\ seat' = [n \in Members |->
                   IF n = m THEN Seat("admin", "active")
                   ELSE IF replace THEN Seat("member", seat[n].status) ELSE seat[n]]
    /\ came' = [came EXCEPT ![m].appointed = TRUE]
    /\ UNCHANGED <<hour, entry, ban>>

HourPasses ==
    /\ hour < LastHour    \* bound
    /\ hour' = hour + 1
    /\ UNCHANGED <<entry, seat, ban, came>>

NextTopics ==
    \/ \E m \in Members :
          JoinTopic(m) \/ LeaveTopic(m) \/ \E replace \in BOOLEAN : Appoint(m, replace)
    \/ \E a \in Members \cup {Root} :
          \/ \E m \in Members :
                \/ InviteToTopic(a, m) \/ ApproveForTopic(a, m) \/ RemoveFromTopic(a, m)
                \/ Promote(a, m) \/ Demote(a, m) \/ Unban(a, m)
                \/ \E until \in 1..Forever : BanFromTopic(a, m, until)
          \/ \E policy \in Entries : SetEntry(a, policy)
    \/ HourPasses

TopicsSpec == InitTopics /\ [][NextTopics]_topics_vars
-----------------------------------------------------------------------------
(* A topic is never left without an administrator of its own: leaving,         *)
(* removing, demoting, banning and replacing each keep one.                    *)
Administered == Admins # {}

(* Whoever is banned holds no seat, request or invitation that a later act     *)
(* could turn into a seat; when a ban has run out or was lifted it starts      *)
(* anew.                                                                       *)
BannedOutside == \A m \in Members : Banned(m) => seat[m].status \notin {"active", "pending", "invited"}

(* A seat was asked for, and was free to take or granted by an administrator,  *)
(* since its holder was last out: what was granted before a ban or a removal   *)
(* does not count.                                                             *)
ProperlyAdmitted ==
    \A m \in Members : Seated(m) =>
        came[m].appointed \/ (came[m].asked /\ (came[m].free \/ came[m].let))

(* A topic has an administrator, and only admitted members that are not      *)
(* banned.                                                                     *)
TopicsSound == TopicsTyped /\ Administered /\ BannedOutside /\ ProperlyAdmitted
=============================================================================
