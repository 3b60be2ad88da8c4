---------------------------- MODULE RootRotation ----------------------------
(* Replacing the root key of an installation (admin/rotation.py).  A rotation  *)
(* touches a database, a key file, an archive and the public trust files, and  *)
(* a crash may come between any two of them; a journal, written first and      *)
(* removed last, is what a resumed rotation goes by.                           *)
EXTENDS Integers, FiniteSets

CONSTANTS
    Aliases,       \* the names under which the trust anchor may be published
    MaxRoot,       \* bound: rotations
    MaxSeal,       \* bound: changes of the PIN of one key
    MaxRotations   \* bound: runs of the command, resumed ones included

RotationAssumption ==
    /\ Aliases # {}
    /\ {MaxRoot, MaxSeal, MaxRotations} \subseteq Nat
ASSUME RotationAssumption

VARIABLES
    anchor,     \* database: the active root and the retired ones
    envelope,   \* key.json: the sealed private key
    archive,    \* history: [Roots -> the envelope a retired root had]
    trust,      \* [Aliases -> the root a trust file publishes]
    journal,    \* rotation.pending.json
    rotation,   \* the command at work
    past        \* history: how often the command ran, whether the first key was in its
                \* file, and whether a PIN was changed while a rotation was pending

rotation_vars == <<anchor, envelope, archive, trust, journal, rotation, past>>

Roots == 0..MaxRoot
NoRoot == -1
Envelopes == [root : Roots, seal : 0..MaxSeal]
NoEnvelope == [root |-> NoRoot, seal |-> 0]
NoJournal == [old |-> NoRoot, new |-> NoRoot, previous |-> NoEnvelope]

(* Its steps in their order; a crash or an error leaves it at "ended".         *)
Steps == {"ended", "checked", "switched", "archived", "installed"}
NoRotation == [step |-> "ended", journal |-> NoJournal, left |-> {}]

InitRotation ==
    /\ anchor = [active |-> 0, retired |-> {}]
    /\ envelope \in {NoEnvelope, [root |-> 0, seal |-> 0]}    \* the key may be kept elsewhere
    /\ archive = [r \in Roots |-> NoEnvelope]
    /\ \E published \in (SUBSET Aliases) \ {{}} :
          trust = [a \in Aliases |-> IF a \in published THEN 0 ELSE NoRoot]
    /\ journal = NoJournal /\ rotation = NoRotation
    /\ past = [runs |-> 0, held |-> envelope # NoEnvelope, repinned |-> FALSE]

RotationTyped ==
    /\ anchor.active \in Roots /\ anchor.retired \subseteq Roots \ {anchor.active}
    /\ envelope \in Envelopes \cup {NoEnvelope}
    /\ archive \in [Roots -> Envelopes \cup {NoEnvelope}]
    /\ trust \in [Aliases -> Roots \cup {NoRoot}]
    /\ journal = NoJournal \/ journal.new = journal.old + 1
    /\ rotation.step \in Steps /\ rotation.left \subseteq Aliases
    /\ past.runs \in 0..MaxRotations

Published == {a \in Aliases : trust[a] # NoRoot}

(* Application.load: the aliases agree and name a root that is not retired.    *)
Startable ==
    \E r \in Roots \ anchor.retired : Published # {} /\ \A a \in Published : trust[a] = r
-----------------------------------------------------------------------------
(* What complete() accepts before it changes anything: the key file is the one *)
(* the journal saw or the one it is about to install, the archive is empty or  *)
(* right, and every trust file names the old root or the new.                  *)

NewEnvelope(j) == [root |-> j.new, seal |-> 0]

KeyFileExpected(j) ==
    IF envelope = NoEnvelope THEN j.previous = NoEnvelope
                             ELSE envelope \in {j.previous, NewEnvelope(j)}

ArchiveExpected(j) ==
    IF archive[j.old] # NoEnvelope THEN archive[j.old] = j.previous
    ELSE j.previous # NoEnvelope => envelope = j.previous

TrustExpected(j) == Published # {} /\ \A a \in Published : trust[a] \in {j.old, j.new}

AnchorExpected(j) ==
    \/ anchor.active = j.old /\ j.old \notin anchor.retired
    \/ anchor.active = j.new /\ j.old \in anchor.retired

Completable(j) ==
    KeyFileExpected(j) /\ ArchiveExpected(j) /\ TrustExpected(j) /\ AnchorExpected(j)
-----------------------------------------------------------------------------
(* prepare(): the service loads and no journal is pending.  The old key    *)
(* proves itself or is declared lost; nothing that follows depends on which.   *)
Prepare ==
    /\ rotation.step = "ended" /\ journal = NoJournal /\ past.runs < MaxRotations
    /\ Startable /\ anchor.active < MaxRoot    \* bound
    /\ \E old \in {trust[a] : a \in Published} :
          /\ journal' = [old |-> old, new |-> old + 1, previous |-> envelope]
          /\ rotation' = [NoRotation EXCEPT !.step = "checked", !.journal = journal']
    /\ past' = [past EXCEPT !.runs = @ + 1]
    /\ UNCHANGED <<anchor, envelope, archive, trust>>

Resume ==
    /\ rotation.step = "ended" /\ journal # NoJournal /\ past.runs < MaxRotations
    /\ rotation' = [NoRotation EXCEPT !.step = "checked", !.journal = journal]
    /\ past' = [past EXCEPT !.runs = @ + 1]
    /\ UNCHANGED <<anchor, envelope, archive, trust, journal>>

(* The checks and the transaction.                                             *)
SwitchAnchor ==
    /\ rotation.step = "checked" /\ Completable(rotation.journal)
    /\ anchor' = IF anchor.active = rotation.journal.new THEN anchor
                 ELSE [active |-> rotation.journal.new,
                       retired |-> anchor.retired \cup {rotation.journal.old}]
    /\ rotation' = [rotation EXCEPT !.step = "switched"]
    /\ UNCHANGED <<envelope, archive, trust, journal, past>>

Archive_Skipped ==    \* mutant: the old key is not archived
    /\ rotation.step = "switched" /\ ArchiveExpected(rotation.journal)
    /\ rotation' = [rotation EXCEPT !.step = "archived"]
    /\ UNCHANGED <<anchor, envelope, archive, trust, journal, past>>

Archive ==
    /\ rotation.step = "switched" /\ ArchiveExpected(rotation.journal)
    /\ archive' = [archive EXCEPT ![rotation.journal.old] =
                      IF @ # NoEnvelope \/ rotation.journal.previous = NoEnvelope
                      THEN @ ELSE envelope]
    /\ rotation' = [rotation EXCEPT !.step = "archived"]
    /\ UNCHANGED <<anchor, envelope, trust, journal, past>>

InstallKey ==
    /\ rotation.step = "archived"
    /\ envelope' = NewEnvelope(rotation.journal)
    /\ rotation' = [rotation EXCEPT !.step = "installed", !.left = Published]
    /\ UNCHANGED <<anchor, archive, trust, journal, past>>

Publish(a) ==
    /\ rotation.step = "installed" /\ a \in rotation.left
    /\ trust' = [trust EXCEPT ![a] = rotation.journal.new]
    /\ rotation' = [rotation EXCEPT !.left = @ \ {a}]
    /\ UNCHANGED <<anchor, envelope, archive, journal, past>>

RemoveJournal ==
    /\ rotation.step = "installed" /\ rotation.left = {}
    /\ journal' = NoJournal
    /\ rotation' = NoRotation
    /\ UNCHANGED <<anchor, envelope, archive, trust, past>>

(* The process dies, or a check refuses.                                       *)
Abort ==
    /\ rotation.step # "ended"
    /\ rotation' = NoRotation
    /\ UNCHANGED <<anchor, envelope, archive, trust, journal, past>>

(* root change-pin takes no lock and does not look at the journal.  Its key    *)
(* file is read and written in one step here; see the README.                  *)
ChangePin ==
    /\ envelope # NoEnvelope /\ envelope.seal < MaxSeal    \* bound
    /\ envelope' = [envelope EXCEPT !.seal = @ + 1]
    /\ past' = [past EXCEPT !.repinned = @ \/ journal # NoJournal]
    /\ UNCHANGED <<anchor, archive, trust, journal, rotation>>

NextRotation ==
    \/ Prepare \/ Resume \/ SwitchAnchor \/ Archive \/ InstallKey
    \/ \E a \in Aliases : Publish(a)
    \/ RemoveJournal \/ Abort \/ ChangePin

RotationSpec == InitRotation /\ [][NextRotation]_rotation_vars
-----------------------------------------------------------------------------
(* A rotation that was begun can be completed from wherever it was cut off,    *)
(* unless the PIN was changed under it: the journal knows the key file by its   *)
(* digest (_complete compares it before anything else).                        *)
RotationResumable ==
    journal # NoJournal => past.repinned \/ Completable(journal)

(* Without a journal nothing is half done: the service starts, its anchor is   *)
(* the one in the database and the key file, if there is one, opens it.        *)
NothingHalfDone ==
    journal = NoJournal =>
        /\ Startable /\ \A a \in Published : trust[a] = anchor.active
        /\ envelope = NoEnvelope \/ envelope.root = anchor.active

(* The database never takes over a root whose key could be lost: the key of    *)
(* the active root is in its file or in the journal, and a retired key is in   *)
(* the archive unless there was none, or still in its file.                    *)
KeysKept ==
    /\ anchor.active > 0 => envelope.root = anchor.active \/ journal.new = anchor.active
    /\ \A r \in anchor.retired : r # 0 \/ past.held => archive[r].root = r \/ envelope.root = r

(* A rotation can always be taken up again, leaves nothing half done and   *)
(* loses no key.                                                           *)
RotationSound == KeysKept /\ RotationResumable /\ NothingHalfDone
=============================================================================
