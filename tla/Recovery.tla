------------------------------ MODULE Recovery ------------------------------
(* Restoring a backup and bringing it back into service (admin/backups.py,     *)
(* admin/recovery_proof.py, security/quarantine.py).  A restored database      *)
(* comes up behind a gate in the database and a marker beside its files; the   *)
(* console lifts both after it has compared everything with a signed proof of  *)
(* the source.  Every process pins the runtime generation it was started under *)
(* and a promotion changes it, so that no process outlives one.                *)
EXTENDS Integers, FiniteSets

CONSTANTS
    Procs,         \* service and worker processes
    MaxRestores, MaxProofs, MaxData   \* bounds

RecoveryAssumption == {MaxRestores, MaxProofs, MaxData} \subseteq Nat
ASSUME RecoveryAssumption

VARIABLES
    database,   \* what the connection string leads to
    site,       \* the installation beside it: how often restored, how far, its marker
    copies,     \* backups, the last one numbered Len
    proof,      \* the signed proof of a source's state, for one backup
    process,    \* [Procs -> a running process]
    promoter    \* the console command at work

recovery_vars == <<database, site, copies, proof, process, promoter>>

NoReceipt == [proof |-> 0, generation |-> 0]
NoProof   == [id |-> 0, backup |-> 0, data |-> 0, generation |-> 0]
Down      == [phase |-> "down", home |-> 0, generation |-> 0, stale |-> FALSE,
              quarantined |-> FALSE, since |-> 0]

InitRecovery ==
    /\ database = [generation |-> 0, gate |-> 0, receipt |-> NoReceipt, data |-> 0]
    /\ site = [home |-> 0, ready |-> TRUE, marker |-> FALSE, opened |-> 0, fresh |-> 1]
    /\ copies = [n \in 1..MaxProofs |-> database]
    /\ proof = NoProof
    /\ process = [p \in Procs |-> Down]
    /\ promoter = "idle"

RecoveryTyped ==
    /\ database.gate \in 0..MaxProofs /\ database.data \in 0..MaxData
    /\ database.generation < site.fresh
    /\ site.home \in 0..MaxRestores /\ site.opened \in 0..site.home
    /\ proof.id \in 0..MaxProofs
    /\ promoter \in {"idle", "recorded", "unlinked"}
    /\ \A p \in Procs : process[p].phase \in {"down", "loading", "up", "checked"}

Gated == database.gate # 0
WritesLocked == promoter = "unlinked"    \* inside the command's second transaction
-----------------------------------------------------------------------------
(* The source: a backup is taken, then the state is proved complete for it.    *)
BackupAndProve ==
    /\ ~Gated /\ ~site.marker /\ site.ready /\ proof.id < MaxProofs    \* bound
    /\ copies' = [copies EXCEPT ![proof.id + 1] = database]
    /\ proof' = [id |-> proof.id + 1, backup |-> proof.id + 1,
                 data |-> database.data, generation |-> database.generation]
    /\ UNCHANGED <<database, site, process, promoter>>

(* restore(): the dump and the gate in one commit, then the marker in a new    *)
(* directory, then the rest; the old processes keep their own directories.     *)
RestoreDatabase ==
    /\ promoter = "idle" /\ proof.id > 0 /\ site.home < MaxRestores    \* bound
    /\ database' = [copies[proof.backup] EXCEPT !.gate = proof.backup]
    /\ site' = [site EXCEPT !.home = @ + 1, !.ready = FALSE, !.marker = FALSE]
    /\ UNCHANGED <<copies, proof, process, promoter>>

RestoreFiles ==
    /\ ~site.ready
    /\ site' = [site EXCEPT !.marker = TRUE, !.ready = TRUE]
    /\ UNCHANGED <<database, copies, proof, process, promoter>>
-----------------------------------------------------------------------------
(* promote(): the first transaction checks everything and records a receipt    *)
(* with a new generation, or finds the receipt of an earlier run.              *)

AsProved == database.data = proof.data /\ database.gate = proof.backup
Pending  == Gated /\ proof.id > 0 /\ database.receipt.proof = proof.id

Resumable == Pending /\ AsProved /\ database.generation = database.receipt.generation

Record_SameGeneration ==    \* mutant: the generation is not changed
    /\ promoter = "idle" /\ site.ready /\ Gated /\ proof.id > 0
    /\ ~Pending /\ site.marker /\ AsProved /\ database.generation = proof.generation
    /\ database' = [database EXCEPT !.receipt = [proof |-> proof.id, generation |-> @.generation]]
    /\ promoter' = "recorded"
    /\ UNCHANGED <<site, copies, proof, process>>

Record ==
    /\ promoter = "idle" /\ site.ready /\ Gated /\ proof.id > 0
    /\ ~Pending /\ site.marker /\ AsProved /\ database.generation = proof.generation
    /\ database' = [database EXCEPT !.generation = site.fresh,
                        !.receipt = [proof |-> proof.id, generation |-> site.fresh]]
    /\ site' = [site EXCEPT !.fresh = @ + 1]
    /\ promoter' = "recorded"
    /\ UNCHANGED <<copies, proof, process>>

ResumeRecorded ==
    /\ promoter = "idle" /\ site.ready /\ Resumable
    /\ promoter' = "recorded"
    /\ UNCHANGED <<database, site, copies, proof, process>>

(* The second transaction: everything is compared again, the marker goes and   *)
(* is synced, and the gate goes with the commit.                               *)
Unlink ==
    /\ promoter = "recorded" /\ Resumable
    /\ site' = [site EXCEPT !.marker = FALSE]
    /\ promoter' = "unlinked"
    /\ UNCHANGED <<database, copies, proof, process>>

Open ==
    /\ promoter = "unlinked"
    /\ database' = [database EXCEPT !.gate = 0]
    /\ site' = [site EXCEPT !.opened = site.home]
    /\ promoter' = "idle"
    /\ UNCHANGED <<copies, proof, process>>

(* It dies, or a check refuses; an open transaction is rolled back.            *)
PromoterEnds ==
    /\ promoter # "idle"
    /\ promoter' = "idle"
    /\ UNCHANGED <<database, site, copies, proof, process>>
-----------------------------------------------------------------------------
(* Processes.                                                                  *)

Marked(p) == site.marker /\ process[p].home = site.home

(* load(): the generation is pinned in one transaction ...                     *)
Capture(p) ==
    /\ process[p].phase = "down" /\ site.ready
    /\ process' = [process EXCEPT ![p] = [Down EXCEPT !.phase = "loading", !.home = site.home,
                      !.generation = database.generation]]
    /\ UNCHANGED <<database, site, copies, proof, promoter>>

(* ... and checked in another after the files were read, where the gate and    *)
(* the marker put the process in quarantine for its life.                      *)
Load(p) ==
    /\ process[p].phase = "loading"
    /\ process' = [process EXCEPT ![p] =
          IF @.generation # database.generation THEN Down
          ELSE [@ EXCEPT !.phase = "up", !.quarantined = Gated \/ Marked(p),
                         !.since = IF Gated THEN 0 ELSE site.opened]]
    /\ UNCHANGED <<database, site, copies, proof, promoter>>

(* execute(): the marker is looked at first ...                                *)
Arrive(p) ==
    /\ process[p].phase = "up" /\ ~process[p].quarantined /\ ~Marked(p)
    /\ process' = [process EXCEPT ![p].phase = "checked"]
    /\ UNCHANGED <<database, site, copies, proof, promoter>>

(* ... and the generation and the gate in the transaction.                     *)
AcceptedNow(p) ==
    /\ ~process[p].stale /\ process[p].generation = database.generation
    /\ ~Gated

Execute(p) ==
    /\ process[p].phase = "checked" /\ ~WritesLocked
    /\ process' = [process EXCEPT ![p].phase = "up",
                      ![p].stale = @ \/ process[p].generation # database.generation]
    /\ IF AcceptedNow(p) /\ database.data < MaxData    \* bound
       THEN database' = [database EXCEPT !.data = @ + 1]
       ELSE UNCHANGED database
    /\ UNCHANGED <<site, copies, proof, promoter>>

Stop(p) ==
    /\ process[p].phase # "down"
    /\ process' = [process EXCEPT ![p] = Down]
    /\ UNCHANGED <<database, site, copies, proof, promoter>>

NextRecovery ==
    \/ BackupAndProve \/ RestoreDatabase \/ RestoreFiles
    \/ Record \/ ResumeRecorded \/ Unlink \/ Open \/ PromoterEnds
    \/ \E p \in Procs : Capture(p) \/ Load(p) \/ Arrive(p) \/ Execute(p) \/ Stop(p)

RecoverySpec == InitRecovery /\ [][NextRecovery]_recovery_vars
-----------------------------------------------------------------------------
(* Whoever is accepted was started on the database as it was last opened: a    *)
(* process that ran through a restore or a promotion is not.                   *)
OnlyCurrentServe ==
    \A p \in Procs : process[p].phase = "checked" /\ AcceptedNow(p) =>
        /\ process[p].home = site.home /\ site.opened = site.home
        /\ process[p].since = site.opened

(* A promotion that has recorded its receipt can be finished after a crash at  *)
(* any point, whether or not the marker is gone.                               *)
PromotionResumable == Pending => Resumable

(* The marker goes before the gate: an open database has none, so what is      *)
(* started on it is not in quarantine.                                         *)
OpenMeansOpen == ~Gated => ~site.marker

(* A restored instance is promoted or still closed, never stuck between, and   *)
(* nothing that was started before serves it.                                  *)
RecoverySound == OnlyCurrentServe /\ PromotionResumable /\ OpenMeansOpen
=============================================================================
