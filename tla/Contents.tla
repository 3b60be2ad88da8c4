------------------------------ MODULE Contents ------------------------------
(* Bytes and the rows that refer to them: resumable transfers (core/transfer.py), *)
(* the content store with its index, representations and pins (storage/git.py), *)
(* and the two maintenance jobs that free both (workers/maintenance.py).        *)
(*                                                                              *)
(* Rows live in the database, bytes on disk.  A write transaction changes both; *)
(* it may be rolled back, die, or lose the answer to its commit, and only the   *)
(* rows are then certain to be all new or all old (storage/postgres.py).  Every *)
(* writer holds one fence, except a tool job while it stores its output.        *)
EXTENDS Integers, Sequences, SequencesExt, FiniteSets

CONSTANTS
    Transfers, Jobs,   \* sessions, and tool jobs that store an output
    Parts,             \* [Transfers -> what its client may send: offset and data]
    Payloads,          \* whole contents a client may announce or seal
    Outputs,           \* what a tool may return
    Media,             \* [Files -> where put keeps it: "git" if text, else "binary"]
    Interruptions,     \* how a transaction may end badly
    MaxInterruptions   \* bound

Content  == Payloads \cup {p.data : p \in UNION {Parts[t] : t \in Transfers}} \cup Outputs

ContentsAssumption ==
    /\ Transfers \cap Jobs = {}
    /\ Media \in [Transfers \cup Jobs -> {"git", "binary"}]
    /\ Interruptions \subseteq {"rollback", "crash", "lost"}
    /\ MaxInterruptions \in Nat
    /\ \A t \in Transfers : \A p \in Parts[t] : p.offset \in Nat /\ p.data # << >>
    /\ \A c \in Content : c \in Seq(Range(c))    \* bytes, one after the other
ASSUME ContentsAssumption

VARIABLES
    db,             \* the rows: transfers, chunks, files
    disk,           \* kind: the index; bytes: what is stored; old; pins
    tool,           \* [Jobs -> how far a tool job has stored its output]
    collector,      \* a collection under way
    interruptions

contents_vars == <<db, disk, tool, collector, interruptions>>

Files    == Transfers \cup Jobs      \* the file a transfer or a job publishes
Unknown   == <<"unknown">>
NoContent == <<"nothing">>
NoFile    == "no file"

(* A lease is named for its holder and what it holds: the part at an offset    *)
(* (o >= 0), the sealed whole, a file's revision or a tool job's output.       *)
Whole    == -1
Revision == -2
Output   == -3

TransferStates == {"none", "open", "sealed", "cancelled", "expired"}
FileStates == {"none", "live", "deleted", "purged"}
Offsets == {p.offset : p \in UNION {Parts[t] : t \in Transfers}}
Leases  == (Transfers \X (Offsets \cup {Whole})) \cup (Files \X {Revision}) \cup (Jobs \X {Output})

(* One type invariant: rows, index and pins have the shapes the code gives them. *)
ContentsTyped ==
    /\ \A t \in Transfers :
          /\ db.transfers[t].state \in TransferStates
          /\ db.transfers[t].expected \in Content \cup {Unknown}
          /\ db.transfers[t].due \in BOOLEAN
          /\ db.transfers[t].target \in Files \cup {NoFile}
    /\ db.chunks \subseteq [transfer : Transfers, offset : Offsets, data : Content]
    /\ \A f \in Files :
          /\ db.files[f].state \in FileStates
          /\ db.files[f].data \in Content \cup {NoContent}
    /\ disk.kind \in [Content -> {"none", "git", "binary"}]
    /\ disk.bytes \in [Content -> SUBSET {"git", "binary"}]
    /\ disk.old \subseteq Content
    /\ disk.pins \subseteq [lease : Leases, data : Content, kind : {"git", "binary"}]
    /\ interruptions \in 0..MaxInterruptions
-----------------------------------------------------------------------------
(* The content store.                                                          *)

Indexed(d, c) == d.kind[c] # "none"
Retrievable(d, c) == Indexed(d, c) /\ d.kind[c] \in d.bytes[c]

Written_Unmarked(d, c, k) ==    \* mutant: the bytes are stored, the index is not told
    [d EXCEPT !.bytes[c] = @ \cup {k}, !.old = @ \ {c}]

Written(d, c, k) == [d EXCEPT !.kind[c] = k, !.bytes[c] = @ \cup {k}, !.old = @ \ {c}]

Pin(lease, c) == [lease |-> lease, data |-> c]

(* A pin is a file or a ref, as the index says at this moment.                 *)
Held(d, pins) == {[lease |-> p.lease, data |-> p.data, kind |-> d.kind[p.data]] : p \in pins}

(* What a transaction leaves on disk: pins taken and released ...              *)
Done(d, taken, freed) == [d EXCEPT !.pins = (@ \cup Held(d, taken)) \ Held(d, freed)]

(* ... and the same after the compensations of a rollback.                     *)
Undone(d, taken, freed) ==
    [d EXCEPT !.pins = (@ \ Held(d, taken)) \cup (Held(d, freed) \cap @)]

Interrupted(how) ==
    /\ how \in Interruptions /\ interruptions < MaxInterruptions
    /\ interruptions' = interruptions + 1

Transaction(rows, d, taken, freed) ==
    /\ ~collector.busy
    /\ UNCHANGED collector
    /\ \/ db' = rows /\ disk' = Done(d, taken, freed) /\ UNCHANGED interruptions
       \/ Interrupted("rollback") /\ UNCHANGED db /\ disk' = Undone(d, taken, freed)
       \/ /\ Interrupted("crash") /\ UNCHANGED db
          /\ \E t \in SUBSET taken, f \in SUBSET freed : disk' = Done(d, t, f)
       \/ /\ Interrupted("lost") /\ db' = rows
          /\ disk' \in {Done(d, taken, freed), Undone(d, taken, freed)}
-----------------------------------------------------------------------------
(* Transfers.  Calls that are refused, or repeat what was done, change nothing. *)

NewTransfer == [state |-> "none", expected |-> Unknown,
                due |-> FALSE, target |-> NoFile]
NewFile == [state |-> "none", data |-> NoContent, mark |-> "none",
            ordinary |-> FALSE, cited |-> FALSE]

OutputOver == [step |-> "over", data |-> NoContent]

InitContents ==
    /\ \E gone \in SUBSET Transfers :    \* sessions of the past
          db = [transfers |-> [t \in Transfers |-> IF t \in gone
                    THEN [NewTransfer EXCEPT !.state = "expired", !.due = TRUE] ELSE NewTransfer],
                chunks |-> {}, files |-> [f \in Files |-> NewFile]]
    /\ disk = [kind |-> [c \in Content |-> "none"], bytes |-> [c \in Content |-> {}],
               old |-> {}, pins |-> {}]
    /\ tool \in [Jobs -> {[step |-> "running", data |-> NoContent], OutputOver}]
    /\ collector = [busy |-> FALSE, gitPins |-> {}, todo |-> {}, doomed |-> NoContent]
    /\ interruptions \in 0..MaxInterruptions

ChunksOf(t) == {c \in db.chunks : c.transfer = t}
Uploading(t) ==
    /\ db.transfers[t].state = "open" /\ ~db.transfers[t].due
    /\ db.transfers[t].target = NoFile

OpenUpload(t, expected) ==
    /\ db.transfers[t].state = "none"
    /\ Transaction([db EXCEPT !.transfers[t] = [@ EXCEPT !.state = "open",
                       !.expected = expected]], disk, {}, {})
    /\ UNCHANGED tool

OpenDownload(t, f) ==
    /\ db.transfers[t].state = "none" /\ db.files[f].state = "live"
    /\ Transaction([db EXCEPT !.transfers[t] = [@ EXCEPT !.state = "open",
                       !.expected = db.files[f].data, !.target = f]], disk, {}, {})
    /\ UNCHANGED tool

Overlap(p, c) == c.offset < p.offset + Len(p.data) /\ c.offset + Len(c.data) > p.offset

Fits(t, p) ==
    /\ \A c \in ChunksOf(t) : ~Overlap(p, c)
    /\ db.transfers[t].expected # Unknown =>
          p.offset + Len(p.data) <= Len(db.transfers[t].expected)

PutPart(t, p) ==
    /\ Uploading(t) /\ Fits(t, p)
    /\ Transaction([db EXCEPT !.chunks = @ \cup
                       {[transfer |-> t, offset |-> p.offset, data |-> p.data]}],
                   Written(disk, p.data, "binary"), {Pin(<<t, p.offset>>, p.data)}, {})
    /\ UNCHANGED tool

(* The chunks in offset order, and their bytes one after the other.            *)
InOrder(chunks) ==
    CHOOSE s \in SetToSeqs(chunks) : \A i, j \in DOMAIN s : i < j => s[i].offset < s[j].offset
Assembled(chunks) == FoldLeft(LAMBDA s, c : s \o c.data, << >>, InOrder(chunks))

Covers(chunks, final) ==
    /\ \A c \in chunks : c.offset = 0 \/ \E e \in chunks : e.offset + Len(e.data) = c.offset
    /\ Assembled(chunks) = final

Seal(t, final) ==
    /\ Uploading(t)
    /\ db.transfers[t].expected \in {Unknown, final}
    /\ Covers(ChunksOf(t), final)
    /\ \A c \in ChunksOf(t) : Retrievable(disk, c.data)
    /\ Transaction([db EXCEPT !.transfers[t] = [@ EXCEPT !.state = "sealed", !.expected = final],
                              !.files[t] = [@ EXCEPT !.state = "live", !.data = final]],
                   Written(disk, final, Media[t]),
                   {Pin(<<t, Whole>>, final), Pin(<<t, Revision>>, final)}, {})
    /\ UNCHANGED tool

Cancel(t) ==
    /\ db.transfers[t].state = "open" /\ ~db.transfers[t].due
    /\ Transaction([db EXCEPT !.transfers[t].state = "cancelled"], disk, {}, {})
    /\ UNCHANGED tool

(* Its expiry time comes.                                                      *)
Due(t) ==
    /\ db.transfers[t].state # "none" /\ ~db.transfers[t].due
    /\ db' = [db EXCEPT !.transfers[t].due = TRUE]
    /\ UNCHANGED <<disk, tool, collector, interruptions>>

(* What a status call lists: the gaps from an offset on, a page at a time.     *)
GapsFrom(chunks, cursor) ==
    FoldLeft(LAMBDA scan, c :
                [start |-> c.offset + Len(c.data),
                 gaps  |-> IF c.offset > scan.start
                           THEN Append(scan.gaps, <<scan.start, c.offset>>) ELSE scan.gaps],
             [start |-> cursor, gaps |-> << >>],
             InOrder({c \in chunks : c.offset + Len(c.data) > cursor}))

Gaps(chunks, size, cursor) ==
    LET scan == GapsFrom(chunks, cursor)
    IN  IF scan.start < size THEN Append(scan.gaps, <<scan.start, size>>) ELSE scan.gaps

MissingRanges(chunks, size, cursor, limit) ==
    LET gaps == Gaps(chunks, size, cursor)
    IN  [items |-> SubSeq(gaps, 1, IF Len(gaps) < limit THEN Len(gaps) ELSE limit),
         next  |-> IF Len(gaps) > limit THEN gaps[limit + 1][1] ELSE size]
-----------------------------------------------------------------------------
(* Files.  A sealed query marks its file for a later purge; a file that is     *)
(* moved, shared or revised is ordinary, and a cited one is needed.            *)

SealQuery(t) ==
    /\ db.transfers[t].state = "sealed" /\ ~db.transfers[t].due
    /\ db.files[t].state = "live"
    /\ Transaction([db EXCEPT !.files[t].mark = "fresh"],
                   disk, {}, {})
    /\ UNCHANGED tool

(* The mark outlives the transfer by an hour.                                  *)
MarkLate(t) ==
    /\ db.files[t].mark = "fresh" /\ db.transfers[t].due
    /\ db' = [db EXCEPT !.files[t].mark = "late"]
    /\ UNCHANGED <<disk, tool, collector, interruptions>>

UseFile(f) ==
    /\ db.files[f].state = "live" /\ db.files[f].mark # "none"
    /\ \/ Transaction([db EXCEPT !.files[f].ordinary = TRUE], disk, {}, {})
       \/ Transaction([db EXCEPT !.files[f].cited = ~@], disk, {}, {})
    /\ UNCHANGED tool

(* content.purge deletes the revisions and asks for a collection; the pin of   *)
(* the revision stays.                                                         *)
PurgeFile(f) ==
    /\ db.files[f].state = "live"
    /\ Transaction([db EXCEPT !.files[f] = [NewFile EXCEPT !.state = "deleted"]], disk, {}, {})
    /\ UNCHANGED tool
-----------------------------------------------------------------------------
(* cleanup_expired: one transaction over every transfer and every mark.        *)
Expired == {t \in Transfers : db.transfers[t].due /\ db.transfers[t].state # "expired"}

Used(f) == \E t \in Transfers : ~db.transfers[t].due /\
              \/ db.transfers[t].target = f
              \/ t = f /\ db.transfers[t].state = "sealed"

Purgeable ==
    {f \in Transfers : /\ db.files[f].state = "live" /\ db.files[f].mark = "late"
                       /\ ~db.files[f].ordinary /\ ~db.files[f].cited /\ ~Used(f)}
Unmarked == {f \in Transfers : db.files[f].mark = "late" /\ db.files[f].ordinary}

(* _release_pin: what the index says is pinned is released.                    *)
LeasesOf(t) ==
    {Pin(<<t, c.offset>>, c.data) : c \in ChunksOf(t)}
        \cup (IF db.transfers[t].state = "sealed"
              THEN {Pin(<<t, Whole>>, db.transfers[t].expected)} ELSE {})

Cleanup ==
    /\ Expired \cup Purgeable \cup Unmarked # {}
    /\ Transaction(
           [transfers |-> [t \in Transfers |-> IF t \in Expired
                              THEN [db.transfers[t] EXCEPT !.state = "expired"] ELSE db.transfers[t]],
            chunks |-> {c \in db.chunks : c.transfer \notin Expired},
            files |-> [f \in Files |->
                         IF f \in Purgeable
                         THEN [NewFile EXCEPT !.state = "purged"]
                         ELSE IF f \in Unmarked THEN [db.files[f] EXCEPT !.mark = "none"]
                         ELSE db.files[f]]],
           disk, {}, (UNION {LeasesOf(t) : t \in Expired})
                        \cup {Pin(<<f, Revision>>, db.files[f].data) : f \in Purgeable})
    /\ UNCHANGED tool
-----------------------------------------------------------------------------
(* collect_garbage: holds the fence, reads the rows and the refs once, then    *)
(* looks at one index entry after the other.                                   *)

Idle == [busy |-> FALSE, gitPins |-> {}, todo |-> {}, doomed |-> NoContent]

Rooted == {c.data : c \in db.chunks} \cup {db.files[f].data : f \in {g \in Files : db.files[g].state = "live"}}

Spared_AnyPin(c, gitPins) ==    \* mutant: a pin of any content spares this one
    \/ c \notin disk.old \/ c \in gitPins
    \/ \E p \in disk.pins : p.kind = "binary"

(* Nothing between the reading of the refs and the look at an entry can make it *)
(* collectable, so what is spared at the start is not looked at again.         *)
Spared(c, gitPins) ==
    \/ c \notin disk.old \/ c \in gitPins
    \/ \E p \in disk.pins : p.kind = "binary" /\ p.data = c

Stray(c) == disk.bytes[c] # {} /\ ~Indexed(disk, c) /\ c \in disk.old

Collect ==
    /\ ~collector.busy
    /\ LET gitPins == {p.data : p \in {q \in disk.pins : q.kind = "git"}}
           todo == {c \in Content \ Rooted : Indexed(disk, c) /\ ~Spared(c, gitPins)}
       IN  /\ todo # {} \/ \E c \in Content : Stray(c)
           /\ collector' = [Idle EXCEPT !.busy = TRUE, !.todo = todo, !.gitPins = gitPins]
    /\ UNCHANGED <<db, disk, tool, interruptions>>

Examine(c) ==
    /\ collector.doomed = NoContent /\ c \in collector.todo
    /\ collector' = [collector EXCEPT !.todo = @ \ {c},
                        !.doomed = IF Spared(c, collector.gitPins) THEN NoContent ELSE c]
    /\ UNCHANGED <<db, disk, tool, interruptions>>

(* The file of a binary goes with its entry; git keeps an object until the end. *)
RemoveEntry ==
    /\ collector.doomed # NoContent
    /\ disk' = [disk EXCEPT !.bytes[collector.doomed] = @ \ ({disk.kind[collector.doomed]} \ {"git"}),
                            !.kind[collector.doomed] = "none"]
    /\ collector' = [collector EXCEPT !.doomed = NoContent]
    /\ UNCHANGED <<db, tool, interruptions>>

(* The end: bytes without an index entry go too.                               *)
Prune ==
    /\ collector.busy /\ collector.todo = {} /\ collector.doomed = NoContent
    /\ disk' = [disk EXCEPT !.bytes = [c \in Content |->
                                         IF Stray(c) THEN {} ELSE @[c]]]
    /\ collector' = Idle
    /\ UNCHANGED <<db, tool, interruptions>>

CollectorDies ==
    /\ collector.busy /\ Interrupted("crash")
    /\ collector' = Idle
    /\ UNCHANGED <<db, disk, tool>>

(* An hour passes in which no job is about to index or pin this content.  The  *)
(* age counts from the start of a collection, and only without a reference.    *)
GrowOld(c) ==
    /\ ~collector.busy /\ c \notin disk.old \cup Rooted
    /\ Indexed(disk, c) \/ disk.bytes[c] # {}
    /\ \A j \in Jobs : tool[j].data = c => tool[j].step \notin {"written", "indexed"}
    /\ disk' = [disk EXCEPT !.old = @ \cup {c}]
    /\ UNCHANGED <<db, tool, collector, interruptions>>
-----------------------------------------------------------------------------
(* A tool job stores its output without the fence, then commits with it.  A    *)
(* binary that is there already is left as it is, and as old as it is.         *)

WriteBytes(j, c) ==
    /\ tool[j].step = "running"
    /\ tool' = [tool EXCEPT ![j] = [step |-> "written", data |-> c]]
    /\ disk' = IF Media[j] = "binary" /\ "binary" \in disk.bytes[c] THEN disk
               ELSE [disk EXCEPT !.bytes[c] = @ \cup {Media[j]}, !.old = @ \ {c}]
    /\ UNCHANGED <<db, collector, interruptions>>

WriteIndex(j) ==
    /\ tool[j].step = "written"
    /\ tool' = [tool EXCEPT ![j].step = "indexed"]
    /\ disk' = [disk EXCEPT !.kind[tool[j].data] = Media[j], !.old = @ \ {tool[j].data}]
    /\ UNCHANGED <<db, collector, interruptions>>

PinOutput(j) ==
    /\ tool[j].step = "indexed" /\ Indexed(disk, tool[j].data)
    /\ tool' = [tool EXCEPT ![j].step = "pinned"]
    /\ disk' = Done(disk, {Pin(<<j, Output>>, tool[j].data)}, {})
    /\ UNCHANGED <<db, collector, interruptions>>

CommitOutput_Unread(j) ==    \* mutant: that there is an entry is enough
    /\ tool[j].step = "pinned"
    /\ Indexed(disk, tool[j].data)
    /\ Transaction([db EXCEPT !.files[j] = [@ EXCEPT !.state = "live", !.data = tool[j].data]],
                   disk, {Pin(<<j, Revision>>, tool[j].data)}, {})
    /\ tool' = [tool EXCEPT ![j] = OutputOver]

(* A revision reads the content it is given before it is published.            *)
CommitOutput(j) ==
    /\ tool[j].step = "pinned"
    /\ Retrievable(disk, tool[j].data)
    /\ Transaction([db EXCEPT !.files[j] = [@ EXCEPT !.state = "live", !.data = tool[j].data]],
                   disk, {Pin(<<j, Revision>>, tool[j].data)}, {})
    /\ tool' = [tool EXCEPT ![j] = OutputOver]

(* It is refused, or its process dies; the output stays as it is.              *)
AbandonOutput(j) ==
    /\ tool[j].step # "over"
    /\ tool' = [tool EXCEPT ![j] = OutputOver]
    /\ UNCHANGED <<db, disk, collector, interruptions>>
-----------------------------------------------------------------------------
Clients ==
    \/ \E t \in Transfers, e \in Payloads \cup {Unknown} : OpenUpload(t, e)
    \/ \E t \in Transfers, f \in Files : OpenDownload(t, f)
    \/ \E t \in Transfers : \E p \in Parts[t] : PutPart(t, p)
    \/ \E t \in Transfers, c \in Payloads : Seal(t, c)
    \/ \E t \in Transfers : Cancel(t) \/ SealQuery(t)
    \/ \E f \in Files : UseFile(f) \/ PurgeFile(f)

Collecting == RemoveEntry \/ Prune \/ \E c \in Content : Examine(c)

ToolStep(j) ==
    \/ \E c \in Outputs : WriteBytes(j, c)
    \/ WriteIndex(j) \/ PinOutput(j) \/ CommitOutput(j) \/ AbandonOutput(j)

NextContents ==
    \/ Clients
    \/ \E t \in Transfers : Due(t) \/ MarkLate(t)
    \/ \E c \in Content : GrowOld(c)
    \/ Cleanup \/ Collect \/ Collecting \/ CollectorDies
    \/ \E j \in Jobs : ToolStep(j)

(* Time passes, the worker's loop runs both jobs in turn, writers queue for    *)
(* the fence, and a tool job ends.                                             *)
ContentsFairness ==
    /\ \A t \in Transfers : WF_contents_vars(Due(t)) /\ WF_contents_vars(MarkLate(t))
    /\ \A c \in Content : WF_contents_vars(GrowOld(c))
    /\ WF_contents_vars(Cleanup)
    /\ WF_contents_vars(Collect) /\ WF_contents_vars(Collecting)
    /\ \A j \in Jobs : WF_contents_vars(ToolStep(j))

ContentsSpec == InitContents /\ [][NextContents]_contents_vars
FairContents == ContentsSpec /\ ContentsFairness
-----------------------------------------------------------------------------
Referenced == {c.data : c \in db.chunks}
                 \cup {db.files[f].data : f \in {g \in Files : db.files[g].state = "live"}}

(* A job is about to write the entry of a file that was collected meanwhile.   *)
Late(j) == tool[j].step = "written" /\ Media[j] \notin disk.bytes[tool[j].data]

(* Bytes that a chunk or a file refers to can be read, whatever is rolled back, *)
(* cut off or collected; only the entry of such a job can hide them.           *)
ContentKept ==
    \A c \in Referenced' :
        \/ Retrievable(disk', c)
        \/ c \in Referenced /\ ~Retrievable(disk, c)
        \/ \E j \in Jobs : Late(j) /\ tool[j].data = c /\ tool'[j].step = "indexed"

(* A sealed file has every part the client sent where the client put it, and   *)
(* nothing else, and it is what was announced.                                 *)
SealedAsSent ==
    \A t \in Transfers : db.transfers[t].state = "sealed" =>
        /\ db.files[t].state # "none"
        /\ db.files[t].state = "live" => db.files[t].data = db.transfers[t].expected
        /\ \A c \in ChunksOf(t) : \A i \in 1..Len(c.data) :
              /\ c.offset + i \in DOMAIN db.transfers[t].expected
              /\ db.transfers[t].expected[c.offset + i] = c.data[i]
        /\ DOMAIN db.transfers[t].expected =
              UNION {(c.offset + 1)..(c.offset + Len(c.data)) : c \in ChunksOf(t)}

(* Following the pages of a status call, one gap each, lists exactly the bytes *)
(* that are missing.                                                           *)
MissingExact ==
    \A t \in Transfers : Uploading(t) /\ db.transfers[t].expected # Unknown =>
        LET size   == Len(db.transfers[t].expected)
            page[k \in 0..size] == MissingRanges(ChunksOf(t), size, k, 1)
            listed[k \in 0..size] ==
                (UNION {i[1]..(i[2] - 1) : i \in {page[k].items[n] : n \in DOMAIN page[k].items}})
                    \cup (IF page[k].next = size THEN {} ELSE listed[page[k].next])
        IN  listed[0] = (0..(size - 1)) \ UNION {c.offset..(c.offset + Len(c.data) - 1) : c \in ChunksOf(t)}

(* Retention never takes the file that an open download is reading.            *)
DownloadsServed ==
    \A t \in Transfers : /\ db.transfers[t].state = "open" /\ ~db.transfers[t].due
                         /\ db.transfers[t].target # NoFile
        => db.files[db.transfers[t].target].state # "purged"

(* What a transfer staged is given back: its rows go after its expiry, in      *)
(* whatever state it was left.                                                 *)
StagedFreed ==
    \A t \in Transfers : db.transfers[t].due
        ~> db.transfers[t].state = "expired" /\ ChunksOf(t) = {}

(* Content that no row refers to and no lease pins is removed.                 *)
UnpinnedRemoved ==
    \A c \in Content : []<>(\/ ~Indexed(disk, c) \/ c \in Referenced
                            \/ \E p \in disk.pins : p.data = c)

(* "Remove unreferenced content after a grace period": without the exception   *)
(* of a lease.  A user's purge leaves the lease of the revision behind.        *)
UnreferencedRemoved == \A c \in Content : []<>(~Indexed(disk, c) \/ c \in Referenced)

(* No interruption loses bytes that something refers to, and what a transfer   *)
(* lists, seals or serves is byte for byte what was sent.                      *)
ContentsSound ==
    [][ContentKept /\ (SealedAsSent /\ MissingExact /\ DownloadsServed)']_contents_vars

(* What nothing refers to is reclaimed: parts of dead uploads, and content *)
(* without a pin.                                                          *)
ContentReclaimed == StagedFreed /\ UnpinnedRemoved
=============================================================================
