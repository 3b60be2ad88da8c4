--------------------------- MODULE ContentProofs ----------------------------
(* Contents and Documents, for any parts, transfers and editors and for texts  *)
(* of any length: what the service stores, what a status call says is missing, *)
(* and what an edit may replace.                                               *)
EXTENDS Contents, Documents, FoldLemmas, SequenceTheorems

(* What the store is made of.                                                  *)
TransferRows ==
    [state : TransferStates, expected : Content \cup {Unknown}, due : BOOLEAN,
     target : Files \cup {NoFile}]
ChunkRows == [transfer : Transfers, offset : Offsets, data : Content]
FileRows ==
    [state : FileStates, data : Content \cup {NoContent}, mark : {"none", "fresh", "late"},
     ordinary : BOOLEAN, cited : BOOLEAN]
PinRows == [lease : Leases, data : Content, kind : {"git", "binary"}]

Tables == [transfers : [Transfers -> TransferRows], chunks : SUBSET ChunkRows, files : [Files -> FileRows]]
Disks ==
    [kind : [Content -> {"none", "git", "binary"}], bytes : [Content -> SUBSET {"git", "binary"}],
     old : SUBSET Content, pins : SUBSET PinRows]

Refers(rows) ==
    {c.data : c \in rows.chunks}
        \cup {rows.files[f].data : f \in {g \in Files : rows.files[g].state = "live"}}

(* Tables in which what is live has content, and what is being downloaded is   *)
(* not purged.                                                                 *)
Fine(rows) ==
    /\ rows \in Tables
    /\ \A f \in Files : rows.files[f].state = "live" => rows.files[f].data \in Content
    /\ \A t \in Transfers :
          /\ rows.transfers[t].state = "open" /\ ~rows.transfers[t].due
          /\ rows.transfers[t].target # NoFile
          => rows.files[rows.transfers[t].target].state # "purged"
    /\ \A t \in Transfers : rows.transfers[t].state = "none" => rows.transfers[t].target = NoFile

ToolsTyped ==
    /\ tool \in [Jobs -> [step : {"running", "written", "indexed", "pinned", "over"},
                          data : Content \cup {NoContent}]]
    /\ \A j \in Jobs : tool[j].step \in {"written", "indexed", "pinned"} => tool[j].data \in Content

(* The collector is after nothing that a row refers to.                        *)
CollectorAside ==
    /\ collector \in [busy : BOOLEAN, gitPins : SUBSET Content, todo : SUBSET Content,
                      doomed : Content \cup {NoContent}]
    /\ ~collector.busy => collector = Idle
    /\ collector.todo \cap Referenced = {}
    /\ collector.doomed # NoContent => collector.doomed \notin Referenced

ContentsInv ==
    /\ Fine(db) /\ disk \in Disks /\ ToolsTyped /\ CollectorAside
    /\ interruptions \in 0..MaxInterruptions

-----------------------------------------------------------------------------
(* Contents of every part are contents, and everything live has some.          *)
LEMMA ReferencesAreContents ==
    ASSUME NEW rows, Fine(rows)
    PROVE  Refers(rows) \subseteq Content
  BY DEF Fine, Tables, ChunkRows, Refers

(* What a client may send is content, at an offset that has a lease.           *)
LEMMA PartsAreContents ==
    ASSUME ContentsAssumption, NEW t \in Transfers, NEW p \in Parts[t]
    PROVE  p.data \in Content /\ p.offset \in Offsets
  BY DEF Content, Offsets

(* The index and the bytes after a transaction are those it made, whether or   *)
(* not its rows are.                                                           *)
LEMMA TransactionKeeps ==
    ASSUME ContentsInv, NEW rows, Fine(rows), NEW d \in Disks, NEW taken, NEW freed,
           \A p \in taken : p.lease \in Leases /\ p.data \in Content /\ Indexed(d, p.data),
           Transaction(rows, d, taken, freed)
    PROVE  /\ db' = db \/ db' = rows
           /\ disk' \in Disks /\ disk'.kind = d.kind /\ disk'.bytes = d.bytes
           /\ collector = Idle /\ collector' = collector
           /\ interruptions' \in 0..MaxInterruptions
  <1>1. Held(d, taken) \subseteq PinRows
    <2>1. \A p \in taken : d.kind[p.data] \in {"git", "binary"}
      BY DEF Disks, Indexed
    <2> QED
      BY <2>1 DEF Held, PinRows
  <1>2. ASSUME NEW t \in SUBSET taken PROVE Held(d, t) \subseteq PinRows
    BY <1>1 DEF Held
  <1>3. ASSUME NEW t \in SUBSET taken, NEW f
        PROVE  /\ Done(d, t, f) \in Disks
               /\ Done(d, t, f).kind = d.kind /\ Done(d, t, f).bytes = d.bytes
    BY <1>2 DEF Done, Disks
  <1>4. /\ Undone(d, taken, freed) \in Disks
        /\ Undone(d, taken, freed).kind = d.kind /\ Undone(d, taken, freed).bytes = d.bytes
    <2> DEFINE u == Undone(d, taken, freed)
    <2>1. u = [d EXCEPT !.pins = (d.pins \ Held(d, taken)) \cup (Held(d, freed) \cap d.pins)]
      BY DEF Undone
    <2>2. /\ u = [kind |-> d.kind, bytes |-> d.bytes, old |-> d.old, pins |-> u.pins]
          /\ u.pins \subseteq d.pins \cup Held(d, freed) /\ u.pins \cap Held(d, freed) \subseteq d.pins
      BY <2>1 DEF Disks
    <2>3. u.pins \in SUBSET PinRows
      BY <2>2 DEF Disks
    <2> HIDE DEF u
    <2>4. u \in Disks /\ u.kind = d.kind /\ u.bytes = d.bytes
      BY <2>2, <2>3 DEF Disks
    <2> QED
      BY <2>4 DEF u
  <1>5. interruptions' \in 0..MaxInterruptions
    BY ContentsAssumption DEF Transaction, Interrupted, ContentsInv, ContentsAssumption
  <1>6. disk' = Undone(d, taken, freed) \/ \E t \in SUBSET taken, f \in SUBSET freed : disk' = Done(d, t, f)
    BY DEF Transaction
  <1>7. db' = db \/ db' = rows
    BY DEF Transaction
  <1>8. collector = Idle /\ collector' = collector
    BY DEF Transaction, ContentsInv, CollectorAside
  <1> QED
    BY <1>3, <1>4, <1>5, <1>6, <1>7, <1>8

(* A transaction that makes readable what its rows refer to.                   *)
LEMMA TransactionStays ==
    ASSUME ContentsInv, NEW rows, Fine(rows), NEW d \in Disks, NEW taken, NEW freed,
           \A p \in taken : p.lease \in Leases /\ p.data \in Content /\ Indexed(d, p.data),
           \A c \in Content : Retrievable(disk, c) => Retrievable(d, c),
           \A c \in Refers(rows) \ Refers(db) : Retrievable(d, c),
           Transaction(rows, d, taken, freed), ToolsTyped'
    PROVE  ContentsInv' /\ ContentKept
  <1>1. /\ db' = db \/ db' = rows
        /\ disk' \in Disks /\ disk'.kind = d.kind /\ disk'.bytes = d.bytes
        /\ collector = Idle /\ collector' = collector
        /\ interruptions' \in 0..MaxInterruptions
    BY TransactionKeeps
  <1>2. Fine(db)'
    BY <1>1 DEF ContentsInv, Fine
  <1>3. CollectorAside'
    BY <1>1 DEF CollectorAside, ContentsInv, Idle
  <1>4. Referenced' = Refers(db') /\ Referenced = Refers(db)
    BY DEF Referenced, Refers
  <1>5. \A c : Retrievable(disk', c) = Retrievable(d, c)
    BY <1>1 DEF Retrievable, Indexed
  <1>6. Refers(db) \subseteq Content
    BY ReferencesAreContents DEF ContentsInv
  <1>7. ContentKept
    BY <1>1, <1>4, <1>5, <1>6 DEF ContentKept
  <1> QED
    BY <1>1, <1>2, <1>3, <1>7 DEF ContentsInv

(* What put leaves on disk.                                                    *)
LEMMA WrittenDisk ==
    ASSUME disk \in Disks, NEW c \in Content, NEW k \in {"git", "binary"}
    PROVE  /\ Written(disk, c, k) \in Disks /\ Retrievable(Written(disk, c, k), c)
           /\ Indexed(Written(disk, c, k), c)
           /\ \A e \in Content : Retrievable(disk, e) => Retrievable(Written(disk, c, k), e)
  <1> DEFINE d == Written(disk, c, k)
  <1>1. /\ d \in Disks
        /\ d.kind = [disk.kind EXCEPT ![c] = k]
        /\ d.bytes = [disk.bytes EXCEPT ![c] = @ \cup {k}]
    BY DEF Written, Disks
  <1> HIDE DEF d
  <1>2. /\ d.kind[c] = k /\ k \in d.bytes[c]
        /\ \A e \in Content : e # c => d.kind[e] = disk.kind[e] /\ d.bytes[e] = disk.bytes[e]
    BY <1>1 DEF Disks
  <1>3. Retrievable(d, c) /\ Indexed(d, c)
    BY <1>2 DEF Retrievable, Indexed
  <1>4. \A e \in Content : Retrievable(disk, e) => Retrievable(d, e)
    BY <1>2, <1>3 DEF Retrievable, Indexed
  <1> QED
    BY <1>1, <1>3, <1>4 DEF d

(* The row of one file, or of one transfer, is replaced.                       *)
LEMMA FilePut ==
    ASSUME NEW base, Fine(base), NEW f \in Files, NEW r \in FileRows, NEW rows,
           rows = [base EXCEPT !.files[f] = r],
           r.state = "live" => r.data \in Content, r.state # "purged"
    PROVE  /\ Fine(rows)
           /\ Refers(rows) \subseteq Refers(base) \cup (IF r.state = "live" THEN {r.data} ELSE {})
  <1>1. /\ rows \in Tables /\ rows.transfers = base.transfers /\ rows.chunks = base.chunks
        /\ rows.files[f] = r /\ \A g \in Files \ {f} : rows.files[g] = base.files[g]
    BY DEF Fine, Tables
  <1>2. \A t \in Transfers : rows.transfers[t].target \in Files \cup {NoFile}
    BY <1>1 DEF Tables, TransferRows
  <1>3. Fine(rows)
    BY <1>1, <1>2 DEF Fine
  <1> QED
    BY <1>1, <1>3 DEF Refers

(* The row of one transfer is replaced.                                        *)
LEMMA TransferPut ==
    ASSUME NEW base, Fine(base), NEW t \in Transfers, NEW r \in TransferRows, NEW rows,
           rows = [base EXCEPT !.transfers[t] = r],
           r.state = "open" /\ ~r.due /\ r.target # NoFile => base.files[r.target].state # "purged",
           r.state = "none" => r.target = NoFile
    PROVE  Fine(rows) /\ Refers(rows) = Refers(base)
  <1>1. /\ rows \in Tables /\ rows.files = base.files /\ rows.chunks = base.chunks
        /\ rows.transfers[t] = r /\ \A u \in Transfers \ {t} : rows.transfers[u] = base.transfers[u]
    BY DEF Fine, Tables
  <1>2. Fine(rows)
    BY <1>1 DEF Fine
  <1> QED
    BY <1>1, <1>2 DEF Refers

(* A transaction that only changes rows, and refers to nothing new.            *)
LEMMA RowsStay ==
    ASSUME ContentsInv, NEW rows, Fine(rows), Refers(rows) \subseteq Refers(db), NEW freed,
           Transaction(rows, disk, {}, freed), UNCHANGED tool
    PROVE  ContentsInv' /\ ContentKept
  <1>1. ToolsTyped' /\ disk \in Disks
    BY DEF ToolsTyped, ContentsInv
  <1> QED
    BY <1>1, TransactionStays

-----------------------------------------------------------------------------
(* The steps.                                                                  *)

(* A transfer that opens an upload refers to nothing yet.                      *)
LEMMA OpenUploadKeeps ==
    ASSUME ContentsInv, NEW t \in Transfers, NEW e \in Payloads \cup {Unknown}, OpenUpload(t, e)
    PROVE  ContentsInv' /\ ContentKept
  <1> DEFINE r == [db.transfers[t] EXCEPT !.state = "open", !.expected = e]
             rows == [db EXCEPT !.transfers[t] = r]
  <1>1. db.transfers[t] \in TransferRows /\ Fine(db)
    BY DEF ContentsInv, Fine, Tables
  <1>2. e \in Content \cup {Unknown}
    BY DEF Content
  <1>3. r \in TransferRows /\ r.state = "open" /\ r.target = db.transfers[t].target
    BY <1>1, <1>2 DEF TransferRows, TransferStates
  <1>4. db.transfers[t].target = NoFile
    BY <1>1 DEF Fine, OpenUpload
  <1>5. Transaction(rows, disk, {}, {}) /\ UNCHANGED tool
    BY DEF OpenUpload
  <1> HIDE DEF r
  <1>6. Fine(rows) /\ Refers(rows) = Refers(db)
    BY <1>1, <1>3, <1>4, TransferPut
  <1> QED
    BY <1>5, <1>6, RowsStay

(* A download opens on a file that is live, so not purged.                     *)
LEMMA OpenDownloadKeeps ==
    ASSUME ContentsInv, NEW t \in Transfers, NEW f \in Files, OpenDownload(t, f)
    PROVE  ContentsInv' /\ ContentKept
  <1> DEFINE r == [db.transfers[t] EXCEPT !.state = "open", !.expected = db.files[f].data, !.target = f]
             rows == [db EXCEPT !.transfers[t] = r]
  <1>1. db.transfers[t] \in TransferRows /\ Fine(db)
    BY DEF ContentsInv, Fine, Tables
  <1>2. db.files[f].state = "live" /\ db.files[f].data \in Content
    BY <1>1 DEF OpenDownload, Fine
  <1>3. r \in TransferRows /\ r.state = "open" /\ r.target = f
    BY <1>1, <1>2 DEF TransferRows, TransferStates
  <1>5. Transaction(rows, disk, {}, {}) /\ UNCHANGED tool
    BY DEF OpenDownload
  <1> HIDE DEF r
  <1>6. Fine(rows) /\ Refers(rows) = Refers(db)
    BY <1>1, <1>2, <1>3, TransferPut
  <1> QED
    BY <1>5, <1>6, RowsStay

(* A cancelled transfer keeps its parts until it expires.                      *)
LEMMA CancelKeeps ==
    ASSUME ContentsInv, NEW t \in Transfers, Cancel(t)
    PROVE  ContentsInv' /\ ContentKept
  <1> DEFINE r == [db.transfers[t] EXCEPT !.state = "cancelled"]
             rows == [db EXCEPT !.transfers[t] = r]
  <1>1. db.transfers[t] \in TransferRows /\ Fine(db)
    BY DEF ContentsInv, Fine, Tables
  <1>3. r \in TransferRows /\ r.state = "cancelled"
    BY <1>1 DEF TransferRows, TransferStates
  <1>5. Transaction(rows, disk, {}, {}) /\ UNCHANGED tool
    BY DEF Cancel
  <1> HIDE DEF r
  <1>6. Fine(rows) /\ Refers(rows) = Refers(db)
    BY <1>1, <1>3, TransferPut
  <1> QED
    BY <1>5, <1>6, RowsStay

(* A row of a live file changes, its content does not.                         *)
LEMMA MarksKeep ==
    ASSUME ContentsInv, NEW f \in Files, NEW r \in FileRows,
           db.files[f].state = "live", r.data = db.files[f].data, r.state = "live",
           Transaction([db EXCEPT !.files[f] = r], disk, {}, {}), UNCHANGED tool
    PROVE  ContentsInv' /\ ContentKept
  <1>1. Fine(db) /\ r.data \in Content /\ r.data \in Refers(db)
    BY DEF ContentsInv, Fine, Refers
  <1> DEFINE rows == [db EXCEPT !.files[f] = r]
  <1>2. Fine(rows) /\ Refers(rows) \subseteq Refers(db)
    BY <1>1, FilePut
  <1> QED
    BY <1>2, RowsStay

(* A sealed query marks its file and nothing else.                             *)
LEMMA SealQueryKeeps ==
    ASSUME ContentsInv, NEW t \in Transfers, SealQuery(t)
    PROVE  ContentsInv' /\ ContentKept
  <1> DEFINE r == [db.files[t] EXCEPT !.mark = "fresh"]
  <1>1. t \in Files /\ db.files[t] \in FileRows /\ db.files[t].state = "live"
    BY DEF ContentsInv, Fine, Tables, Files, SealQuery
  <1>2. r \in FileRows /\ r.data = db.files[t].data /\ r.state = "live"
    BY <1>1 DEF FileRows
  <1>3. Transaction([db EXCEPT !.files[t] = r], disk, {}, {}) /\ UNCHANGED tool
    BY DEF SealQuery
  <1> QED
    BY <1>1, <1>2, <1>3, MarksKeep

(* A file that is moved, shared or cited keeps its content.                    *)
LEMMA UseFileKeeps ==
    ASSUME ContentsInv, NEW f \in Files, UseFile(f)
    PROVE  ContentsInv' /\ ContentKept
  <1> DEFINE q == [db.files[f] EXCEPT !.ordinary = TRUE]
             r == [db.files[f] EXCEPT !.cited = ~@]
  <1>1. db.files[f] \in FileRows /\ db.files[f].state = "live"
    BY DEF ContentsInv, Fine, Tables, UseFile
  <1>2. /\ q \in FileRows /\ q.data = db.files[f].data /\ q.state = "live"
        /\ r \in FileRows /\ r.data = db.files[f].data /\ r.state = "live"
    BY <1>1 DEF FileRows
  <1>3. /\ \/ Transaction([db EXCEPT !.files[f] = q], disk, {}, {})
           \/ Transaction([db EXCEPT !.files[f] = r], disk, {}, {})
        /\ UNCHANGED tool
    BY DEF UseFile
  <1> HIDE DEF q, r
  <1> QED
    BY <1>1, <1>2, <1>3, MarksKeep

(* A deleted file refers to nothing; the file of a download is deleted, not    *)
(* purged.                                                                     *)
LEMMA PurgeFileKeeps ==
    ASSUME ContentsInv, NEW f \in Files, PurgeFile(f)
    PROVE  ContentsInv' /\ ContentKept
  <1> DEFINE r == [NewFile EXCEPT !.state = "deleted"]
             rows == [db EXCEPT !.files[f] = r]
  <1>1. r \in FileRows /\ r.state = "deleted"
    BY DEF FileRows, FileStates, NewFile
  <1>2. Transaction(rows, disk, {}, {}) /\ UNCHANGED tool
    BY DEF PurgeFile
  <1> HIDE DEF r
  <1>3. Fine(rows) /\ Refers(rows) \subseteq Refers(db)
    BY <1>1, FilePut DEF ContentsInv
  <1> QED
    BY <1>2, <1>3, RowsStay

(* A part is readable before the row that refers to it exists.                 *)
LEMMA PutPartKeeps ==
    ASSUME ContentsAssumption, ContentsInv, NEW t \in Transfers, NEW p \in Parts[t], PutPart(t, p)
    PROVE  ContentsInv' /\ ContentKept
  <1> DEFINE c == [transfer |-> t, offset |-> p.offset, data |-> p.data]
             rows == [db EXCEPT !.chunks = @ \cup {c}]
             d == Written(disk, p.data, "binary")
             taken == {Pin(<<t, p.offset>>, p.data)}
  <1>1. p.data \in Content /\ p.offset \in Offsets
    BY PartsAreContents
  <1>2. c \in ChunkRows /\ c.data = p.data
    BY <1>1 DEF ChunkRows
  <1>3. Fine(rows) /\ Refers(rows) \subseteq Refers(db) \cup {p.data}
    <2>1. /\ rows \in Tables /\ rows.transfers = db.transfers /\ rows.files = db.files
          /\ rows.chunks = db.chunks \cup {c}
      BY <1>2 DEF ContentsInv, Fine, Tables
    <2> QED
      BY <1>2, <2>1 DEF ContentsInv, Fine, Refers
  <1>4. /\ d \in Disks /\ Retrievable(d, p.data) /\ Indexed(d, p.data)
        /\ \A e \in Content : Retrievable(disk, e) => Retrievable(d, e)
    BY <1>1, WrittenDisk DEF ContentsInv
  <1>5. \A q \in taken : q.lease \in Leases /\ q.data \in Content /\ Indexed(d, q.data)
    BY <1>1, <1>4 DEF Pin, Leases
  <1>6. Transaction(rows, d, taken, {}) /\ ToolsTyped'
    BY DEF PutPart, ContentsInv, ToolsTyped
  <1> HIDE DEF d, taken, rows
  <1> QED
    BY <1>3, <1>4, <1>5, <1>6, TransactionStays

(* The sealed whole is readable before the file that refers to it exists.      *)
LEMMA SealKeeps ==
    ASSUME ContentsAssumption, ContentsInv, NEW t \in Transfers, NEW final \in Payloads, Seal(t, final)
    PROVE  ContentsInv' /\ ContentKept
  <1> DEFINE q == [db.transfers[t] EXCEPT !.state = "sealed", !.expected = final]
             r == [db.files[t] EXCEPT !.state = "live", !.data = final]
             base == [db EXCEPT !.transfers[t] = q]
             rows == [base EXCEPT !.files[t] = r]
             d == Written(disk, final, Media[t])
             taken == {Pin(<<t, Whole>>, final), Pin(<<t, Revision>>, final)}
  <1>1. final \in Content /\ t \in Files /\ Media[t] \in {"git", "binary"}
    BY DEF Content, Files, ContentsAssumption
  <1>2. db.transfers[t] \in TransferRows /\ db.files[t] \in FileRows /\ Fine(db)
    BY <1>1 DEF ContentsInv, Fine, Tables
  <1>3. q \in TransferRows /\ q.state = "sealed" /\ r \in FileRows /\ r.state = "live" /\ r.data = final
    BY <1>1, <1>2 DEF TransferRows, TransferStates, FileRows, FileStates
  <1>4. rows = [db EXCEPT !.transfers[t] = [@ EXCEPT !.state = "sealed", !.expected = final],
                          !.files[t] = [@ EXCEPT !.state = "live", !.data = final]]
    BY <1>2 DEF Fine, Tables
  <1>5. Transaction(rows, d, taken, {}) /\ UNCHANGED tool
    BY <1>4 DEF Seal
  <1> HIDE DEF q, r
  <1>6. Fine(base) /\ Refers(base) = Refers(db)
    BY <1>2, <1>3, TransferPut
  <1> HIDE DEF base
  <1>7. Fine(rows) /\ Refers(rows) \subseteq Refers(db) \cup {final}
    BY <1>1, <1>3, <1>6, FilePut
  <1>8. /\ d \in Disks /\ Retrievable(d, final) /\ Indexed(d, final)
        /\ \A e \in Content : Retrievable(disk, e) => Retrievable(d, e)
    BY <1>1, WrittenDisk DEF ContentsInv
  <1>9. \A p \in taken : p.lease \in Leases /\ p.data \in Content /\ Indexed(d, p.data)
    BY <1>1, <1>8 DEF Pin, Leases
  <1>10. ToolsTyped'
    BY <1>5 DEF ContentsInv, ToolsTyped
  <1> HIDE DEF d, taken, rows
  <1> QED
    BY <1>5, <1>7, <1>8, <1>9, <1>10, TransactionStays

(* A purge spares what an open download is reading.                            *)
LEMMA CleanupKeeps ==
    ASSUME ContentsInv, Cleanup
    PROVE  ContentsInv' /\ ContentKept
  <1> DEFINE transfers == [t \in Transfers |-> IF t \in Expired
                              THEN [db.transfers[t] EXCEPT !.state = "expired"] ELSE db.transfers[t]]
             chunks == {c \in db.chunks : c.transfer \notin Expired}
             files == [f \in Files |->
                         IF f \in Purgeable
                         THEN [NewFile EXCEPT !.state = "purged"]
                         ELSE IF f \in Unmarked THEN [db.files[f] EXCEPT !.mark = "none"]
                         ELSE db.files[f]]
             rows == [transfers |-> transfers, chunks |-> chunks, files |-> files]
             freed == (UNION {LeasesOf(t) : t \in Expired})
                         \cup {Pin(<<f, Revision>>, db.files[f].data) : f \in Purgeable}
  <1>0. Fine(db) /\ db.transfers \in [Transfers -> TransferRows] /\ db.files \in [Files -> FileRows]
    BY DEF ContentsInv, Fine, Tables
  <1>1. \A t \in Transfers : /\ transfers[t] \in TransferRows /\ transfers[t].due = db.transfers[t].due
                             /\ transfers[t].target = db.transfers[t].target
                             /\ transfers[t].state \in {db.transfers[t].state, "expired"}
    BY <1>0 DEF TransferRows, TransferStates
  <1>2. \A f \in Files : /\ files[f] \in FileRows
                         /\ files[f].state = "live" =>
                               db.files[f].state = "live" /\ files[f].data = db.files[f].data
                         /\ files[f].state = "purged" => f \in Purgeable \/ db.files[f].state = "purged"
    BY <1>0 DEF FileRows, FileStates, NewFile
  <1>3. rows \in Tables
    BY <1>0, <1>1, <1>2 DEF Tables, Fine
  <1> HIDE DEF transfers, files
  <1>4. \A f \in Files : rows.files[f].state = "live" => rows.files[f].data \in Content
    BY <1>0, <1>2 DEF Fine
  <1>5. ASSUME NEW t \in Transfers, rows.transfers[t].state = "open", ~rows.transfers[t].due,
               rows.transfers[t].target # NoFile
        PROVE  rows.files[rows.transfers[t].target].state # "purged"
    <2> DEFINE f == db.transfers[t].target
    <2>1. /\ db.transfers[t].state = "open" /\ ~db.transfers[t].due /\ f # NoFile
          /\ rows.transfers[t].target = f /\ f \in Files
      BY <1>0, <1>1, <1>5 DEF TransferRows
    <2>2. db.files[f].state # "purged"
      BY <1>0, <2>1 DEF Fine
    <2>3. f \notin Purgeable
      BY <2>1 DEF Purgeable, Used
    <2> QED
      BY <1>2, <2>1, <2>2, <2>3
  <1>6. \A t \in Transfers : rows.transfers[t].state = "none" => rows.transfers[t].target = NoFile
    BY <1>0, <1>1 DEF Fine
  <1>7. Fine(rows)
    BY <1>3, <1>4, <1>5, <1>6 DEF Fine
  <1>8. Refers(rows) \subseteq Refers(db)
    BY <1>2 DEF Refers
  <1>9. Transaction(rows, disk, {}, freed) /\ UNCHANGED tool
    BY DEF Cleanup, transfers, files
  <1> HIDE DEF rows, freed
  <1> QED
    BY <1>7, <1>8, <1>9, RowsStay

(* A revision reads the output of the job that it publishes.                   *)
LEMMA CommitOutputKeeps ==
    ASSUME ContentsAssumption, ContentsInv, NEW j \in Jobs, CommitOutput(j)
    PROVE  ContentsInv' /\ ContentKept
  <1> DEFINE c == tool[j].data
             r == [db.files[j] EXCEPT !.state = "live", !.data = c]
             rows == [db EXCEPT !.files[j] = r]
             taken == {Pin(<<j, Revision>>, c)}
  <1>1. c \in Content /\ j \in Files /\ Retrievable(disk, c)
    BY DEF ContentsInv, ToolsTyped, Files, CommitOutput
  <1>2. db.files[j] \in FileRows /\ Fine(db)
    BY <1>1 DEF ContentsInv, Fine, Tables
  <1>3. r \in FileRows /\ r.state = "live" /\ r.data = c
    BY <1>1, <1>2 DEF FileRows, FileStates
  <1>4. Transaction(rows, disk, taken, {}) /\ tool' = [tool EXCEPT ![j] = OutputOver]
    BY DEF CommitOutput
  <1> HIDE DEF r
  <1>5. Fine(rows) /\ Refers(rows) \subseteq Refers(db) \cup {c}
    BY <1>1, <1>2, <1>3, FilePut
  <1>6. \A p \in taken : p.lease \in Leases /\ p.data \in Content /\ Indexed(disk, p.data)
    BY <1>1 DEF Pin, Leases, Retrievable
  <1>7. ToolsTyped'
    BY <1>4 DEF ToolsTyped, OutputOver, ContentsInv
  <1> HIDE DEF rows, taken
  <1> QED
    BY <1>1, <1>4, <1>5, <1>6, <1>7, TransactionStays DEF ContentsInv

(* A step that changes neither rows nor the collector, and takes nothing       *)
(* readable away.                                                              *)
LEMMA DiskStays ==
    ASSUME ContentsInv, UNCHANGED <<db, collector, interruptions>>, disk' \in Disks, ToolsTyped',
           \A c \in Content : Retrievable(disk, c) => Retrievable(disk', c)
    PROVE  ContentsInv' /\ ContentKept
  <1>1. Referenced' = Referenced /\ Referenced \subseteq Content
    BY ReferencesAreContents DEF Referenced, Refers, ContentsInv
  <1>2. Fine(db)' /\ CollectorAside'
    BY <1>1 DEF ContentsInv, Fine, CollectorAside
  <1> QED
    BY <1>1, <1>2 DEF ContentsInv, ContentKept

(* Time passes: a row of the database is marked.                               *)
LEMMA DueKeeps ==
    ASSUME ContentsInv, NEW t \in Transfers, Due(t)
    PROVE  ContentsInv' /\ ContentKept
  <1> DEFINE r == [db.transfers[t] EXCEPT !.due = TRUE]
  <1>1. Fine(db) /\ db.transfers[t] \in TransferRows /\ db.transfers[t].state # "none"
    BY DEF ContentsInv, Fine, Tables, Due
  <1>2. r \in TransferRows /\ r.due = TRUE /\ r.state # "none"
    BY <1>1 DEF TransferRows
  <1>3. db' = [db EXCEPT !.transfers[t] = r]
    BY <1>1 DEF Due, Fine, Tables
  <1> HIDE DEF r
  <1>4. Fine(db') /\ Refers(db') = Refers(db)
    BY <1>1, <1>2, <1>3, TransferPut
  <1> QED
    BY <1>4 DEF Due, ContentsInv, Fine, Refers, Referenced, CollectorAside, ToolsTyped, ContentKept

(* Time passes: the mark of a file comes due.                                  *)
LEMMA MarkLateKeeps ==
    ASSUME ContentsInv, NEW t \in Transfers, MarkLate(t)
    PROVE  ContentsInv' /\ ContentKept
  <1> DEFINE r == [db.files[t] EXCEPT !.mark = "late"]
  <1>1. Fine(db) /\ t \in Files /\ db.files[t] \in FileRows /\ db.files \in [Files -> FileRows]
    BY DEF ContentsInv, Fine, Tables, Files
  <1>2. r \in FileRows /\ r.state = db.files[t].state /\ r.data = db.files[t].data
    BY <1>1 DEF FileRows
  <1>3. db' = [db EXCEPT !.files[t] = r]
    BY <1>1 DEF MarkLate, Fine, Tables
  <1> HIDE DEF r
  <1>4. /\ db' \in Tables /\ db'.transfers = db.transfers /\ db'.chunks = db.chunks
        /\ \A f \in Files : db'.files[f].state = db.files[f].state /\ db'.files[f].data = db.files[f].data
    BY <1>1, <1>2, <1>3 DEF Fine, Tables
  <1>5. \A u \in Transfers : db.transfers[u].target \in Files \cup {NoFile}
    BY <1>1 DEF Fine, Tables, TransferRows
  <1>6. Fine(db')
    BY <1>1, <1>4, <1>5 DEF Fine
  <1>7. Refers(db') = Refers(db)
    BY <1>4 DEF Refers
  <1> QED
    BY <1>6, <1>7 DEF MarkLate, ContentsInv, Fine, Refers, Referenced, CollectorAside, ToolsTyped, ContentKept

(* Content without a reference grows old, and stays what it is.                *)
LEMMA GrowOldKeeps ==
    ASSUME ContentsInv, NEW c \in Content, GrowOld(c)
    PROVE  ContentsInv' /\ ContentKept
  <1>1. /\ disk' \in Disks /\ disk'.kind = disk.kind /\ disk'.bytes = disk.bytes
    BY DEF GrowOld, ContentsInv, Disks
  <1>2. ToolsTyped' /\ UNCHANGED <<db, collector, interruptions>>
    BY DEF GrowOld, ContentsInv, ToolsTyped
  <1>3. \A e \in Content : Retrievable(disk, e) => Retrievable(disk', e)
    BY <1>1 DEF Retrievable, Indexed
  <1> QED
    BY <1>1, <1>2, <1>3, DiskStays

(* The collector: what it takes aside, nothing refers to.                      *)
LEMMA CollectKeeps ==
    ASSUME ContentsInv, Collect
    PROVE  ContentsInv' /\ ContentKept
  <1> DEFINE gitPins == {p.data : p \in {q \in disk.pins : q.kind = "git"}}
             todo == {c \in Content \ Rooted : Indexed(disk, c) /\ ~Spared(c, gitPins)}
  <1>1. Rooted = Referenced
    BY DEF Rooted, Referenced
  <1>2. gitPins \subseteq Content /\ todo \subseteq Content /\ todo \cap Referenced = {}
    BY <1>1 DEF ContentsInv, Disks, PinRows
  <1>3. collector' = [Idle EXCEPT !.busy = TRUE, !.todo = todo, !.gitPins = gitPins]
    BY DEF Collect
  <1>4. UNCHANGED <<db, disk, tool, interruptions>>
    BY DEF Collect
  <1> HIDE DEF gitPins, todo
  <1>5. /\ collector' = [busy |-> TRUE, gitPins |-> gitPins, todo |-> todo, doomed |-> NoContent]
    BY <1>3 DEF Idle
  <1>6. Referenced' = Referenced
    BY <1>4 DEF Referenced
  <1>7. CollectorAside'
    BY <1>2, <1>5, <1>6 DEF CollectorAside
  <1> QED
    BY <1>4, <1>6, <1>7 DEF ContentsInv, Fine, ToolsTyped, ContentKept

(* One entry is looked at, and spared or doomed.                               *)
LEMMA ExamineKeeps ==
    ASSUME ContentsInv, NEW c \in Content, Examine(c)
    PROVE  ContentsInv' /\ ContentKept
  <1> DEFINE doomed == IF Spared(c, collector.gitPins) THEN NoContent ELSE c
  <1>1. /\ collector' = [collector EXCEPT !.todo = @ \ {c}, !.doomed = doomed]
        /\ c \in collector.todo /\ UNCHANGED <<db, disk, tool, interruptions>>
    BY DEF Examine
  <1>2. doomed \in {NoContent, c}
    OBVIOUS
  <1> HIDE DEF doomed
  <1>3. Referenced' = Referenced
    BY <1>1 DEF Referenced
  <1>4. CollectorAside'
    <2>1. collector.busy
      BY <1>1 DEF ContentsInv, CollectorAside, Idle
    <2> QED
      BY <1>1, <1>2, <1>3, <2>1 DEF ContentsInv, CollectorAside
  <1> QED
    BY <1>1, <1>3, <1>4 DEF ContentsInv, Fine, ToolsTyped, ContentKept

(* The doomed entry goes, and its file unless git keeps it.                    *)
LEMMA RemoveEntryKeeps ==
    ASSUME ContentsInv, RemoveEntry
    PROVE  ContentsInv' /\ ContentKept
  <1> DEFINE c == collector.doomed
  <1>1. c \in Content /\ c \notin Referenced /\ UNCHANGED <<db, tool, interruptions>>
        /\ collector' = [collector EXCEPT !.doomed = NoContent]
    BY DEF RemoveEntry, ContentsInv, CollectorAside
  <1>2. /\ disk' \in Disks
        /\ \A e \in Content \ {c} : disk'.kind[e] = disk.kind[e] /\ disk'.bytes[e] = disk.bytes[e]
    BY <1>1 DEF RemoveEntry, ContentsInv, Disks
  <1>3. Referenced' = Referenced /\ Referenced \subseteq Content
    BY <1>1, ReferencesAreContents DEF Referenced, Refers, ContentsInv
  <1>4. CollectorAside'
    <2>1. collector.busy
      BY DEF RemoveEntry, ContentsInv, CollectorAside, Idle
    <2> QED
      BY <1>1, <1>3, <2>1 DEF ContentsInv, CollectorAside
  <1>5. ContentKept
    BY <1>1, <1>2, <1>3 DEF ContentKept, Retrievable, Indexed
  <1> QED
    BY <1>1, <1>2, <1>4, <1>5 DEF ContentsInv, Fine, ToolsTyped

(* Bytes without an entry go at the end of a collection.                       *)
LEMMA PruneKeeps ==
    ASSUME ContentsInv, Prune
    PROVE  ContentsInv' /\ ContentKept
  <1>1. UNCHANGED <<db, tool, interruptions>> /\ collector' = Idle
    BY DEF Prune
  <1>2. /\ disk' \in Disks /\ disk'.kind = disk.kind
        /\ \A e \in Content : Indexed(disk, e) => disk'.bytes[e] = disk.bytes[e]
    <2> DEFINE left == [e \in Content |-> IF Stray(e) THEN {} ELSE disk.bytes[e]]
    <2>1. disk' = [disk EXCEPT !.bytes = left]
      BY DEF Prune
    <2>2. left \in [Content -> SUBSET {"git", "binary"}]
      BY DEF ContentsInv, Disks
    <2>3. \A e \in Content : Indexed(disk, e) => left[e] = disk.bytes[e]
      BY DEF Stray
    <2> HIDE DEF left
    <2> QED
      BY <2>1, <2>2, <2>3 DEF ContentsInv, Disks
  <1>3. Referenced' = Referenced /\ Referenced \subseteq Content
    BY <1>1, ReferencesAreContents DEF Referenced, Refers, ContentsInv
  <1>4. CollectorAside'
    BY <1>1 DEF CollectorAside, Idle
  <1>5. ContentKept
    BY <1>2, <1>3 DEF ContentKept, Retrievable, Indexed
  <1> QED
    BY <1>1, <1>2, <1>4, <1>5 DEF ContentsInv, Fine, ToolsTyped

(* A collector that dies leaves entries and bytes as they are.                 *)
LEMMA CollectorDiesKeeps ==
    ASSUME ContentsInv, CollectorDies
    PROVE  ContentsInv' /\ ContentKept
  <1>1. UNCHANGED <<db, disk, tool>> /\ collector' = Idle /\ interruptions' \in 0..MaxInterruptions
    BY ContentsAssumption DEF CollectorDies, Interrupted, ContentsInv, ContentsAssumption
  <1>2. Referenced' = Referenced
    BY <1>1 DEF Referenced
  <1>3. CollectorAside'
    BY <1>1 DEF CollectorAside, Idle
  <1> QED
    BY <1>1, <1>2, <1>3 DEF ContentsInv, Fine, ToolsTyped, ContentKept

(* A tool job: only its late entry can hide what was readable.                 *)
LEMMA WriteBytesKeeps ==
    ASSUME ContentsAssumption, ContentsInv, NEW j \in Jobs, NEW c \in Outputs, WriteBytes(j, c)
    PROVE  ContentsInv' /\ ContentKept
  <1>1. c \in Content /\ Media[j] \in {"git", "binary"}
    BY DEF Content, ContentsAssumption
  <1>2. UNCHANGED <<db, collector, interruptions>> /\ ToolsTyped'
    BY <1>1 DEF WriteBytes, ContentsInv, ToolsTyped
  <1>3. /\ disk' \in Disks /\ disk'.kind = disk.kind
        /\ \A e \in Content : disk.bytes[e] \subseteq disk'.bytes[e]
    BY <1>1 DEF WriteBytes, ContentsInv, Disks
  <1>4. \A e \in Content : Retrievable(disk, e) => Retrievable(disk', e)
    BY <1>3 DEF Retrievable, Indexed
  <1> QED
    BY <1>2, <1>3, <1>4, DiskStays

(* The entry of a job follows its bytes; it is late if they were collected.    *)
LEMMA WriteIndexKeeps ==
    ASSUME ContentsAssumption, ContentsInv, NEW j \in Jobs, WriteIndex(j)
    PROVE  ContentsInv' /\ ContentKept
  <1> DEFINE c == tool[j].data
  <1>1. c \in Content /\ Media[j] \in {"git", "binary"} /\ tool[j].step = "written"
    BY DEF WriteIndex, ContentsInv, ToolsTyped, ContentsAssumption
  <1>2. UNCHANGED <<db, collector, interruptions>> /\ ToolsTyped' /\ tool'[j].step = "indexed"
    BY <1>1 DEF WriteIndex, ContentsInv, ToolsTyped
  <1>3. /\ disk' \in Disks /\ disk'.bytes = disk.bytes
        /\ disk'.kind[c] = Media[j] /\ \A e \in Content \ {c} : disk'.kind[e] = disk.kind[e]
    BY <1>1 DEF WriteIndex, ContentsInv, Disks
  <1>4. \A e \in Content \ {c} : Retrievable(disk, e) => Retrievable(disk', e)
    BY <1>3 DEF Retrievable, Indexed
  <1>5. Referenced' = Referenced /\ Referenced \subseteq Content
    BY <1>2, ReferencesAreContents DEF Referenced, Refers, ContentsInv
  <1>6. CollectorAside'
    BY <1>2, <1>5 DEF ContentsInv, CollectorAside
  <1>7. Late(j) \/ Retrievable(disk', c)
    BY <1>1, <1>3 DEF Late, Retrievable, Indexed
  <1>8. ContentKept
    BY <1>2, <1>4, <1>5, <1>7 DEF ContentKept
  <1> QED
    BY <1>2, <1>3, <1>6, <1>8 DEF ContentsInv, Fine

(* The lease of an output changes neither index nor bytes.                     *)
LEMMA PinOutputKeeps ==
    ASSUME ContentsInv, NEW j \in Jobs, PinOutput(j)
    PROVE  ContentsInv' /\ ContentKept
  <1> DEFINE c == tool[j].data
             pin == Held(disk, {Pin(<<j, Output>>, c)})
  <1>1. c \in Content /\ Indexed(disk, c)
    BY DEF PinOutput, ContentsInv, ToolsTyped
  <1>2. pin \subseteq PinRows
    BY <1>1 DEF Held, Pin, PinRows, Leases, Indexed, ContentsInv, Disks
  <1>3. UNCHANGED <<db, collector, interruptions>> /\ ToolsTyped'
    BY DEF PinOutput, ContentsInv, ToolsTyped
  <1>4. disk' = [disk EXCEPT !.pins = (@ \cup pin) \ Held(disk, {})]
    BY DEF PinOutput, Done
  <1> HIDE DEF pin
  <1>5. disk' \in Disks /\ disk'.kind = disk.kind /\ disk'.bytes = disk.bytes
    BY <1>2, <1>4 DEF ContentsInv, Disks
  <1>6. \A e \in Content : Retrievable(disk, e) => Retrievable(disk', e)
    BY <1>5 DEF Retrievable, Indexed
  <1> QED
    BY <1>3, <1>5, <1>6, DiskStays

(* An abandoned output stays as it is.                                         *)
LEMMA AbandonOutputKeeps ==
    ASSUME ContentsInv, NEW j \in Jobs, AbandonOutput(j)
    PROVE  ContentsInv' /\ ContentKept
  <1>1. UNCHANGED <<db, disk, collector, interruptions>> /\ ToolsTyped'
    BY DEF AbandonOutput, OutputOver, ContentsInv, ToolsTyped
  <1>2. disk' \in Disks
    BY <1>1 DEF ContentsInv
  <1> QED
    BY <1>1, <1>2, DiskStays DEF Retrievable, Indexed

-----------------------------------------------------------------------------
(* Every step of the specification is one of these.                            *)
LEMMA ContentsStep ==
    ASSUME ContentsAssumption, ContentsInv, [NextContents]_contents_vars
    PROVE  ContentsInv' /\ ContentKept
  <1>1. CASE Clients
    BY <1>1, OpenUploadKeeps, OpenDownloadKeeps, PutPartKeeps, SealKeeps, CancelKeeps,
       SealQueryKeeps, UseFileKeeps, PurgeFileKeeps DEF Clients
  <1>2. CASE \E t \in Transfers : Due(t) \/ MarkLate(t)
    BY <1>2, DueKeeps, MarkLateKeeps
  <1>3. CASE \E c \in Content : GrowOld(c)
    BY <1>3, GrowOldKeeps
  <1>4. CASE Cleanup \/ Collect \/ CollectorDies
    BY <1>4, CleanupKeeps, CollectKeeps, CollectorDiesKeeps
  <1>5. CASE Collecting
    BY <1>5, RemoveEntryKeeps, PruneKeeps, ExamineKeeps DEF Collecting
  <1>6. CASE \E j \in Jobs : ToolStep(j)
    BY <1>6, WriteBytesKeeps, WriteIndexKeeps, PinOutputKeeps, CommitOutputKeeps, AbandonOutputKeeps
       DEF ToolStep
  <1>7. CASE UNCHANGED contents_vars
    BY <1>7 DEF contents_vars, ContentsInv, Fine, ToolsTyped, CollectorAside, Referenced,
       ContentKept, Retrievable, Indexed
  <1> QED
    BY <1>1, <1>2, <1>3, <1>4, <1>5, <1>6, <1>7 DEF NextContents

(* The first state: no rows, an empty store, expired sessions at most.         *)
LEMMA ContentsStart ==
    ASSUME ContentsAssumption, InitContents
    PROVE  ContentsInv
  <1>1. PICK gone \in SUBSET Transfers :
            db = [transfers |-> [t \in Transfers |-> IF t \in gone
                      THEN [NewTransfer EXCEPT !.state = "expired", !.due = TRUE] ELSE NewTransfer],
                  chunks |-> {}, files |-> [f \in Files |-> NewFile]]
    BY DEF InitContents
  <1>2. /\ [NewTransfer EXCEPT !.state = "expired", !.due = TRUE] \in TransferRows
        /\ NewTransfer \in TransferRows /\ NewFile \in FileRows
    BY DEF NewTransfer, NewFile, TransferRows, FileRows, TransferStates, FileStates
  <1>3. db \in Tables
    BY <1>1, <1>2 DEF Tables
  <1>4. /\ \A t \in Transfers : db.transfers[t].state # "open" /\ db.transfers[t].target = NoFile
        /\ \A f \in Files : db.files[f].state = "none"
    BY <1>1 DEF NewTransfer, NewFile
  <1>5. Fine(db)
    BY <1>3, <1>4 DEF Fine
  <1>6. disk \in Disks
    BY DEF InitContents, Disks
  <1>7. ToolsTyped
    BY DEF InitContents, ToolsTyped, OutputOver
  <1>8. CollectorAside
    BY DEF InitContents, CollectorAside, Idle
  <1> QED
    BY <1>5, <1>6, <1>7, <1>8 DEF ContentsInv, InitContents

(* What the rows, the disk and the collector are in every reachable state.     *)
THEOREM ContentsInvariance == ContentsSpec => []ContentsInv
  <1>1. InitContents => ContentsInv
    BY ContentsAssumption, ContentsStart
  <1>2. ContentsInv /\ [NextContents]_contents_vars => ContentsInv'
    BY ContentsAssumption, ContentsStep
  <1> QED
    BY <1>1, <1>2, PTL DEF ContentsSpec

(* Rows, index and pins have the shapes the code gives them.                   *)
THEOREM ContentsAlwaysTyped == ContentsSpec => []ContentsTyped
  <1>1. ContentsInv => ContentsTyped
    BY DEF ContentsInv, ContentsTyped, Fine, Tables, TransferRows, ChunkRows, FileRows, PinRows, Disks
  <1> QED
    BY <1>1, ContentsInvariance, PTL

(* No step loses what a chunk or a file refers to, but for the late entry of a *)
(* tool job whose file was collected before it was indexed.                    *)
THEOREM ContentAlwaysKept == ContentsSpec => [][ContentKept]_contents_vars
  <1>1. ContentsInv /\ [NextContents]_contents_vars => [ContentKept]_contents_vars
    BY ContentsAssumption, ContentsStep
  <1> QED
    BY <1>1, ContentsInvariance, PTL DEF ContentsSpec

(* Retention never takes the file that an open download is reading.            *)
THEOREM DownloadsAlwaysServed == ContentsSpec => []DownloadsServed
  <1>1. ContentsInv => DownloadsServed
    BY DEF ContentsInv, DownloadsServed, Fine
  <1> QED
    BY <1>1, ContentsInvariance, PTL
-----------------------------------------------------------------------------
(* Parts as they are staged: bytes at an offset, none empty, none over another. *)
End(c) == c.offset + Len(c.data)

(* Parts with bytes at their offsets, none over another.                    *)
Laid(S) ==
    /\ IsFiniteSet(S)
    /\ \A c \in S : c.offset \in Nat /\ Len(c.data) \in Nat /\ Len(c.data) >= 1
    /\ \A c, e \in S : c # e => End(c) <= e.offset \/ End(e) <= c.offset

(* Their order by offset: every part once, none before the end of the one      *)
(* before it.                                                                  *)
Ordered(s, S, n) ==
    /\ n \in Nat /\ s \in [1..n -> S]
    /\ \A c \in S : \E k \in 1..n : s[k] = c
    /\ \A i, j \in 1..n : i < j => End(s[i]) <= s[j].offset

(* A finite set of parts that are laid out has an order.                    *)
LEMMA InOrderExists ==
    ASSUME NEW S, Laid(S)
    PROVE  \E s \in SetToSeqs(S) : \A i, j \in DOMAIN s : i < j => s[i].offset < s[j].offset
  <1> DEFINE n == Cardinality(S)
             Upto(c) == {e \in S : e.offset <= c.offset}
             rank == [c \in S |-> Cardinality(Upto(c))]
  <1>1. n \in Nat /\ IsFiniteSet(S) /\ IsFiniteSet(1..n) /\ Cardinality(1..n) = n
    <2>1. n \in Nat /\ IsFiniteSet(S)
      BY FS_CardinalityType DEF Laid
    <2> HIDE DEF n
    <2> QED
      BY <2>1, FS_Interval
  <1>2. \A c \in S : c.offset \in Nat
    BY DEF Laid
  <1>3. ASSUME NEW c \in S PROVE /\ Upto(c) \in SUBSET S /\ IsFiniteSet(Upto(c)) /\ rank[c] \in 1..n
                                 /\ rank[c] = Cardinality(Upto(c))
    <2>1. Upto(c) \in SUBSET S /\ c \in Upto(c)
      BY <1>2
    <2> HIDE DEF Upto
    <2>2. /\ IsFiniteSet(Upto(c)) /\ Cardinality(Upto(c)) \in Nat
          /\ Cardinality(Upto(c)) <= n /\ Cardinality(Upto(c)) # 0
      BY <1>1, <2>1, FS_Subset, FS_CardinalityType, FS_EmptySet
    <2> HIDE DEF n
    <2> QED
      BY <2>1, <2>2, <1>1
  <1>4. \A c, e \in S : c.offset < e.offset => rank[c] < rank[e]
    <2> SUFFICES ASSUME NEW c \in S, NEW e \in S, c.offset < e.offset PROVE rank[c] < rank[e]
      OBVIOUS
    <2>1. Upto(c) \in SUBSET Upto(e) /\ e \in Upto(e) /\ e \notin Upto(c)
      BY <1>2
    <2> HIDE DEF Upto, rank, n
    <2>2. IsFiniteSet(Upto(e)) /\ rank[c] = Cardinality(Upto(c)) /\ rank[e] = Cardinality(Upto(e))
          /\ rank[c] \in Nat /\ rank[e] \in Nat
      BY <1>3, <1>1
    <2>3. Cardinality(Upto(c)) <= Cardinality(Upto(e)) /\ Cardinality(Upto(c)) # Cardinality(Upto(e))
      BY <2>1, <2>2, FS_Subset
    <2> QED
      BY <2>2, <2>3
  <1>5. \A c, e \in S : c # e => c.offset < e.offset \/ e.offset < c.offset
    BY DEF Laid, End
  <1>6. rank \in [S -> 1..n]
    BY <1>3
  <1> HIDE DEF rank, n
  <1>7. \A c, e \in S : rank[c] = rank[e] => c = e
    BY <1>1, <1>4, <1>5, <1>6
  <1>8. rank \in Injection(S, 1..n)
    BY <1>6, <1>7 DEF Injection, IsInjective
  <1>9. rank \in Surjection(S, 1..n)
    BY <1>8, <1>1, FS_Injection DEF n
  <1>10. \A k \in 1..n : \E c \in S : rank[c] = k
    BY <1>9 DEF Surjection
  <1> DEFINE s == [k \in 1..n |-> CHOOSE c \in S : rank[c] = k]
  <1>11. \A k \in 1..n : s[k] \in S /\ rank[s[k]] = k
    BY <1>10
  <1>12. DOMAIN s = 1..n
    OBVIOUS
  <1>13. s \in [1..n -> S]
    BY <1>11
  <1> HIDE DEF s
  <1>14. s \in SetToSeqs(S)
    BY <1>11, <1>13 DEF SetToSeqs, n
  <1>15. \A i, j \in 1..n : i < j => s[i].offset < s[j].offset
    <2> SUFFICES ASSUME NEW i \in 1..n, NEW j \in 1..n, i < j PROVE s[i].offset < s[j].offset
      OBVIOUS
    <2>1. s[i] \in S /\ s[j] \in S /\ rank[s[i]] = i /\ rank[s[j]] = j /\ i \in Nat /\ j \in Nat
      BY <1>11, <1>1
    <2>2. s[i] # s[j]
      BY <2>1
    <2>3. ~(s[j].offset < s[i].offset)
      BY <2>1, <1>4
    <2> QED
      BY <2>1, <2>2, <2>3, <1>5
  <1> QED
    BY <1>12, <1>14, <1>15

(* InOrder() is such an order.                                              *)
LEMMA InOrderMeant ==
    ASSUME NEW S, Laid(S)
    PROVE  Ordered(InOrder(S), S, Cardinality(S))
  <1> DEFINE s == InOrder(S)
             n == Cardinality(S)
  <1>1. s \in SetToSeqs(S) /\ \A i, j \in DOMAIN s : i < j => s[i].offset < s[j].offset
    BY InOrderExists DEF InOrder
  <1>2. n \in Nat /\ IsFiniteSet(S) /\ IsFiniteSet(1..n) /\ Cardinality(1..n) = n
    <2>1. n \in Nat /\ IsFiniteSet(S)
      BY FS_CardinalityType DEF Laid
    <2> HIDE DEF n
    <2> QED
      BY <2>1, FS_Interval
  <1>3. s \in [1..n -> S] /\ \A i, j \in 1..n : i # j => s[i] # s[j]
    BY <1>1 DEF SetToSeqs
  <1> HIDE DEF s, n
  <1>4. s \in Injection(1..n, S)
    BY <1>3 DEF Injection, IsInjective
  <1>5. s \in Surjection(1..n, S)
    BY <1>2, <1>4, FS_Injection DEF n
  <1>6. \A c \in S : \E k \in 1..n : s[k] = c
    BY <1>5 DEF Surjection
  <1>7. ASSUME NEW i \in 1..n, NEW j \in 1..n, i < j PROVE End(s[i]) <= s[j].offset
    <2>1. s[i] \in S /\ s[j] \in S /\ s[i].offset < s[j].offset
      BY <1>1, <1>3, <1>7
    <2> QED
      BY <2>1 DEF Laid, End
  <1>8. Ordered(s, S, n)
    BY <1>2, <1>3, <1>6, <1>7 DEF Ordered
  <1> QED
    BY <1>8 DEF s, n

(* What has been assembled after each part.                                    *)
AssembledFold(g, s) ==
    g = [T \in SUBSET DOMAIN s |-> IF T = {} THEN << >> ELSE g[T \ {Greatest(T)}] \o s[Greatest(T)].data]

(* Assembled() as the library defines it.                                   *)
LEMMA AssembledIsFold ==
    ASSUME NEW S
    PROVE  Assembled(S) = (CHOOSE g : AssembledFold(g, InOrder(S)))[DOMAIN InOrder(S)]
  BY DEF Assembled, FoldLeft, MapThenFoldSet, Max, Greatest, AssembledFold

(* What Assembled() has put together after each part.                       *)
LEMMA AssembledTrace ==
    ASSUME NEW S, NEW X, NEW n, Ordered(InOrder(S), S, n), \A c \in S : c.data \in Seq(X)
    PROVE  \E r \in [0..n -> Seq(X)] :
              /\ r[0] = << >> /\ Assembled(S) = r[n]
              /\ \A k \in 1..n : r[k] = r[k - 1] \o InOrder(S)[k].data
  <1> DEFINE s == InOrder(S)
             A == Seq(X)
             step == [q \in A \X (1..n) |-> q[1] \o s[q[2]].data]
             base == << >>
             h == CHOOSE g : AssembledFold(g, s)
  <1>1. n \in Nat /\ DOMAIN s = 1..n /\ \A k \in 1..n : s[k].data \in A
    BY DEF Ordered
  <1>0. n \in Nat
    BY <1>1
  <1>2. Assembled(S) = h[1..n]
    BY <1>1, AssembledIsFold
  <1> HIDE DEF s
  <1>3. step \in StepFunctions(A, n) /\ base \in A
    BY <1>1, ConcatProperties, EmptySeq DEF StepFunctions
  <1>4. \A a \in A, k \in 1..n : step[<<a, k>>] = a \o s[k].data
    OBVIOUS
  <1> HIDE DEF A, step, base, h
  <1>5. \E g : AssembledFold(g, s)
    <2>1. PICK g \in [SUBSET (1..n) -> A] : LeftFold(g, n, step, base)
      BY <1>0, <1>3, FoldOfIndices
    <2>2. ASSUME NEW T \in SUBSET (1..n)
          PROVE  g[T] = IF T = {} THEN << >> ELSE g[T \ {Greatest(T)}] \o s[Greatest(T)].data
      <3>1. T # {} => Greatest(T) \in 1..n /\ g[T \ {Greatest(T)}] \in A
        BY <1>1, LastOf
      <3> QED
        BY <2>1, <3>1, <1>4 DEF LeftFold, base
    <2>3. g = [T \in SUBSET (1..n) |-> g[T]]
      OBVIOUS
    <2>4. AssembledFold(g, s)
      BY <1>1, <2>2, <2>3 DEF AssembledFold
    <2> QED
      BY <2>4
  <1>6. AssembledFold(h, s)
    BY <1>5 DEF h
  <1>7. \A T \in SUBSET (1..n) : h[T] = IF T = {} THEN << >> ELSE h[T \ {Greatest(T)}] \o s[Greatest(T)].data
    BY <1>1, <1>6 DEF AssembledFold
  <1>8. ASSUME NEW T \in SUBSET (1..n), T # {}, h[T \ {Greatest(T)}] \in A
        PROVE  h[T] = step[<<h[T \ {Greatest(T)}], Greatest(T)>>]
    <2>1. Greatest(T) \in 1..n
      BY <1>1, <1>8, LastOf
    <2> QED
      BY <1>4, <1>7, <1>8, <2>1
  <1>9. FoldsWithin(h, A, n, step, base)
    BY <1>7, <1>8 DEF FoldsWithin, base
  <1>10. PICK r : Trace(r, A, n, step, base) /\ r[n] = h[1..n]
    BY <1>0, <1>3, <1>9, FoldTrace
  <1>11. \A k \in 1..n : r[k] = r[k - 1] \o s[k].data
    <2> SUFFICES ASSUME NEW k \in 1..n PROVE r[k] = r[k - 1] \o s[k].data
      OBVIOUS
    <2>1. k - 1 \in 0..n /\ r[k - 1] \in A
      BY <1>0, <1>10 DEF Trace
    <2> QED
      BY <1>4, <1>10, <2>1 DEF Trace
  <1> QED
    BY <1>2, <1>10, <1>11 DEF s, A, base, Trace
-----------------------------------------------------------------------------
(* What Covers finds: every part at its offset, and nothing else.              *)
AsSent(S, final) ==
    /\ \A c \in S : \A i \in 1..Len(c.data) :
          /\ c.offset + i \in DOMAIN final
          /\ final[c.offset + i] = c.data[i]
    /\ DOMAIN final = UNION {(c.offset + 1)..End(c) : c \in S}

(* Covers() takes no other bytes than those of the parts, in their places.  *)
LEMMA CoversMeant ==
    ASSUME NEW S, Laid(S), NEW X, \A c \in S : c.data \in Seq(X), NEW final, Covers(S, final)
    PROVE  AsSent(S, final)
  <1> DEFINE s == InOrder(S)
             n == Cardinality(S)
  <1>1. Ordered(s, S, n)
    BY InOrderMeant
  <1> HIDE DEF n
  <1>3. PICK r \in [0..n -> Seq(X)] :
            /\ r[0] = << >> /\ Assembled(S) = r[n]
            /\ \A k \in 1..n : r[k] = r[k - 1] \o s[k].data
    BY <1>1, AssembledTrace
  <1> HIDE DEF s
  <1>2. n \in Nat /\ DOMAIN s = 1..n /\ \A k \in 1..n : s[k] \in S /\ s[k].data \in Seq(X)
    BY <1>1 DEF Ordered
  <1>4. final = r[n]
    BY <1>3 DEF Covers
  <1> DEFINE e == [k \in 0..n |-> IF k = 0 THEN 0 ELSE End(s[k])]
  <1>5. \A c \in S : c.offset \in Nat /\ Len(c.data) \in Nat /\ Len(c.data) >= 1 /\ End(c) \in Nat
                     /\ End(c) = c.offset + Len(c.data)
    BY DEF Laid, End
  <1>6. e[0] = 0 /\ \A k \in 1..n : e[k] = End(s[k])
    BY <1>2
  <1> HIDE DEF e
  (* Each part begins where the one before it ends.                            *)
  <1>7. ASSUME NEW k \in 1..n PROVE s[k].offset = e[k - 1]
    <2>1. s[k] \in S /\ k \in Nat
      BY <1>2
    <2>2. CASE s[k].offset = 0
      <3>1. k = 1
        <4> SUFFICES ASSUME k # 1 PROVE FALSE
          OBVIOUS
        <4>1. k - 1 \in 1..n /\ k - 1 < k
          BY <1>2
        <4>2. End(s[k - 1]) <= s[k].offset /\ s[k - 1] \in S
          BY <1>1, <1>2, <4>1 DEF Ordered
        <4> QED
          BY <4>2, <2>2, <1>5
      <3> QED
        BY <2>2, <3>1, <1>6
    <2>3. CASE s[k].offset # 0
      <3>1. PICK d \in S : d.offset + Len(d.data) = s[k].offset
        BY <2>1, <2>3 DEF Covers
      <3>2. PICK j \in 1..n : s[j] = d
        BY <1>1 DEF Ordered
      <3>3. End(s[j]) = s[k].offset /\ s[j] \in S
        BY <3>1, <3>2 DEF End
      <3>4. j # k
        BY <3>3, <1>5
      <3>5. ~(k < j)
        <4> SUFFICES ASSUME k < j PROVE FALSE
          OBVIOUS
        <4>1. End(s[k]) <= s[j].offset
          BY <1>1 DEF Ordered
        <4>2. \A c \in S : c.offset \in Nat /\ End(c) \in Nat /\ c.offset < End(c)
          BY <1>5
        <4>3. s[k].offset \in Nat /\ s[k].offset < End(s[k]) /\ End(s[k]) \in Nat
          BY <4>2, <2>1
        <4>4. s[j].offset \in Nat /\ s[j].offset < End(s[j]) /\ End(s[j]) \in Nat
          BY <4>2, <3>3
        <4> QED
          BY <4>1, <4>3, <4>4, <3>3
      <3>6. ~(j < k - 1)
        <4> SUFFICES ASSUME j < k - 1 PROVE FALSE
          OBVIOUS
        <4>0. k - 1 \in 1..n /\ k - 1 < k
          BY <1>2
        <4>1. \A x, y \in 1..n : x < y => End(s[x]) <= s[y].offset
          BY <1>1 DEF Ordered
        <4>2. End(s[j]) <= s[k - 1].offset /\ End(s[k - 1]) <= s[k].offset /\ s[k - 1] \in S
          BY <4>0, <4>1, <1>2
        <4>3. s[k - 1].offset \in Nat /\ s[k - 1].offset < End(s[k - 1]) /\ End(s[k - 1]) \in Nat
          <5>1. \A c \in S : c.offset \in Nat /\ End(c) \in Nat /\ c.offset < End(c)
            BY <1>5
          <5> QED
            BY <4>2, <5>1
        <4> QED
          BY <4>2, <4>3, <3>3, <2>1, <1>5
      <3>7. j = k - 1
        BY <3>4, <3>5, <3>6, <1>2
      <3> QED
        BY <3>7, <3>3, <1>6
    <2> QED
      BY <2>2, <2>3
  <1> DEFINE P == {k \in 0..n :
                     /\ Len(r[k]) = e[k]
                     /\ \A m \in 1..k : \A i \in 1..Len(s[m].data) :
                           /\ s[m].offset + i \in 1..Len(r[k])
                           /\ r[k][s[m].offset + i] = s[m].data[i]
                     /\ \A q \in 1..Len(r[k]) : \E m \in 1..k : q \in (s[m].offset + 1)..End(s[m])}
  <1>8. 0 \in P
    BY <1>2, <1>3, <1>6
  <1>9. ASSUME NEW k \in 1..n, k - 1 \in P PROVE k \in P
    <2> DEFINE a == r[k - 1]
               b == s[k].data
    <2>0. k - 1 \in 0..n /\ k \in 0..n /\ k \in Nat /\ s[k] \in S
      BY <1>2
    <2>1. /\ k - 1 \in 0..n /\ k \in 0..n /\ a \in Seq(X) /\ b \in Seq(X) /\ r[k] = a \o b
          /\ Len(a) \in Nat /\ Len(b) \in Nat /\ k \in Nat /\ s[k] \in S
      <3>1. a \in Seq(X) /\ b \in Seq(X) /\ r[k] = a \o b
        BY <2>0, <1>2, <1>3
      <3> HIDE DEF a, b
      <3> QED
        BY <2>0, <3>1, LenProperties
    <2>2. /\ Len(a) = e[k - 1]
          /\ \A m \in 1..(k - 1) : \A i \in 1..Len(s[m].data) :
                s[m].offset + i \in 1..Len(a) /\ a[s[m].offset + i] = s[m].data[i]
          /\ \A q \in 1..Len(a) : \E m \in 1..(k - 1) : q \in (s[m].offset + 1)..End(s[m])
      BY <1>9
    <2>3. /\ Len(r[k]) = Len(a) + Len(b)
          /\ \A q \in 1..Len(a) : r[k][q] = a[q]
          /\ \A q \in 1..Len(b) : r[k][Len(a) + q] = b[q]
      <3>1. /\ Len(a \o b) = Len(a) + Len(b)
            /\ \A q \in 1..(Len(a) + Len(b)) : (a \o b)[q] = IF q <= Len(a) THEN a[q] ELSE b[q - Len(a)]
        BY <2>1, ConcatProperties
      <3> HIDE DEF a, b
      <3>2. \A q \in 1..Len(a) : q \in 1..(Len(a) + Len(b)) /\ q <= Len(a)
        BY <2>1
      <3>3. \A q \in 1..Len(b) : Len(a) + q \in 1..(Len(a) + Len(b)) /\ ~(Len(a) + q <= Len(a)) /\ Len(a) + q - Len(a) = q
        BY <2>1
      <3> QED
        BY <2>1, <3>1, <3>2, <3>3
    <2>4. s[k].offset = Len(a) /\ End(s[k]) = Len(a) + Len(b)
      BY <1>7, <2>1, <2>2, <1>5
    <2>5. Len(r[k]) = e[k]
      BY <2>3, <2>4, <1>6
    <2>6. ASSUME NEW m \in 1..k, NEW i \in 1..Len(s[m].data)
          PROVE  s[m].offset + i \in 1..Len(r[k]) /\ r[k][s[m].offset + i] = s[m].data[i]
      <3>1. CASE m = k
        BY <3>1, <2>1, <2>3, <2>4, <2>6
      <3>2. CASE m # k
        <4>1. m \in 1..(k - 1)
          BY <3>2, <2>1
        <4>2. s[m].offset + i \in 1..Len(a) /\ a[s[m].offset + i] = s[m].data[i]
          BY <4>1, <2>2, <2>6
        <4> HIDE DEF a, b
        <4> QED
          BY <4>2, <2>1, <2>3
      <3> QED
        BY <3>1, <3>2
    <2>7. ASSUME NEW q \in 1..Len(r[k]) PROVE \E m \in 1..k : q \in (s[m].offset + 1)..End(s[m])
      <3>1. CASE q \in 1..Len(a)
        <4>1. PICK m \in 1..(k - 1) : q \in (s[m].offset + 1)..End(s[m])
          BY <3>1, <2>2
        <4>2. m \in 1..k
          BY <2>1
        <4> QED
          BY <4>1, <4>2
      <3>2. CASE q \notin 1..Len(a)
        <4> HIDE DEF a, b
        <4>1. q \in (s[k].offset + 1)..End(s[k]) /\ k \in 1..k
          BY <3>2, <2>1, <2>3, <2>4
        <4> QED
          BY <4>1
      <3> QED
        BY <3>1, <3>2
    <2> QED
      BY <2>1, <2>5, <2>6, <2>7
  <1>10. n \in P
    <2> HIDE DEF P
    <2>1. P = 0..n
      <3>1. P \in SUBSET (0..n)
        BY DEF P
      <3> QED
        BY <3>1, <1>2, <1>8, <1>9, Reaches
    <2> QED
      BY <2>1, <1>2
  <1>11. final \in Seq(X) /\ DOMAIN final = 1..Len(final) /\ Len(final) \in Nat
    BY <1>2, <1>3, <1>4, LenProperties
  <1>12. ASSUME NEW c \in S, NEW i \in 1..Len(c.data)
         PROVE  c.offset + i \in 1..Len(final) /\ final[c.offset + i] = c.data[i]
    <2>1. PICK m \in 1..n : s[m] = c
      BY <1>1 DEF Ordered
    <2> QED
      BY <2>1, <1>4, <1>10
  <1>13. ASSUME NEW q \in 1..Len(final) PROVE \E c \in S : q \in (c.offset + 1)..End(c)
    <2>1. PICK m \in 1..n : q \in (s[m].offset + 1)..End(s[m])
      BY <1>4, <1>10
    <2> QED
      BY <2>1, <1>2
  <1>14. ASSUME NEW c \in S, NEW q \in (c.offset + 1)..End(c) PROVE q \in 1..Len(final)
    <2>1. q - c.offset \in 1..Len(c.data) /\ c.offset + (q - c.offset) = q
      BY <1>5
    <2> QED
      BY <2>1, <1>12
  <1>15. DOMAIN final = UNION {(c.offset + 1)..End(c) : c \in S}
    BY <1>11, <1>13, <1>14
  <1> QED
    BY <1>11, <1>12, <1>15 DEF AsSent
-----------------------------------------------------------------------------
(* What a status call has found once it has passed a part.                     *)
Scans == [start : Nat, gaps : Seq(Nat \X Nat)]

(* What a status call makes of one part.                                    *)
Scanned(scan, c) ==
    [start |-> End(c),
     gaps  |-> IF c.offset > scan.start THEN Append(scan.gaps, <<scan.start, c.offset>>) ELSE scan.gaps]

(* The fold of the parts after the cursor.                                  *)
ScanFold(g, s, cursor) ==
    g = [T \in SUBSET DOMAIN s |-> IF T = {} THEN [start |-> cursor, gaps |-> << >>]
                                  ELSE Scanned(g[T \ {Greatest(T)}], s[Greatest(T)])]

(* The parts that end after the cursor.                                     *)
After(S, cursor) == {c \in S : End(c) > cursor}

(* GapsFrom() as the library defines it.                                    *)
LEMMA ScanIsFold ==
    ASSUME NEW S, NEW cursor
    PROVE  GapsFrom(S, cursor) =
              (CHOOSE g : ScanFold(g, InOrder(After(S, cursor)), cursor))[DOMAIN InOrder(After(S, cursor))]
  BY DEF GapsFrom, FoldLeft, MapThenFoldSet, Max, Greatest, ScanFold, Scanned, After, End

(* The scan of a part is a scan.                                            *)
LEMMA ScanTyped ==
    ASSUME NEW a \in Scans, NEW c, c.offset \in Nat, End(c) \in Nat
    PROVE  Scanned(a, c) \in Scans
  <1>1. a.start \in Nat /\ a.gaps \in Seq(Nat \X Nat)
    BY DEF Scans
  <1>2. <<a.start, c.offset>> \in Nat \X Nat
    BY <1>1
  <1>3. Append(a.gaps, <<a.start, c.offset>>) \in Seq(Nat \X Nat)
    BY <1>1, <1>2, AppendProperties
  <1> QED
    BY <1>1, <1>3 DEF Scanned, Scans

(* What a status call has found after each part.                            *)
LEMMA ScanTrace ==
    ASSUME NEW S, NEW n, NEW cursor \in Nat, Laid(After(S, cursor)),
           Ordered(InOrder(After(S, cursor)), After(S, cursor), n)
    PROVE  \E r \in [0..n -> Scans] :
              /\ r[0] = [start |-> cursor, gaps |-> << >>] /\ GapsFrom(S, cursor) = r[n]
              /\ \A k \in 1..n : r[k] = Scanned(r[k - 1], InOrder(After(S, cursor))[k])
  <1> DEFINE s == InOrder(After(S, cursor))
             A == Scans
             step == [q \in A \X (1..n) |-> Scanned(q[1], s[q[2]])]
             base == [start |-> cursor, gaps |-> << >>]
             h == CHOOSE g : ScanFold(g, s, cursor)
  <1>1. n \in Nat /\ DOMAIN s = 1..n /\ \A k \in 1..n : s[k].offset \in Nat /\ End(s[k]) \in Nat
    BY DEF Ordered, Laid, End
  <1>0. n \in Nat
    BY <1>1
  <1>2. GapsFrom(S, cursor) = h[1..n]
    BY <1>1, ScanIsFold
  <1> HIDE DEF s
  <1>3. step \in StepFunctions(A, n) /\ base \in A
    <2>1. \A q \in A \X (1..n) : Scanned(q[1], s[q[2]]) \in A
      BY <1>1, ScanTyped
    <2>2. base \in A
      BY EmptySeq DEF Scans
    <2> QED
      BY <2>1, <2>2 DEF StepFunctions
  <1>4. \A a \in A, k \in 1..n : step[<<a, k>>] = Scanned(a, s[k])
    OBVIOUS
  <1> HIDE DEF A, step, base, h
  <1>5. \E g : ScanFold(g, s, cursor)
    <2>1. PICK g \in [SUBSET (1..n) -> A] : LeftFold(g, n, step, base)
      BY <1>0, <1>3, FoldOfIndices
    <2>2. ASSUME NEW T \in SUBSET (1..n)
          PROVE  g[T] = IF T = {} THEN base ELSE Scanned(g[T \ {Greatest(T)}], s[Greatest(T)])
      <3>1. T # {} => Greatest(T) \in 1..n /\ g[T \ {Greatest(T)}] \in A
        BY <1>1, LastOf
      <3> QED
        BY <2>1, <3>1, <1>4 DEF LeftFold
    <2>3. g = [T \in SUBSET (1..n) |-> g[T]]
      OBVIOUS
    <2>4. ScanFold(g, s, cursor)
      BY <1>1, <2>2, <2>3 DEF ScanFold, base
    <2> QED
      BY <2>4
  <1>6. ScanFold(h, s, cursor)
    BY <1>5 DEF h
  <1>7. \A T \in SUBSET (1..n) : h[T] = IF T = {} THEN base ELSE Scanned(h[T \ {Greatest(T)}], s[Greatest(T)])
    BY <1>1, <1>6 DEF ScanFold, base
  <1>8. ASSUME NEW T \in SUBSET (1..n), T # {}, h[T \ {Greatest(T)}] \in A
        PROVE  h[T] = step[<<h[T \ {Greatest(T)}], Greatest(T)>>]
    <2>1. Greatest(T) \in 1..n
      BY <1>1, <1>8, LastOf
    <2> QED
      BY <1>4, <1>7, <1>8, <2>1
  <1>9. FoldsWithin(h, A, n, step, base)
    BY <1>7, <1>8 DEF FoldsWithin
  <1>10. PICK r : Trace(r, A, n, step, base) /\ r[n] = h[1..n]
    BY <1>0, <1>3, <1>9, FoldTrace
  <1>11. \A k \in 1..n : r[k] = Scanned(r[k - 1], s[k])
    <2> SUFFICES ASSUME NEW k \in 1..n PROVE r[k] = Scanned(r[k - 1], s[k])
      OBVIOUS
    <2>1. k - 1 \in 0..n /\ r[k - 1] \in A
      BY <1>0, <1>10 DEF Trace
    <2> QED
      BY <1>4, <1>10, <2>1 DEF Trace
  <1> QED
    BY <1>2, <1>10, <1>11 DEF s, A, base, Trace
-----------------------------------------------------------------------------
(* The bytes that are there.                                                *)
Covered(S) == UNION {c.offset..(End(c) - 1) : c \in S}

(* The ranges of G, one after the other, are the bytes between two offsets     *)
(* that are not in U.                                                          *)
Lists(G, from, to, U) ==
    /\ G \in Seq(Nat \X Nat)
    /\ \A i \in 1..Len(G) : from <= G[i][1] /\ G[i][1] < G[i][2] /\ G[i][2] <= to
    /\ \A i, j \in 1..Len(G) : i < j => G[i][2] <= G[j][1]
    /\ \A b \in from..(to - 1) : b \notin U <=> \E i \in 1..Len(G) : G[i][1] <= b /\ b < G[i][2]

(* A gap before the next part is listed as one range.                       *)
LEMMA GapListed ==
    ASSUME NEW G, NEW from \in Nat, NEW to \in Nat, NEW U, Lists(G, from, to, U), from <= to,
           NEW o \in Nat, o > to, \A b \in to..(o - 1) : b \notin U
    PROVE  Lists(Append(G, <<to, o>>), from, o, U)
  <1> DEFINE g == <<to, o>>
             H == Append(G, g)
  <1>1. G \in Seq(Nat \X Nat) /\ g \in Nat \X Nat /\ g[1] = to /\ g[2] = o
    BY DEF Lists
  <1> HIDE DEF g
  <1>2. /\ Len(G) \in Nat /\ H \in Seq(Nat \X Nat) /\ Len(H) = Len(G) + 1
        /\ \A i \in 1..Len(G) : H[i] = G[i]
        /\ H[Len(G) + 1] = g
    BY <1>1, AppendProperties, LenProperties
  <1> HIDE DEF H
  <1>3. \A i \in 1..Len(G) : G[i] \in Nat \X Nat /\ G[i][1] \in Nat /\ G[i][2] \in Nat
    <2>1. \A i \in 1..Len(G) : G[i] \in Nat \X Nat
      BY <1>1, ElementOfSeq
    <2> QED
      BY <2>1
  <1>4. /\ \A i \in 1..Len(G) : from <= G[i][1] /\ G[i][1] < G[i][2] /\ G[i][2] <= to
        /\ \A i, j \in 1..Len(G) : i < j => G[i][2] <= G[j][1]
        /\ \A b \in from..(to - 1) : b \notin U <=> \E i \in 1..Len(G) : G[i][1] <= b /\ b < G[i][2]
    BY DEF Lists
  <1>5. \A i \in 1..Len(H) : i \in 1..Len(G) \/ i = Len(G) + 1
    BY <1>2
  <1>6. \A i \in 1..Len(H) : from <= H[i][1] /\ H[i][1] < H[i][2] /\ H[i][2] <= o
    <2> SUFFICES ASSUME NEW i \in 1..Len(H) PROVE from <= H[i][1] /\ H[i][1] < H[i][2] /\ H[i][2] <= o
      OBVIOUS
    <2>1. CASE i \in 1..Len(G)
      <3>1. H[i] = G[i] /\ G[i][2] \in Nat /\ from <= G[i][1] /\ G[i][1] < G[i][2] /\ G[i][2] <= to
        BY <2>1, <1>2, <1>3, <1>4
      <3> QED
        BY <3>1
    <2>2. CASE i = Len(G) + 1
      BY <2>2, <1>1, <1>2
    <2> QED
      BY <1>5, <2>1, <2>2
  <1>7. \A i, j \in 1..Len(H) : i < j => H[i][2] <= H[j][1]
    <2> SUFFICES ASSUME NEW i \in 1..Len(H), NEW j \in 1..Len(H), i < j PROVE H[i][2] <= H[j][1]
      OBVIOUS
    <2>0. Len(G) \in Nat /\ Len(H) = Len(G) + 1
      BY <1>2
    <2>1. i \in 1..Len(G)
      BY <2>0
    <2>4. H[i] = G[i]
      BY <2>1, <1>2
    <2>2. CASE j \in 1..Len(G)
      BY <2>1, <2>2, <2>4, <1>2, <1>4
    <2>3. CASE j = Len(G) + 1
      BY <2>1, <2>3, <2>4, <1>1, <1>2, <1>4
    <2> QED
      BY <1>5, <2>2, <2>3
  <1>8. ASSUME NEW b \in from..(o - 1)
        PROVE  b \notin U <=> \E i \in 1..Len(H) : H[i][1] <= b /\ b < H[i][2]
    <2>1. CASE b < to
      <3>1. b \in from..(to - 1)
        BY <2>1
      <3>2. b \notin U <=> \E i \in 1..Len(G) : G[i][1] <= b /\ b < G[i][2]
        BY <3>1, <1>4
      <3>3. ASSUME NEW i \in 1..Len(G), G[i][1] <= b, b < G[i][2]
            PROVE  \E k \in 1..Len(H) : H[k][1] <= b /\ b < H[k][2]
        <4>1. H[i] = G[i]
          BY <1>2
        <4>2. i \in 1..Len(H)
          BY <1>2
        <4> QED
          BY <3>3, <4>1, <4>2
      <3>4. ASSUME NEW i \in 1..Len(H), H[i][1] <= b, b < H[i][2]
            PROVE  \E k \in 1..Len(G) : G[k][1] <= b /\ b < G[k][2]
        <4>1. i # Len(G) + 1
          BY <2>1, <3>4, <1>1, <1>2
        <4>2. i \in 1..Len(G) /\ H[i] = G[i]
          BY <4>1, <1>2, <1>5
        <4> QED
          BY <4>2, <3>4
      <3> QED
        BY <3>2, <3>3, <3>4
    <2>2. CASE ~(b < to)
      <3>1. b \in to..(o - 1)
        BY <2>2
      <3>2. Len(G) + 1 \in 1..Len(H) /\ H[Len(G) + 1][1] <= b /\ b < H[Len(G) + 1][2]
        BY <3>1, <1>1, <1>2
      <3> QED
        BY <3>1, <3>2
    <2> QED
      BY <2>1, <2>2
  <1> QED
    BY <1>2, <1>6, <1>7, <1>8 DEF Lists, H, g

(* Bytes that are there add nothing to the list.                            *)
LEMMA PartPassed ==
    ASSUME NEW G, NEW from \in Nat, NEW to \in Nat, NEW U, Lists(G, from, to, U),
           NEW e \in Nat, e >= to, \A b \in to..(e - 1) : b \in U
    PROVE  Lists(G, from, e, U)
  <1>1. \A i \in 1..Len(G) : G[i] \in Nat \X Nat /\ G[i][1] \in Nat /\ G[i][2] \in Nat
    <2>1. \A i \in 1..Len(G) : G[i] \in Nat \X Nat
      BY ElementOfSeq DEF Lists
    <2> QED
      BY <2>1
  <1>2. /\ \A i \in 1..Len(G) : from <= G[i][1] /\ G[i][1] < G[i][2] /\ G[i][2] <= to
        /\ \A b \in from..(to - 1) : b \notin U <=> \E i \in 1..Len(G) : G[i][1] <= b /\ b < G[i][2]
    BY DEF Lists
  <1>3. ASSUME NEW b \in from..(e - 1)
        PROVE  b \notin U <=> \E i \in 1..Len(G) : G[i][1] <= b /\ b < G[i][2]
    <2>1. CASE b < to
      BY <2>1, <1>2
    <2>2. CASE ~(b < to)
      <3>1. b \in to..(e - 1)
        BY <2>2
      <3>2. \A i \in 1..Len(G) : ~(b < G[i][2])
        BY <3>1, <1>1, <1>2
      <3> QED
        BY <3>1, <3>2
    <2> QED
      BY <2>1, <2>2
  <1>4. \A i \in 1..Len(G) : G[i][2] <= e
    BY <1>1, <1>2
  <1> QED
    BY <1>2, <1>3, <1>4 DEF Lists

(* At the cursor nothing is listed and nothing is missing.                  *)
LEMMA NothingListed ==
    ASSUME NEW from \in Nat, NEW U
    PROVE  Lists(<< >>, from, from, U)
  <1>1. << >> \in Seq(Nat \X Nat) /\ Len(<< >>) = 0
    BY EmptySeq
  <1>2. \A i \in 1..0 : FALSE
    OBVIOUS
  <1>3. \A b \in from..(from - 1) : FALSE
    OBVIOUS
  <1> QED
    BY <1>1, <1>2, <1>3 DEF Lists
-----------------------------------------------------------------------------
(* The scan of the parts of a transfer that ends within its size.              *)
LEMMA GapsMeant ==
    ASSUME NEW S, Laid(S), NEW size \in Nat, \A c \in S : End(c) <= size, NEW cursor \in 0..size
    PROVE  Lists(Gaps(S, size, cursor), cursor, size, Covered(S))
  <1> DEFINE L == After(S, cursor)
             U == Covered(S)
             n == Cardinality(L)
             s == InOrder(L)
  <1>1. Laid(L)
    <2>1. L \in SUBSET S
      BY DEF After
    <2> QED
      BY <2>1, FS_Subset DEF Laid
  <1>2. Ordered(s, L, n)
    BY <1>1, InOrderMeant
  <1> HIDE DEF n
  <1>3. n \in Nat /\ \A k \in 1..n : s[k] \in L
    BY <1>2 DEF Ordered
  <1>4. cursor \in Nat
    OBVIOUS
  <1>5. PICK r \in [0..n -> Scans] :
            /\ r[0] = [start |-> cursor, gaps |-> << >>] /\ GapsFrom(S, cursor) = r[n]
            /\ \A k \in 1..n : r[k] = Scanned(r[k - 1], s[k])
    BY <1>1, <1>2, <1>4, ScanTrace
  <1>6. \A c \in S : c.offset \in Nat /\ End(c) \in Nat /\ c.offset < End(c) /\ End(c) <= size
    BY DEF Laid, End
  <1>7. \A c \in L : c \in S /\ End(c) > cursor
    BY DEF After
  <1>8. \A c \in S : \A b \in c.offset..(End(c) - 1) : b \in U
    BY DEF Covered
  <1>9. ASSUME NEW b \in U, b \in Nat, b >= cursor
        PROVE  \E j \in 1..n : s[j].offset <= b /\ b < End(s[j])
    <2>1. PICK d \in S : b \in d.offset..(End(d) - 1)
      BY <1>9 DEF Covered
    <2>2. d \in L /\ d.offset <= b /\ b < End(d)
      BY <2>1, <1>6, <1>9 DEF After
    <2> QED
      BY <2>2, <1>2 DEF Ordered
  <1> HIDE DEF s, U, L
  <1> DEFINE stop == [k \in 0..n |-> IF k = 0 THEN cursor ELSE End(s[k])]
  <1>10. stop[0] = cursor /\ \A k \in 1..n : stop[k] = End(s[k])
    BY <1>3
  <1> HIDE DEF stop
  <1>11. \A k \in 0..n : stop[k] \in Nat /\ cursor <= stop[k] /\ stop[k] <= size
    BY <1>3, <1>6, <1>7, <1>10
  <1>12. \A j, k \in 1..n : j < k => End(s[j]) <= s[k].offset
    BY <1>2 DEF Ordered
  (* What an earlier part covers ends before the last one passed ends.         *)
  <1>13. ASSUME NEW k \in 0..n, NEW j \in 1..n, j <= k PROVE End(s[j]) <= stop[k]
    <2>1. k \in 1..n /\ stop[k] = End(s[k])
      BY <1>3, <1>10, <1>13
    <2>2. CASE j = k
      BY <2>1, <2>2, <1>3, <1>6, <1>7
    <2>3. CASE j # k
      <3>1. End(s[j]) <= s[k].offset
        BY <2>1, <2>3, <1>12, <1>13, <1>3
      <3>2. s[j] \in S /\ s[k] \in S
        BY <2>1, <1>3, <1>7
      <3>3. End(s[j]) \in Nat /\ s[k].offset \in Nat /\ End(s[k]) \in Nat /\ s[k].offset < End(s[k])
        BY <3>2, <1>6
      <3> QED
        BY <2>1, <3>1, <3>3
    <2> QED
      BY <2>2, <2>3
  <1> DEFINE P == {k \in 0..n : r[k].start = stop[k] /\ Lists(r[k].gaps, cursor, stop[k], U)}
  <1>14. 0 \in P /\ P \in SUBSET (0..n)
    BY <1>3, <1>4, <1>5, <1>10, NothingListed
  <1>15. ASSUME NEW k \in 1..n, k - 1 \in P PROVE k \in P
    <2> DEFINE G == r[k - 1].gaps
               to == stop[k - 1]
               c == s[k]
               e == End(c)
    <2>1. k - 1 \in 0..n /\ k \in 0..n /\ c \in S /\ k \in Nat
      BY <1>3, <1>7
    <2>2. r[k - 1].start = to /\ Lists(G, cursor, to, U)
      BY <1>15
    <2>3. /\ to \in Nat /\ cursor <= to /\ stop[k] = e
          /\ c.offset \in Nat /\ e \in Nat /\ c.offset < e
      BY <2>1, <1>6, <1>10, <1>11
    <2>4. to <= e /\ (k # 1 => to <= c.offset)
      <3>1. CASE k = 1
        <4>1. to = cursor
          BY <3>1, <1>10
        <4>2. e > cursor
          BY <2>1, <1>3, <1>7
        <4> QED
          BY <3>1, <4>1, <4>2, <2>3
      <3>2. CASE k # 1
        <4>1. k - 1 \in 1..n /\ k - 1 < k
          BY <3>2, <2>1
        <4>2. to <= c.offset
          BY <4>1, <1>10, <1>12
        <4> QED
          BY <4>2, <2>3
      <3> QED
        BY <3>1, <3>2
    <2>5. /\ r[k].start = e
          /\ r[k].gaps = IF c.offset > to THEN Append(G, <<to, c.offset>>) ELSE G
      <3>1. r[k] = Scanned(r[k - 1], c)
        BY <1>5
      <3>2. Scanned(r[k - 1], c).start = e
        BY DEF Scanned
      <3>3. Scanned(r[k - 1], c).gaps = IF c.offset > to THEN Append(G, <<to, c.offset>>) ELSE G
        BY <2>2 DEF Scanned
      <3> QED
        BY <3>1, <3>2, <3>3
    <2>6. \A b \in c.offset..(e - 1) : b \in U
      BY <2>1, <1>8
    <2>7. CASE c.offset > to
      <3>1. ASSUME NEW b \in to..(c.offset - 1) PROVE b \notin U
        <4> SUFFICES ASSUME b \in U PROVE FALSE
          OBVIOUS
        <4>0. b \in Nat /\ b >= cursor /\ to <= b /\ b < c.offset
          BY <2>3
        <4>1. PICK j \in 1..n : s[j].offset <= b /\ b < End(s[j])
          BY <4>0, <1>9
        <4>2. s[j] \in S /\ s[j].offset \in Nat /\ End(s[j]) \in Nat
          BY <1>3, <1>6, <1>7
        <4>3. ~(j <= k - 1)
          BY <4>0, <4>1, <4>2, <2>1, <2>3, <1>13
        <4>4. ~(k < j)
          <5> SUFFICES ASSUME k < j PROVE FALSE
            OBVIOUS
          <5>1. e <= s[j].offset
            BY <1>12
          <5> QED
            BY <5>1, <4>0, <4>1, <4>2, <2>3
        <4>5. j # k
          BY <4>0, <4>1, <2>3
        <4> QED
          BY <4>3, <4>4, <4>5, <2>1, <1>3
      <3> HIDE DEF G, to, c, e
      <3>2. Lists(Append(G, <<to, c.offset>>), cursor, c.offset, U)
        BY <3>1, <2>2, <2>3, <2>7, <1>4, GapListed
      <3>3. Lists(Append(G, <<to, c.offset>>), cursor, e, U)
        BY <3>2, <2>3, <2>6, <1>4, PartPassed
      <3> QED
        BY <3>3, <2>1, <2>3, <2>5, <2>7
    <2>8. CASE ~(c.offset > to)
      <3>1. \A b \in to..(e - 1) : b \in U
        BY <2>3, <2>6, <2>8
      <3> HIDE DEF G, to, c, e
      <3>2. Lists(G, cursor, e, U)
        BY <3>1, <2>2, <2>3, <2>4, <1>4, PartPassed
      <3> QED
        BY <3>2, <2>1, <2>3, <2>5, <2>8
    <2> QED
      BY <2>7, <2>8
  <1> HIDE DEF P
  <1>16. P = 0..n
    BY <1>3, <1>14, <1>15, Reaches
  <1>17. n \in 0..n /\ r[n].start = stop[n] /\ Lists(r[n].gaps, cursor, stop[n], U)
    BY <1>3, <1>16 DEF P
  <1>18. Gaps(S, size, cursor) =
            IF stop[n] < size THEN Append(r[n].gaps, <<stop[n], size>>) ELSE r[n].gaps
    BY <1>5, <1>17 DEF Gaps
  <1>19. stop[n] \in Nat /\ cursor <= stop[n] /\ stop[n] <= size
    BY <1>11, <1>17
  <1>20. CASE stop[n] < size
    <2>1. ASSUME NEW b \in stop[n]..(size - 1) PROVE b \notin U
      <3> SUFFICES ASSUME b \in U PROVE FALSE
        OBVIOUS
      <3>1. b \in Nat /\ b >= cursor /\ stop[n] <= b
        BY <1>19, <1>4
      <3>2. PICK j \in 1..n : s[j].offset <= b /\ b < End(s[j])
        BY <3>1, <1>9
      <3>3. End(s[j]) <= stop[n] /\ End(s[j]) \in Nat
        BY <1>3, <1>6, <1>7, <1>13, <1>17
      <3> QED
        BY <3>1, <3>2, <3>3, <1>19
    <2>2. Lists(Append(r[n].gaps, <<stop[n], size>>), cursor, size, U)
      BY <2>1, <1>4, <1>17, <1>19, <1>20, GapListed
    <2> QED
      BY <2>2, <1>18, <1>20 DEF U
  <1>21. CASE ~(stop[n] < size)
    <2>1. stop[n] = size
      BY <1>19, <1>21
    <2> QED
      BY <2>1, <1>17, <1>18, <1>21 DEF U
  <1> QED
    BY <1>20, <1>21
-----------------------------------------------------------------------------
(* The bytes that a page of a status call lists.                               *)
Bytes(page) == UNION {i[1]..(i[2] - 1) : i \in {page.items[n] : n \in DOMAIN page.items}}

(* A page with one range lists what is missing up to where the next one begins. *)
LEMMA PageMeant ==
    ASSUME NEW S, Laid(S), NEW size \in Nat, \A c \in S : End(c) <= size, NEW k \in 0..size, NEW page,
           page = MissingRanges(S, size, k, 1)
    PROVE  /\ page.next \in k..size /\ (page.next # size => page.next > k)
           /\ Bytes(page) = (k..(page.next - 1)) \ Covered(S)
  <1> DEFINE G == Gaps(S, size, k)
             U == Covered(S)
             items == SubSeq(G, 1, IF Len(G) < 1 THEN Len(G) ELSE 1)
  <1>1. Lists(G, k, size, U)
    BY GapsMeant
  <1>2. page = [items |-> items, next |-> IF Len(G) > 1 THEN G[2][1] ELSE size]
    BY DEF MissingRanges
  <1> HIDE DEF G, U
  <1>3. G \in Seq(Nat \X Nat) /\ Len(G) \in Nat
    BY <1>1, LenProperties DEF Lists
  <1>4. \A i \in 1..Len(G) : G[i] \in Nat \X Nat /\ G[i][1] \in Nat /\ G[i][2] \in Nat
    <2>1. \A i \in 1..Len(G) : G[i] \in Nat \X Nat
      BY <1>3, ElementOfSeq
    <2> QED
      BY <2>1
  <1>5. /\ \A i \in 1..Len(G) : k <= G[i][1] /\ G[i][1] < G[i][2] /\ G[i][2] <= size
        /\ \A i, j \in 1..Len(G) : i < j => G[i][2] <= G[j][1]
        /\ \A b \in k..(size - 1) : b \notin U <=> \E i \in 1..Len(G) : G[i][1] <= b /\ b < G[i][2]
    BY <1>1 DEF Lists
  <1>6. k \in Nat /\ k <= size
    OBVIOUS
  <1>7. CASE Len(G) = 0
    <2>1. items = << >> /\ page.items = items /\ page.next = size
      <3>1. items = SubSeq(G, 1, 0)
        BY <1>7
      <3>2. SubSeq(G, 1, 0) = << >>
        BY <1>3, SubSeqEmpty
      <3> QED
        BY <1>2, <1>7, <3>1, <3>2
    <2>2. Bytes(page) = {}
      BY <2>1 DEF Bytes
    <2>3. \A b \in k..(size - 1) : b \in U
      BY <1>5, <1>7
    <2> QED
      BY <2>1, <2>2, <2>3, <1>6 DEF U
  <1>8. CASE Len(G) # 0
    <2>1. 1 \in 1..Len(G) /\ ~(Len(G) < 1)
      BY <1>3, <1>8
    <2>2. page.items = SubSeq(G, 1, 1)
      BY <1>2, <2>1
    <2>3. DOMAIN page.items = {1} /\ page.items[1] = G[1]
      <3>1. /\ DOMAIN SubSeq(G, 1, 1) = 1..1 /\ SubSeq(G, 1, 1)[1] = G[1]
        BY <1>3, <2>1
      <3> QED
        BY <2>2, <3>1
    <2>4. Bytes(page) = G[1][1]..(G[1][2] - 1)
      BY <2>3 DEF Bytes
    <2>5. /\ k <= G[1][1] /\ G[1][1] < G[1][2] /\ G[1][2] <= size
          /\ G[1][1] \in Nat /\ G[1][2] \in Nat
      BY <2>1, <1>4, <1>5
    <2>6. page.next \in G[1][2]..size /\ \A i \in 1..Len(G) : i = 1 \/ page.next <= G[i][1]
      <3>1. CASE Len(G) > 1
        <4>1. 2 \in 1..Len(G) /\ page.next = G[2][1]
          BY <3>1, <1>2, <1>3
        <4>2. G[2][1] \in Nat /\ G[2][2] \in Nat /\ G[2][1] < G[2][2] /\ G[2][2] <= size
          BY <4>1, <1>4, <1>5
        <4>3. G[1][2] <= G[2][1]
          BY <2>1, <4>1, <1>5
        <4>4. ASSUME NEW i \in 1..Len(G), i # 1 PROVE G[2][1] <= G[i][1]
          <5>1. CASE i = 2
            BY <5>1, <4>2
          <5>2. CASE i # 2
            <6>1. 2 < i
              BY <4>4, <5>2, <1>3
            <6>2. G[2][2] <= G[i][1] /\ G[i][1] \in Nat
              BY <6>1, <4>1, <1>4, <1>5
            <6> QED
              BY <6>2, <4>2
          <5> QED
            BY <5>1, <5>2
        <4> QED
          BY <4>1, <4>2, <4>3, <4>4, <2>5
      <3>2. CASE ~(Len(G) > 1)
        <4>1. page.next = size /\ Len(G) = 1
          BY <3>2, <1>2, <1>3, <2>1
        <4> QED
          BY <4>1, <2>5
      <3> QED
        BY <3>1, <3>2
    <2>7. page.next \in Nat /\ G[1][2] <= page.next /\ page.next <= size
      BY <2>5, <2>6
    <2>8. ASSUME NEW b \in k..(page.next - 1)
          PROVE  b \notin U <=> G[1][1] <= b /\ b < G[1][2]
      <3>1. b \in k..(size - 1) /\ b \in Nat /\ b < page.next
        BY <2>7, <1>6
      <3>2. b \notin U <=> \E i \in 1..Len(G) : G[i][1] <= b /\ b < G[i][2]
        BY <3>1, <1>5
      <3>3. ASSUME NEW i \in 1..Len(G), G[i][1] <= b PROVE i = 1
        <4>1. G[i][1] \in Nat
          BY <1>4
        <4> QED
          BY <4>1, <3>1, <3>3, <2>6, <2>7
      <3> QED
        BY <3>2, <3>3, <2>1
    <2>9. ASSUME NEW b
          PROVE  b \in G[1][1]..(G[1][2] - 1) <=> b \in (k..(page.next - 1)) \ U
      <3>1. CASE b \in k..(page.next - 1)
        BY <3>1, <2>5, <2>8, <1>6
      <3>2. CASE b \notin k..(page.next - 1)
        <4>1. b \notin G[1][1]..(G[1][2] - 1)
          BY <3>2, <2>5, <2>7, <1>6
        <4> QED
          BY <3>2, <4>1
      <3> QED
        BY <3>1, <3>2
    <2>10. Bytes(page) = (k..(page.next - 1)) \ U
      BY <2>4, <2>9
    <2> QED
      BY <2>5, <2>7, <2>10, <1>6 DEF U
  <1> QED
    BY <1>7, <1>8

(* Following the pages from the first byte lists everything that is missing.   *)
Followed(listed, page, size) ==
    listed = [k \in 0..size |-> Bytes(page[k]) \cup (IF page[k].next = size THEN {} ELSE listed[page[k].next])]

(* The pages of a status call, one after the other, list what is missing.   *)
LEMMA PagesMeant ==
    ASSUME NEW S, Laid(S), NEW size \in Nat, \A c \in S : End(c) <= size,
           NEW page, \A k \in 0..size : page[k] = MissingRanges(S, size, k, 1)
    PROVE  (CHOOSE listed : Followed(listed, page, size))[0] = (0..(size - 1)) \ Covered(S)
  <1> DEFINE U == Covered(S)
             Missing(k) == (k..(size - 1)) \ U
             g == [k \in 0..size |-> Missing(k)]
             h == CHOOSE listed : Followed(listed, page, size)
  <1>1. ASSUME NEW k \in 0..size
        PROVE  /\ page[k].next \in k..size /\ (page[k].next # size => page[k].next > k)
               /\ Bytes(page[k]) = (k..(page[k].next - 1)) \ U
    BY PageMeant
  <1> HIDE DEF U
  <1>2. ASSUME NEW k \in 0..size
        PROVE  /\ page[k].next # size => page[k].next \in 0..size /\ page[k].next > k
               /\ Missing(k) = Bytes(page[k]) \cup (IF page[k].next = size THEN {} ELSE Missing(page[k].next))
    <2>1. page[k].next \in k..size /\ (page[k].next # size => page[k].next > k)
      BY <1>1
    <2>2. Bytes(page[k]) = (k..(page[k].next - 1)) \ U
      BY <1>1
    <2>3. CASE page[k].next = size
      BY <2>1, <2>2, <2>3
    <2>4. CASE page[k].next # size
      <3> DEFINE m == page[k].next
      <3>1. m \in Nat /\ k < m /\ m < size
        BY <2>1, <2>4
      <3>2. k..(size - 1) = (k..(m - 1)) \cup (m..(size - 1))
        BY <3>1
      <3>3. Missing(k) = ((k..(m - 1)) \ U) \cup Missing(m)
        BY <3>2
      <3> QED
        BY <3>1, <3>3, <2>2, <2>4
    <2> QED
      BY <2>3, <2>4
  <1>3. Followed(g, page, size)
    <2>1. ASSUME NEW k \in 0..size
          PROVE  g[k] = Bytes(page[k]) \cup (IF page[k].next = size THEN {} ELSE g[page[k].next])
      BY <1>2
    <2>2. g = [k \in 0..size |-> g[k]]
      OBVIOUS
    <2> HIDE DEF g
    <2> QED
      BY <2>1, <2>2 DEF Followed
  <1>4. Followed(h, page, size)
    BY <1>3
  <1> HIDE DEF h, g
  <1>5. \A k \in 0..size : h[k] = Bytes(page[k]) \cup (IF page[k].next = size THEN {} ELSE h[page[k].next])
    BY <1>4 DEF Followed
  <1> DEFINE Bad == {k \in 0..size : h[size - k] # Missing(size - k)}
  <1>6. Bad = {}
    <2> SUFFICES ASSUME Bad # {} PROVE FALSE
      OBVIOUS
    <2>1. Bad \in SUBSET Nat
      OBVIOUS
    <2> HIDE DEF Bad
    <2>2. PICK m \in Bad : \A j \in Bad : m <= j
      BY <2>1, LeastOf
    <2> DEFINE k == size - m
    <2>3. m \in 0..size /\ k \in 0..size /\ h[k] # Missing(k)
      BY <2>2 DEF Bad
    <2>4. CASE page[k].next = size
      BY <2>3, <2>4, <1>2, <1>5
    <2>5. CASE page[k].next # size
      <3> DEFINE j == page[k].next
      <3>1. j \in 0..size /\ j > k
        BY <2>3, <2>5, <1>2
      <3>2. size - j \in 0..size /\ size - j < m /\ size - (size - j) = j
        BY <3>1, <2>3
      <3>3. size - j \notin Bad
        BY <3>2, <2>2, <2>3
      <3>4. h[j] = Missing(j)
        BY <3>2, <3>3 DEF Bad
      <3> QED
        BY <3>4, <2>3, <2>5, <1>2, <1>5
    <2> QED
      BY <2>4, <2>5
  <1>7. h[0] = Missing(0)
    <2>1. size \in 0..size /\ size - size = 0
      OBVIOUS
    <2> QED
      BY <2>1, <1>6
  <1> QED
    BY <1>7 DEF h, U
-----------------------------------------------------------------------------
(* The parts of a transfer.                                                 *)
PartsOf(rows, t) == {c \in rows.chunks : c.transfer = t}

(* A transfer that was sealed holds what its parts make.                    *)
SealedRow(rows, t) ==
    /\ rows.files[t].state # "none"
    /\ rows.files[t].state = "live" => rows.files[t].data = rows.transfers[t].expected
    /\ AsSent(PartsOf(rows, t), rows.transfers[t].expected)

(* What staged parts are to each other and to their transfer.                  *)
Staged(rows) ==
    /\ IsFiniteSet(rows.chunks)
    /\ \A c \in rows.chunks : Len(c.data) >= 1 /\ rows.transfers[c.transfer].state # "none"
    /\ \A c, e \in rows.chunks :
          c.transfer = e.transfer /\ c # e => End(c) <= e.offset \/ End(e) <= c.offset
    /\ \A c \in rows.chunks :
          rows.transfers[c.transfer].state = "open" /\ rows.transfers[c.transfer].expected # Unknown
          => End(c) <= Len(rows.transfers[c.transfer].expected)
    /\ \A t \in Transfers : rows.transfers[t].state = "sealed" => SealedRow(rows, t)

(* What contents are made of.                                               *)
AllBytes == UNION {Range(c) : c \in Content}

(* A content is a sequence of them.                                         *)
LEMMA ContentIsBytes ==
    ASSUME ContentsAssumption, NEW c \in Content
    PROVE  c \in Seq(AllBytes) /\ Len(c) \in Nat
  <1>1. c \in Seq(Range(c)) /\ Range(c) \subseteq AllBytes
    BY DEF ContentsAssumption, AllBytes
  <1>2. c \in Seq(AllBytes)
    BY <1>1, SeqMonotonic
  <1> QED
    BY <1>2, LenProperties

(* Offsets are natural numbers.                                             *)
LEMMA OffsetsAreNumbers ==
    ASSUME ContentsAssumption
    PROVE  Offsets \subseteq Nat
  BY DEF ContentsAssumption, Offsets

(* The parts of a transfer are laid out, within its size.                   *)
LEMMA PartsLaid ==
    ASSUME ContentsAssumption, NEW rows, Fine(rows), Staged(rows), NEW t
    PROVE  Laid(PartsOf(rows, t)) /\ \A c \in PartsOf(rows, t) : c.data \in Seq(AllBytes)
  <1> DEFINE S == PartsOf(rows, t)
  <1>1. S \in SUBSET rows.chunks /\ \A c \in S : c.transfer = t
    BY DEF PartsOf
  <1>2. \A c \in rows.chunks : c.offset \in Nat /\ c.data \in Content
    BY OffsetsAreNumbers DEF Fine, Tables, ChunkRows
  <1> HIDE DEF S
  <1>3. IsFiniteSet(S)
    BY <1>1, FS_Subset DEF Staged
  <1>4. \A c \in S : c.offset \in Nat /\ Len(c.data) \in Nat /\ Len(c.data) >= 1 /\ c.data \in Seq(AllBytes)
    BY <1>1, <1>2, ContentIsBytes DEF Staged
  <1>5. \A c, e \in S : c # e => End(c) <= e.offset \/ End(e) <= c.offset
    BY <1>1 DEF Staged
  <1> QED
    BY <1>3, <1>4, <1>5 DEF Laid, S

(* Rows with no new part, in which each transfer is as it was, is over, or has *)
(* just begun, and each file is as it was or is gone.                          *)
LEMMA StagedStays ==
    ASSUME NEW base, Fine(base), Staged(base), NEW rows, rows.chunks \subseteq base.chunks,
           \A t \in Transfers :
              \/ /\ rows.transfers[t].state = base.transfers[t].state
                 /\ rows.transfers[t].expected = base.transfers[t].expected
                 /\ PartsOf(rows, t) = PartsOf(base, t)
              \/ rows.transfers[t].state \in {"cancelled", "expired"}
              \/ rows.transfers[t].state = "open" /\ PartsOf(rows, t) = {},
           \A t \in Transfers :
              \/ rows.files[t].state = base.files[t].state /\ rows.files[t].data = base.files[t].data
              \/ rows.files[t].state \in {"deleted", "purged"}
    PROVE  Staged(rows)
  <1>1. \A c \in rows.chunks : c \in base.chunks /\ c.transfer \in Transfers /\ c \in PartsOf(rows, c.transfer)
    BY DEF Fine, Tables, ChunkRows, PartsOf
  <1>2. IsFiniteSet(rows.chunks)
    BY FS_Subset DEF Staged
  <1>3. \A c \in rows.chunks : Len(c.data) >= 1 /\ rows.transfers[c.transfer].state # "none"
    BY <1>1 DEF Staged
  <1>4. \A c, e \in rows.chunks :
          c.transfer = e.transfer /\ c # e => End(c) <= e.offset \/ End(e) <= c.offset
    BY <1>1 DEF Staged
  <1>5. \A c \in rows.chunks :
          rows.transfers[c.transfer].state = "open" /\ rows.transfers[c.transfer].expected # Unknown
          => End(c) <= Len(rows.transfers[c.transfer].expected)
    BY <1>1 DEF Staged
  <1>6. ASSUME NEW t \in Transfers, rows.transfers[t].state = "sealed" PROVE SealedRow(rows, t)
    <2>1. /\ base.transfers[t].state = "sealed"
          /\ rows.transfers[t].expected = base.transfers[t].expected
          /\ PartsOf(rows, t) = PartsOf(base, t)
      BY <1>6
    <2>2. SealedRow(base, t)
      BY <2>1 DEF Staged
    <2> QED
      BY <2>1, <2>2 DEF SealedRow
  <1> QED
    BY <1>2, <1>3, <1>4, <1>5, <1>6 DEF Staged

(* The row of one transfer is replaced.                                        *)
LEMMA StagedTransferPut ==
    ASSUME NEW base, Fine(base), Staged(base), NEW t \in Transfers, NEW r, NEW rows,
           rows = [base EXCEPT !.transfers[t] = r],
           \/ r.state = base.transfers[t].state /\ r.expected = base.transfers[t].expected
           \/ r.state \in {"cancelled", "expired"}
           \/ r.state = "open" /\ base.transfers[t].state = "none"
    PROVE  Staged(rows)
  <1>1. /\ rows.files = base.files /\ rows.chunks = base.chunks /\ rows.transfers[t] = r
        /\ \A u \in Transfers \ {t} : rows.transfers[u] = base.transfers[u]
    BY DEF Fine, Tables
  <1>2. \A u : PartsOf(rows, u) = PartsOf(base, u)
    BY <1>1 DEF PartsOf
  <1>3. base.transfers[t].state = "none" => PartsOf(base, t) = {}
    BY DEF PartsOf, Staged
  <1> QED
    BY <1>1, <1>2, <1>3, StagedStays

(* The row of one file is replaced.                                            *)
LEMMA StagedFilePut ==
    ASSUME NEW base, Fine(base), Staged(base), NEW f \in Files, NEW r, NEW rows,
           rows = [base EXCEPT !.files[f] = r],
           \/ r.state = base.files[f].state /\ r.data = base.files[f].data
           \/ r.state \in {"deleted", "purged"}
           \/ f \notin Transfers
    PROVE  Staged(rows)
  <1>1. /\ rows.transfers = base.transfers /\ rows.chunks = base.chunks /\ rows.files[f] = r
        /\ \A g \in Files \ {f} : rows.files[g] = base.files[g]
    BY DEF Fine, Tables
  <1>2. \A u : PartsOf(rows, u) = PartsOf(base, u)
    BY <1>1 DEF PartsOf
  <1>3. Transfers \subseteq Files
    BY DEF Files
  <1> QED
    BY <1>1, <1>2, <1>3, StagedStays
-----------------------------------------------------------------------------
(* artifact_put_chunk: the new part lies over no other.                     *)
LEMMA PutPartStages ==
    ASSUME ContentsAssumption, Fine(db), Staged(db), NEW t \in Transfers, NEW p \in Parts[t], PutPart(t, p)
    PROVE  Staged(db')
  <1> DEFINE c == [transfer |-> t, offset |-> p.offset, data |-> p.data]
             rows == [db EXCEPT !.chunks = @ \cup {c}]
  <1>1. db' = db \/ db' = rows
    BY DEF PutPart, Transaction
  <1>2. Uploading(t) /\ Fits(t, p)
    BY DEF PutPart
  <1>3. /\ rows.chunks = db.chunks \cup {c} /\ rows.files = db.files /\ rows.transfers = db.transfers
        /\ c.transfer = t /\ c.offset = p.offset /\ c.data = p.data
    BY DEF Fine, Tables
  <1> HIDE DEF rows, c
  <1>4. /\ p.data \in Content /\ p.offset \in Nat /\ Len(p.data) \in Nat /\ Len(p.data) >= 1
    <2>1. p.data \in Content /\ p.offset \in Nat /\ p.data # << >>
      BY PartsAreContents DEF ContentsAssumption
    <2>2. p.data \in Seq(AllBytes) /\ Len(p.data) \in Nat
      BY <2>1, ContentIsBytes
    <2>3. Len(p.data) # 0
      BY <2>1, <2>2, EmptySeq
    <2> QED
      BY <2>1, <2>2, <2>3
  <1>5. \A e \in db.chunks : e.offset \in Nat /\ Len(e.data) \in Nat
    <2>1. \A e \in db.chunks : e.offset \in Nat /\ e.data \in Content
      BY OffsetsAreNumbers DEF Fine, Tables, ChunkRows
    <2> QED
      BY <2>1, ContentIsBytes
  <1>6. \A e \in db.chunks : e.transfer = t => End(e) <= c.offset \/ End(c) <= e.offset
    <2>1. \A e \in db.chunks : e.transfer = t => ~Overlap(p, e)
      BY <1>2 DEF Fits, ChunksOf
    <2> QED
      BY <2>1, <1>3, <1>4, <1>5 DEF Overlap, End
  <1>7. IsFiniteSet(rows.chunks)
    BY <1>3, FS_AddElement DEF Staged
  <1>8. db.transfers[t].state = "open"
    BY <1>2 DEF Uploading
  <1>9. \A e \in rows.chunks : Len(e.data) >= 1 /\ rows.transfers[e.transfer].state # "none"
    BY <1>3, <1>4, <1>8 DEF Staged
  <1>10. \A d, e \in rows.chunks :
          d.transfer = e.transfer /\ d # e => End(d) <= e.offset \/ End(e) <= d.offset
    BY <1>3, <1>6 DEF Staged
  <1>11. \A e \in rows.chunks :
          rows.transfers[e.transfer].state = "open" /\ rows.transfers[e.transfer].expected # Unknown
          => End(e) <= Len(rows.transfers[e.transfer].expected)
    <2>1. db.transfers[t].expected # Unknown => End(c) <= Len(db.transfers[t].expected)
      BY <1>2, <1>3 DEF Fits, End
    <2> QED
      BY <1>3, <2>1 DEF Staged
  <1>12. ASSUME NEW u \in Transfers, rows.transfers[u].state = "sealed" PROVE SealedRow(rows, u)
    <2>1. db.transfers[u].state = "sealed" /\ u # t
      BY <1>3, <1>8, <1>12
    <2>2. PartsOf(rows, u) = PartsOf(db, u)
      BY <1>3, <2>1 DEF PartsOf
    <2>3. SealedRow(db, u)
      BY <2>1 DEF Staged
    <2> QED
      BY <1>3, <2>2, <2>3 DEF SealedRow
  <1>13. Staged(rows)
    BY <1>7, <1>9, <1>10, <1>11, <1>12 DEF Staged
  <1> QED
    BY <1>1, <1>13

(* artifact_seal: what is sealed is what the parts make.                    *)
LEMMA SealStages ==
    ASSUME ContentsAssumption, Fine(db), Staged(db), NEW t \in Transfers, NEW final \in Payloads, Seal(t, final)
    PROVE  Staged(db')
  <1> DEFINE rows == [db EXCEPT !.transfers[t] = [@ EXCEPT !.state = "sealed", !.expected = final],
                                !.files[t] = [@ EXCEPT !.state = "live", !.data = final]]
             S == PartsOf(db, t)
  <1>1. db' = db \/ db' = rows
    BY DEF Seal, Transaction
  <1>2. Covers(S, final)
    BY DEF Seal, ChunksOf, PartsOf
  <1>3. Laid(S) /\ \A c \in S : c.data \in Seq(AllBytes)
    BY PartsLaid
  <1>4. AsSent(S, final)
    BY <1>2, <1>3, CoversMeant
  <1>5. /\ rows.chunks = db.chunks
        /\ rows.transfers[t].state = "sealed" /\ rows.transfers[t].expected = final
        /\ rows.files[t].state = "live" /\ rows.files[t].data = final
        /\ \A u \in Transfers \ {t} : rows.transfers[u] = db.transfers[u] /\ rows.files[u] = db.files[u]
    <2>1. db.transfers[t] \in TransferRows /\ db.files[t] \in FileRows /\ t \in Files
          /\ db.transfers \in [Transfers -> TransferRows] /\ db.files \in [Files -> FileRows]
          /\ Transfers \subseteq Files
      BY DEF Fine, Tables, Files
    <2> QED
      BY <2>1 DEF Fine, Tables, TransferRows, FileRows
  <1> HIDE DEF rows, S
  <1>6. \A u : PartsOf(rows, u) = PartsOf(db, u)
    BY <1>5 DEF PartsOf
  <1>7. IsFiniteSet(rows.chunks)
    BY <1>5 DEF Staged
  <1>8. \A c \in rows.chunks : c.transfer \in Transfers
    BY <1>5 DEF Fine, Tables, ChunkRows
  <1>9. \A c \in rows.chunks : Len(c.data) >= 1 /\ rows.transfers[c.transfer].state # "none"
    <2> SUFFICES ASSUME NEW c \in rows.chunks
                 PROVE  Len(c.data) >= 1 /\ rows.transfers[c.transfer].state # "none"
      OBVIOUS
    <2>1. CASE c.transfer = t
      BY <2>1, <1>5 DEF Staged
    <2>2. CASE c.transfer # t
      BY <2>2, <1>5, <1>8 DEF Staged
    <2> QED
      BY <2>1, <2>2
  <1>10. \A c, e \in rows.chunks :
          c.transfer = e.transfer /\ c # e => End(c) <= e.offset \/ End(e) <= c.offset
    BY <1>5 DEF Staged
  <1>11. \A c \in rows.chunks :
          rows.transfers[c.transfer].state = "open" /\ rows.transfers[c.transfer].expected # Unknown
          => End(c) <= Len(rows.transfers[c.transfer].expected)
    <2> SUFFICES ASSUME NEW c \in rows.chunks, rows.transfers[c.transfer].state = "open",
                        rows.transfers[c.transfer].expected # Unknown
                 PROVE  End(c) <= Len(rows.transfers[c.transfer].expected)
      OBVIOUS
    <2>1. c.transfer # t /\ c.transfer \in Transfers
      BY <1>5, <1>8
    <2>2. rows.transfers[c.transfer] = db.transfers[c.transfer] /\ c \in db.chunks
      BY <2>1, <1>5
    <2> QED
      BY <2>2 DEF Staged
  <1>12. ASSUME NEW u \in Transfers, rows.transfers[u].state = "sealed" PROVE SealedRow(rows, u)
    <2>1. CASE u = t
      BY <2>1, <1>4, <1>5, <1>6 DEF SealedRow, S
    <2>2. CASE u # t
      <3>1. rows.transfers[u] = db.transfers[u] /\ rows.files[u] = db.files[u]
        BY <2>2, <1>5
      <3>2. SealedRow(db, u)
        BY <3>1, <1>12 DEF Staged
      <3> QED
        BY <3>1, <3>2, <1>6 DEF SealedRow
    <2> QED
      BY <2>1, <2>2
  <1>13. Staged(rows)
    BY <1>7, <1>9, <1>10, <1>11, <1>12 DEF Staged
  <1> QED
    BY <1>1, <1>13

(* cleanup(): parts go with their transfer.                                 *)
LEMMA CleanupStages ==
    ASSUME Fine(db), Staged(db), Cleanup
    PROVE  Staged(db')
  <1> DEFINE rows ==
           [transfers |-> [t \in Transfers |-> IF t \in Expired
                              THEN [db.transfers[t] EXCEPT !.state = "expired"] ELSE db.transfers[t]],
            chunks |-> {c \in db.chunks : c.transfer \notin Expired},
            files |-> [f \in Files |->
                         IF f \in Purgeable
                         THEN [NewFile EXCEPT !.state = "purged"]
                         ELSE IF f \in Unmarked THEN [db.files[f] EXCEPT !.mark = "none"]
                         ELSE db.files[f]]]
  <1>1. db' = db \/ db' = rows
    BY DEF Cleanup, Transaction
  <1>2. \A t \in Transfers : db.transfers[t] \in TransferRows /\ db.files[t] \in FileRows /\ t \in Files
    BY DEF Fine, Tables, Files
  <1>3. /\ rows.chunks \subseteq db.chunks
        /\ \A c \in db.chunks : c.transfer \notin Expired => c \in rows.chunks
    OBVIOUS
  <1>4. ASSUME NEW t \in Transfers
        PROVE  /\ t \in Expired => rows.transfers[t].state = "expired"
               /\ t \notin Expired => rows.transfers[t] = db.transfers[t]
    BY <1>2 DEF TransferRows
  <1>5. ASSUME NEW t \in Transfers
        PROVE  \/ rows.files[t].state = db.files[t].state /\ rows.files[t].data = db.files[t].data
               \/ rows.files[t].state \in {"deleted", "purged"}
    BY <1>2 DEF FileRows, NewFile
  <1> HIDE DEF rows
  <1>6. \A t \in Transfers : t \notin Expired => PartsOf(rows, t) = PartsOf(db, t)
    BY <1>3 DEF PartsOf
  <1>7. Staged(rows)
    <2>1. \A t \in Transfers :
              \/ /\ rows.transfers[t].state = db.transfers[t].state
                 /\ rows.transfers[t].expected = db.transfers[t].expected
                 /\ PartsOf(rows, t) = PartsOf(db, t)
              \/ rows.transfers[t].state \in {"cancelled", "expired"}
      BY <1>4, <1>6
    <2> QED
      BY <2>1, <1>3, <1>5, StagedStays
  <1> QED
    BY <1>1, <1>7
-----------------------------------------------------------------------------
(* The other steps of a transfer.                                           *)
LEMMA TransferStages ==
    ASSUME Fine(db), Staged(db), NEW t \in Transfers,
           \/ \E e \in Payloads \cup {Unknown} : OpenUpload(t, e)
           \/ \E f \in Files : OpenDownload(t, f)
           \/ Cancel(t) \/ Due(t)
    PROVE  Staged(db')
  <1>1. db.transfers[t] \in TransferRows
    BY DEF Fine, Tables
  <1>2. ASSUME NEW e, OpenUpload(t, e) PROVE Staged(db')
    <2> DEFINE r == [db.transfers[t] EXCEPT !.state = "open", !.expected = e]
               rows == [db EXCEPT !.transfers[t] = r]
    <2>1. db' = db \/ db' = rows
      BY <1>2 DEF OpenUpload, Transaction
    <2>2. r.state = "open" /\ db.transfers[t].state = "none"
      BY <1>1, <1>2 DEF OpenUpload, TransferRows
    <2> HIDE DEF r
    <2> QED
      BY <2>1, <2>2, StagedTransferPut
  <1>3. ASSUME NEW f, OpenDownload(t, f) PROVE Staged(db')
    <2> DEFINE r == [db.transfers[t] EXCEPT !.state = "open", !.expected = db.files[f].data, !.target = f]
               rows == [db EXCEPT !.transfers[t] = r]
    <2>1. db' = db \/ db' = rows
      BY <1>3 DEF OpenDownload, Transaction
    <2>2. r.state = "open" /\ db.transfers[t].state = "none"
      BY <1>1, <1>3 DEF OpenDownload, TransferRows
    <2> HIDE DEF r
    <2> QED
      BY <2>1, <2>2, StagedTransferPut
  <1>4. CASE Cancel(t)
    <2> DEFINE r == [db.transfers[t] EXCEPT !.state = "cancelled"]
               rows == [db EXCEPT !.transfers[t] = r]
    <2>1. db' = db \/ db' = rows
      BY <1>4 DEF Cancel, Transaction, Fine, Tables
    <2>2. r.state = "cancelled"
      BY <1>1 DEF TransferRows
    <2> HIDE DEF r
    <2> QED
      BY <2>1, <2>2, StagedTransferPut
  <1>5. CASE Due(t)
    <2> DEFINE r == [db.transfers[t] EXCEPT !.due = TRUE]
               rows == [db EXCEPT !.transfers[t] = r]
    <2>1. db' = rows
      BY <1>5 DEF Due, Fine, Tables
    <2>2. r.state = db.transfers[t].state /\ r.expected = db.transfers[t].expected
      BY <1>1 DEF TransferRows
    <2> HIDE DEF r
    <2> QED
      BY <2>1, <2>2, StagedTransferPut
  <1> QED
    BY <1>2, <1>3, <1>4, <1>5

(* The steps of the files leave the parts as they are.                      *)
LEMMA FileStages ==
    ASSUME ContentsAssumption, Fine(db), Staged(db), NEW f \in Files,
           \/ SealQuery(f) \/ MarkLate(f) \/ UseFile(f) \/ PurgeFile(f)
           \/ f \in Jobs /\ CommitOutput(f)
    PROVE  Staged(db')
  <1>1. db.files[f] \in FileRows /\ db.files \in [Files -> FileRows]
    BY DEF Fine, Tables
  <1>2. ASSUME NEW r, r.state = db.files[f].state, r.data = db.files[f].data,
               db' = db \/ db' = [db EXCEPT !.files[f] = r]
        PROVE  Staged(db')
    BY <1>2, StagedFilePut
  <1>3. CASE SealQuery(f)
    <2> DEFINE r == [db.files[f] EXCEPT !.mark = "fresh"]
    <2>1. db' = db \/ db' = [db EXCEPT !.files[f] = r]
      BY <1>3 DEF SealQuery, Transaction, Fine, Tables
    <2>2. r.state = db.files[f].state /\ r.data = db.files[f].data
      BY <1>1 DEF FileRows
    <2> HIDE DEF r
    <2> QED
      BY <1>2, <2>1, <2>2
  <1>4. CASE MarkLate(f)
    <2> DEFINE r == [db.files[f] EXCEPT !.mark = "late"]
    <2>1. db' = db \/ db' = [db EXCEPT !.files[f] = r]
      BY <1>4 DEF MarkLate, Fine, Tables
    <2>2. r.state = db.files[f].state /\ r.data = db.files[f].data
      BY <1>1 DEF FileRows
    <2> HIDE DEF r
    <2> QED
      BY <1>2, <2>1, <2>2
  <1>5. CASE UseFile(f)
    <2> DEFINE q == [db.files[f] EXCEPT !.ordinary = TRUE]
               r == [db.files[f] EXCEPT !.cited = ~@]
    <2>1. db' = db \/ db' = [db EXCEPT !.files[f] = q] \/ db' = [db EXCEPT !.files[f] = r]
      BY <1>5 DEF UseFile, Transaction, Fine, Tables
    <2>2. /\ r.state = db.files[f].state /\ r.data = db.files[f].data
          /\ q.state = db.files[f].state /\ q.data = db.files[f].data
      BY <1>1 DEF FileRows
    <2> HIDE DEF q, r
    <2> QED
      BY <1>2, <2>1, <2>2
  <1>6. CASE PurgeFile(f)
    <2> DEFINE r == [NewFile EXCEPT !.state = "deleted"]
    <2>1. db' = db \/ db' = [db EXCEPT !.files[f] = r]
      BY <1>6 DEF PurgeFile, Transaction
    <2>2. r.state = "deleted"
      BY DEF NewFile
    <2> HIDE DEF r
    <2> QED
      BY <2>1, <2>2, StagedFilePut
  <1>7. CASE f \in Jobs /\ CommitOutput(f)
    <2> DEFINE r == [db.files[f] EXCEPT !.state = "live", !.data = tool[f].data]
    <2>1. db' = db \/ db' = [db EXCEPT !.files[f] = r]
      BY <1>7 DEF CommitOutput, Transaction
    <2>2. f \notin Transfers
      BY <1>7 DEF ContentsAssumption
    <2> HIDE DEF r
    <2> QED
      BY <2>1, <2>2, StagedFilePut
  <1> QED
    BY <1>3, <1>4, <1>5, <1>6, <1>7

(* Every step.                                                              *)
LEMMA StagedStep ==
    ASSUME ContentsAssumption, ContentsInv, Staged(db), [NextContents]_contents_vars
    PROVE  Staged(db')
  <1>1. Fine(db) /\ Transfers \subseteq Files /\ Jobs \subseteq Files
    BY DEF ContentsInv, Files
  <1>2. CASE Clients
    BY <1>1, <1>2, PutPartStages, SealStages, TransferStages, FileStages DEF Clients
  <1>3. CASE \E t \in Transfers : Due(t) \/ MarkLate(t)
    BY <1>1, <1>3, TransferStages, FileStages
  <1>4. CASE Cleanup
    BY <1>1, <1>4, CleanupStages
  <1>5. CASE \E j \in Jobs : CommitOutput(j)
    BY <1>1, <1>5, FileStages
  <1>6. CASE UNCHANGED db
    BY <1>6
  <1>7. CASE Collect \/ CollectorDies \/ Collecting \/ \E c \in Content : GrowOld(c)
    BY <1>6, <1>7 DEF Collect, CollectorDies, Collecting, RemoveEntry, Prune, Examine, GrowOld
  <1>8. ASSUME NEW j \in Jobs, ToolStep(j) PROVE Staged(db')
    BY <1>5, <1>6, <1>8 DEF ToolStep, WriteBytes, WriteIndex, PinOutput, AbandonOutput
  <1>9. CASE UNCHANGED contents_vars
    BY <1>6, <1>9 DEF contents_vars
  <1> QED
    BY <1>2, <1>3, <1>4, <1>7, <1>8, <1>9 DEF NextContents

(* The first state.                                                         *)
LEMMA StagedStart ==
    ASSUME InitContents
    PROVE  Staged(db)
  <1>1. db.chunks = {} /\ \A t \in Transfers : db.transfers[t].state # "sealed"
    BY DEF InitContents, NewTransfer
  <1> QED
    BY <1>1, FS_EmptySet DEF Staged

(* What the invariant says of a transfer that is sealed ...                    *)
LEMMA SealedMeant ==
    ASSUME Staged(db)
    PROVE  SealedAsSent
  <1> SUFFICES ASSUME NEW t \in Transfers, db.transfers[t].state = "sealed"
               PROVE  /\ db.files[t].state # "none"
                      /\ db.files[t].state = "live" => db.files[t].data = db.transfers[t].expected
                      /\ AsSent(ChunksOf(t), db.transfers[t].expected)
    BY DEF SealedAsSent, AsSent, End
  <1> QED
    BY DEF Staged, SealedRow, PartsOf, ChunksOf

(* ... and of one that is uploading.                                           *)
LEMMA MissingMeant ==
    ASSUME ContentsAssumption, Fine(db), Staged(db)
    PROVE  MissingExact
  <1> SUFFICES ASSUME NEW t \in Transfers, Uploading(t), db.transfers[t].expected # Unknown
               PROVE
        LET size   == Len(db.transfers[t].expected)
            page[k \in 0..size] == MissingRanges(ChunksOf(t), size, k, 1)
            listed[k \in 0..size] ==
                (UNION {i[1]..(i[2] - 1) : i \in {page[k].items[n] : n \in DOMAIN page[k].items}})
                    \cup (IF page[k].next = size THEN {} ELSE listed[page[k].next])
        IN  listed[0] = (0..(size - 1)) \ UNION {c.offset..(c.offset + Len(c.data) - 1) : c \in ChunksOf(t)}
    BY DEF MissingExact
  <1> DEFINE S == ChunksOf(t)
             size == Len(db.transfers[t].expected)
             page == [k \in 0..size |-> MissingRanges(S, size, k, 1)]
  <1>1. db.transfers[t].expected \in Content
    BY DEF Fine, Tables, TransferRows
  <1>2. size \in Nat
    BY <1>1, ContentIsBytes
  <1>3. S = PartsOf(db, t)
    BY DEF ChunksOf, PartsOf
  <1>4. Laid(S)
    BY <1>3, PartsLaid
  <1>5. \A c \in S : End(c) <= size
    BY DEF Staged, Uploading, ChunksOf
  <1>6. \A k \in 0..size : page[k] = MissingRanges(S, size, k, 1)
    OBVIOUS
  <1> HIDE DEF page
  <1>7. (CHOOSE listed : Followed(listed, page, size))[0] = (0..(size - 1)) \ Covered(S)
    BY <1>2, <1>4, <1>5, <1>6, PagesMeant
  <1> HIDE DEF size, S
  <1>8. Covered(S) = UNION {c.offset..(c.offset + Len(c.data) - 1) : c \in S}
    <2> DEFINE V == UNION {c.offset..(c.offset + Len(c.data) - 1) : c \in S}
    <2>1. \A b : b \in Covered(S) <=> \E c \in S : b \in c.offset..(c.offset + Len(c.data) - 1)
      <3>1. \A b : b \in Covered(S) <=> \E c \in S : b \in c.offset..(End(c) - 1)
        BY DEF Covered
      <3>2. \A c \in S : c.offset..(End(c) - 1) = c.offset..(c.offset + Len(c.data) - 1)
        <4>1. \A c \in S : c.offset \in Nat /\ Len(c.data) \in Nat /\ End(c) = c.offset + Len(c.data)
          BY <1>4 DEF Laid, End
        <4> QED
          BY <4>1
      <3> QED
        BY <3>1, <3>2
    <2>2. \A b : b \in V <=> \E c \in S : b \in c.offset..(c.offset + Len(c.data) - 1)
      OBVIOUS
    <2> HIDE DEF V
    <2>3. Covered(S) = V
      BY <2>1, <2>2
    <2> QED
      BY <2>3 DEF V
  <1> QED
    BY <1>7, <1>8 DEF Followed, Bytes, page, size, S

(* No interruption loses bytes that something refers to; what a transfer seals *)
(* is byte for byte what was sent, what it lists as missing is what has not    *)
(* been sent, and what it serves is there.                                     *)
THEOREM ContentsAlwaysSound == ContentsSpec => ContentsSound
  <1> DEFINE Inv == ContentsInv /\ Staged(db)
  <1>1. InitContents => Inv
    BY ContentsAssumption, ContentsStart, StagedStart
  <1>2. Inv /\ [NextContents]_contents_vars => Inv' /\ ContentKept
    <2> SUFFICES ASSUME Inv, [NextContents]_contents_vars PROVE Inv' /\ ContentKept
      OBVIOUS
    <2>1. ContentsInv' /\ ContentKept
      BY ContentsAssumption, ContentsStep
    <2>2. Staged(db')
      BY ContentsAssumption, StagedStep
    <2> QED
      BY <2>1, <2>2
  <1>3. Inv => SealedAsSent /\ MissingExact /\ DownloadsServed
    BY ContentsAssumption, SealedMeant, MissingMeant DEF ContentsInv, DownloadsServed, Fine
  <1>4. Inv' => (SealedAsSent /\ MissingExact /\ DownloadsServed)'
    BY <1>3, PTL
  <1>5. Inv /\ [NextContents]_contents_vars
           => [ContentKept /\ (SealedAsSent /\ MissingExact /\ DownloadsServed)']_contents_vars
    BY <1>2, <1>4
  <1> QED
    BY <1>1, <1>2, <1>5, PTL DEF ContentsSpec, ContentsSound
-----------------------------------------------------------------------------
(* The post of the documents: its generation counts, its revision is the last  *)
(* one, and what a client drafted is based on one of them.                     *)
SomeSequence(s) == \E S : s \in Seq(S)
DraftRows == [edit : Edits \cup {NoDraft.edit}, base : Nat, read : Nat, expected : Nat]

PostRows == [generation : Nat, revision : Nat, live : BOOLEAN]

DocumentsInv ==
    /\ post \in PostRows
    /\ SomeSequence(revisions)
    /\ post.revision = Len(revisions) /\ post.revision >= 1
    /\ post.generation >= 1 /\ post.generation <= MaxEdits + 1
    /\ draft \in [Editors -> DraftRows]
    /\ \A e \in Editors : draft[e].base <= Len(revisions)

(* An editor without a draft.                                                 *)
LEMMA NoDraftRow == NoDraft \in DraftRows /\ NoDraft.base = 0
  BY DEF NoDraft, DraftRows

(* A longer sequence begins with the one it was appended to.                   *)
LEMMA AppendedTo ==
    ASSUME NEW s, NEW x, SomeSequence(s)
    PROVE  /\ SomeSequence(Append(s, x))
           /\ Len(s) \in Nat /\ Len(Append(s, x)) = Len(s) + 1 /\ IsPrefix(s, Append(s, x)) /\ IsPrefix(s, s)
  <1>1. PICK S : s \in Seq(S)
    BY DEF SomeSequence
  <1> DEFINE T == S \cup {x}
  <1>2. s \in Seq(T) /\ x \in T
    BY <1>1
  <1> HIDE DEF T
  <1>3. Append(s, x) \in Seq(T) /\ Len(Append(s, x)) = Len(s) + 1
    BY <1>2
  <1>4. SubSeq(Append(s, x), 1, Len(s)) = SubSeq(s, 1, Len(s))
    BY <1>2, <1>3
  <1> QED
    BY <1>2, <1>3, <1>4 DEF IsPrefix, SomeSequence

(* A revision appends one text.                                                *)
LEMMA ReviseKeeps ==
    ASSUME DocumentsInv, NEW e \in Editors, Expected(e), NEW text, Revise(e, text)
    PROVE  DocumentsInv' /\ HistoryKept
  <1>1. /\ revisions' = Append(revisions, text)
        /\ post' = [post EXCEPT !.generation = @ + 1, !.revision = Len(revisions) + 1]
        /\ draft' = [draft EXCEPT ![e] = NoDraft]
    BY DEF Revise
  <1>2. /\ SomeSequence(revisions') /\ Len(revisions) \in Nat
        /\ Len(revisions') = Len(revisions) + 1 /\ IsPrefix(revisions, revisions')
    BY <1>1, AppendedTo DEF DocumentsInv
  <1>3. post \in PostRows /\ post.generation <= MaxEdits /\ post.generation >= 1
    BY DEF DocumentsInv, Expected
  <1>4. /\ post' \in PostRows
        /\ post'.generation = post.generation + 1 /\ post'.revision = Len(revisions')
    <2>1. post = [generation |-> post.generation, revision |-> post.revision, live |-> post.live]
          /\ post.generation \in Nat /\ post.live \in BOOLEAN
      BY <1>3 DEF PostRows
    <2>2. post' = [generation |-> post.generation + 1, revision |-> Len(revisions) + 1, live |-> post.live]
      BY <1>1, <2>1
    <2> QED
      BY <1>2, <2>1, <2>2 DEF PostRows
  <1>5. draft' \in [Editors -> DraftRows] /\ \A d \in Editors : draft'[d].base <= Len(revisions')
    <2>1. \A d \in Editors : draft[d] \in DraftRows /\ draft[d].base \in Nat
      BY DEF DocumentsInv, DraftRows
    <2> QED
      BY <1>1, <1>2, <2>1, NoDraftRow DEF DocumentsInv
  <1>6. MaxEdits \in Nat /\ post.generation \in Nat
    BY <1>3, DocumentsAssumption DEF PostRows, DocumentsAssumption
  <1>7. DocumentsInv'
    BY <1>2, <1>3, <1>4, <1>5, <1>6 DEF DocumentsInv
  <1>8. HistoryKept
    BY <1>2, <1>4, <1>6 DEF HistoryKept
  <1> QED
    BY <1>7, <1>8

(* Every other step leaves the revisions alone.                                *)
LEMMA DraftKeeps ==
    ASSUME DocumentsInv, NEW e \in Editors,
           (\E edit \in Edits : PrepareEdit(e, edit)) \/ LearnGeneration(e) \/ GiveUpEdit(e)
    PROVE  DocumentsInv' /\ HistoryKept
  <1>1. UNCHANGED <<post, revisions>> /\ Len(revisions) \in Nat /\ IsPrefix(revisions, revisions)
    BY AppendedTo DEF PrepareEdit, LearnGeneration, GiveUpEdit, DocumentsInv
  <1>2. /\ post.revision \in Nat /\ post.generation \in Nat /\ post.revision = Len(revisions)
        /\ draft[e] \in DraftRows /\ draft[e].base <= Len(revisions) /\ draft \in [Editors -> DraftRows]
    BY DEF DocumentsInv, PostRows
  <1>3. \E r \in DraftRows : r.base <= Len(revisions) /\ draft' = [draft EXCEPT ![e] = r]
    <2>1. ASSUME NEW edit \in Edits, PrepareEdit(e, edit)
          PROVE  \E r \in DraftRows : r.base <= Len(revisions) /\ draft' = [draft EXCEPT ![e] = r]
      <3> DEFINE r == [edit |-> edit, base |-> post.revision, read |-> post.generation, expected |-> post.generation]
      <3>1. r \in DraftRows /\ r.base <= Len(revisions)
        BY <1>2, <1>1 DEF DraftRows
      <3> QED
        BY <2>1, <3>1 DEF PrepareEdit
    <2>2. CASE LearnGeneration(e)
      <3> DEFINE r == [draft[e] EXCEPT !.expected = post.generation]
      <3>1. r \in DraftRows /\ r.base = draft[e].base
        BY <1>2 DEF DraftRows
      <3>2. draft' = [draft EXCEPT ![e] = r]
        BY <2>2 DEF LearnGeneration
      <3> QED
        BY <1>2, <3>1, <3>2
    <2>3. CASE GiveUpEdit(e)
      <3>1. draft' = [draft EXCEPT ![e] = NoDraft]
        BY <2>3 DEF GiveUpEdit
      <3>2. NoDraft \in DraftRows /\ NoDraft.base <= Len(revisions)
        BY <1>1, NoDraftRow
      <3> QED
        BY <3>1, <3>2
    <2> QED
      BY <2>1, <2>2, <2>3
  <1>4. draft' \in [Editors -> DraftRows] /\ \A d \in Editors : draft'[d].base <= Len(revisions)
    BY <1>2, <1>3 DEF DocumentsInv
  <1>5. DocumentsInv'
    BY <1>1, <1>4 DEF DocumentsInv
  <1> QED
    BY <1>1, <1>2, <1>5 DEF HistoryKept

(* A change of the metadata makes a generation and no revision.                *)
LEMMA TouchKeeps ==
    ASSUME DocumentsInv, NEW e \in Editors, NEW live \in BOOLEAN, Touch(e, live)
    PROVE  DocumentsInv' /\ HistoryKept
  <1>1. UNCHANGED revisions /\ Len(revisions) \in Nat /\ IsPrefix(revisions, revisions)
    BY AppendedTo DEF Touch, DocumentsInv
  <1>2. /\ post \in PostRows /\ post.generation <= MaxEdits /\ post.generation >= 1
        /\ post' = [post EXCEPT !.generation = @ + 1, !.live = live]
        /\ draft' = [draft EXCEPT ![e] = NoDraft]
    BY DEF DocumentsInv, Expected, Touch
  <1>3. /\ post' \in PostRows /\ post.generation \in Nat
        /\ post'.generation = post.generation + 1 /\ post'.revision = post.revision
    <2>1. post = [generation |-> post.generation, revision |-> post.revision, live |-> post.live]
          /\ post.generation \in Nat /\ post.revision \in Nat
      BY <1>2 DEF PostRows
    <2>2. post' = [generation |-> post.generation + 1, revision |-> post.revision, live |-> live]
      BY <1>2, <2>1
    <2> QED
      BY <2>1, <2>2 DEF PostRows
  <1>4. draft' \in [Editors -> DraftRows] /\ \A d \in Editors : draft'[d].base <= Len(revisions)
    BY <1>1, <1>2, NoDraftRow DEF DocumentsInv
  <1>5. MaxEdits \in Nat
    BY DocumentsAssumption DEF DocumentsAssumption
  <1>6. DocumentsInv'
    BY <1>1, <1>2, <1>3, <1>4, <1>5 DEF DocumentsInv
  <1> QED
    BY <1>1, <1>3, <1>6 DEF HistoryKept

(* Each handler revises the post or leaves it.                                 *)
LEMMA DocumentsStep ==
    ASSUME DocumentsInv, [NextDocuments]_documents_vars
    PROVE  DocumentsInv' /\ (HistoryKept \/ UNCHANGED documents_vars)
  <1>1. CASE UNCHANGED documents_vars
    BY <1>1 DEF documents_vars, DocumentsInv
  <1>2. ASSUME NEW e \in Editors,
               PostEdit(e) \/ (\E b \in BOOLEAN : TextPatch(e, b)) \/ \E target \in 1..Len(revisions) : PostRollback(e, target)
        PROVE  DocumentsInv' /\ HistoryKept
    <2>1. Expected(e) /\ \E text : Revise(e, text)
      BY <1>2 DEF PostEdit, TextPatch, PostRollback
    <2> QED
      BY <2>1, ReviseKeeps
  <1>3. ASSUME NEW e \in Editors,
               (\E edit \in Edits : PrepareEdit(e, edit)) \/ LearnGeneration(e) \/ GiveUpEdit(e)
        PROVE  DocumentsInv' /\ HistoryKept
    BY <1>3, DraftKeeps
  <1>4. ASSUME NEW e \in Editors, NEW b \in BOOLEAN, Touch(e, b)
        PROVE  DocumentsInv' /\ HistoryKept
    BY <1>4, TouchKeeps
  <1>5. CASE NextDocuments
    BY <1>2, <1>3, <1>4, <1>5 DEF NextDocuments
  <1> QED
    BY <1>1, <1>5

(* What a client drafted and what was published agree in every state.          *)
THEOREM DocumentsInvariance == DocumentsSpec => []DocumentsInv
  <1>1. InitDocuments => DocumentsInv
    <2> SUFFICES ASSUME InitDocuments PROVE DocumentsInv
      OBVIOUS
    <2>1. revisions \in Seq({FirstText}) /\ Len(revisions) = 1
      BY DEF InitDocuments
    <2>2. post \in PostRows /\ post.revision = 1 /\ post.generation = 1
      BY DEF InitDocuments, PostRows
    <2>3. draft \in [Editors -> DraftRows] /\ \A d \in Editors : draft[d].base <= Len(revisions)
      BY <2>1, NoDraftRow DEF InitDocuments
    <2>4. MaxEdits \in Nat /\ MaxEdits >= 1
      BY DocumentsAssumption DEF DocumentsAssumption
    <2> QED
      BY <2>1, <2>2, <2>3, <2>4 DEF DocumentsInv, SomeSequence
  <1>2. DocumentsInv /\ [NextDocuments]_documents_vars => DocumentsInv'
    BY DocumentsStep
  <1> QED
    BY <1>1, <1>2, PTL DEF DocumentsSpec

(* No revision is changed or removed by a later one, whatever the editors do.  *)
THEOREM HistoryAlwaysKept == DocumentsSpec => [][HistoryKept]_documents_vars
  <1>1. DocumentsInv /\ [NextDocuments]_documents_vars => [HistoryKept]_documents_vars
    BY DocumentsStep
  <1> QED
    BY <1>1, DocumentsInvariance, PTL DEF DocumentsSpec
-----------------------------------------------------------------------------
(* What stands in a text.  l tokens of needle end at position i of s.          *)
Ends(s, i, needle, l) ==
    /\ l \in Nat /\ l <= i /\ l <= Len(needle)
    /\ \A q \in 1..l : s[i - l + q] = needle[q]

(* The longest start of needle, of at most m tokens, that ends at i.           *)
Longest(s, i, needle, m, j) ==
    /\ j \in 0..m /\ Ends(s, i, needle, j)
    /\ \A l \in 0..m : Ends(s, i, needle, l) => l <= j

(* A table with the longest border of each start of needle up to j.            *)
Borders(needle, prefix, j) ==
    \A k \in 1..j : Longest(needle, k, needle, k - 1, prefix[k])

(* Two starts of needle that end at one place: the shorter ends the longer.    *)
LEMMA EndsWithin ==
    ASSUME NEW s, NEW i \in Nat, NEW needle, NEW a, NEW b, a <= b,
           Ends(s, i, needle, a), Ends(s, i, needle, b)
    PROVE  Ends(needle, b, needle, a)
  <1>1. a \in Nat /\ b \in Nat /\ b <= i /\ a <= Len(needle)
    BY DEF Ends
  <1>2. ASSUME NEW q \in 1..a PROVE needle[b - a + q] = needle[q]
    <2>1. (b - a + q) \in 1..b /\ i - b + (b - a + q) = i - a + q
      BY <1>1
    <2>2. s[i - a + q] = needle[q]
      BY DEF Ends
    <2>3. \A p \in 1..b : s[i - b + p] = needle[p]
      BY DEF Ends
    <2>4. s[i - b + (b - a + q)] = needle[b - a + q]
      BY <2>1, <2>3
    <2> QED
      BY <2>1, <2>2, <2>4
  <1> QED
    BY <1>1, <1>2 DEF Ends

(* And what ends the longer ends at that place.                                *)
LEMMA EndsThrough ==
    ASSUME NEW s, NEW i \in Nat, NEW needle, NEW a, NEW b,
           Ends(s, i, needle, b), Ends(needle, b, needle, a)
    PROVE  Ends(s, i, needle, a)
  <1>1. a \in Nat /\ b \in Nat /\ b <= i /\ a <= Len(needle) /\ a <= b
    BY DEF Ends
  <1>2. ASSUME NEW q \in 1..a PROVE s[i - a + q] = needle[q]
    <2>1. (b - a + q) \in 1..b /\ i - b + (b - a + q) = i - a + q
      BY <1>1
    <2>2. needle[b - a + q] = needle[q]
      BY DEF Ends
    <2>3. \A p \in 1..b : s[i - b + p] = needle[p]
      BY DEF Ends
    <2>4. s[i - b + (b - a + q)] = needle[b - a + q]
      BY <2>1, <2>3
    <2> QED
      BY <2>1, <2>2, <2>4
  <1> QED
    BY <1>1, <1>2 DEF Ends

(* One token fewer.                                                            *)
LEMMA EndsBefore ==
    ASSUME NEW s, NEW i \in Nat, i >= 1, NEW needle, NEW l \in Nat, Ends(s, i, needle, l + 1)
    PROVE  Ends(s, i - 1, needle, l) /\ s[i] = needle[l + 1]
  <1>0. \A q \in 1..(l + 1) : s[i - (l + 1) + q] = needle[q]
    BY DEF Ends
  <1>1. i - (l + 1) + (l + 1) = i /\ (l + 1) \in 1..(l + 1)
    OBVIOUS
  <1>2. s[i] = needle[l + 1]
    BY <1>0, <1>1
  <1>3. ASSUME NEW q \in 1..l PROVE s[(i - 1) - l + q] = needle[q]
    <2>1. (i - 1) - l + q = i - (l + 1) + q /\ q \in 1..(l + 1)
      OBVIOUS
    <2> QED
      BY <1>0, <2>1
  <1>4. l <= i - 1
    BY DEF Ends
  <1>5. l <= Len(needle)
    BY DEF Ends
  <1> QED
    BY <1>2, <1>3, <1>4, <1>5 DEF Ends

(* One token more.                                                             *)
LEMMA EndsAfter ==
    ASSUME NEW s, NEW i \in Nat, i >= 1, NEW needle, NEW l \in Nat,
           Ends(s, i - 1, needle, l), l + 1 <= Len(needle), s[i] = needle[l + 1]
    PROVE  Ends(s, i, needle, l + 1)
  <1>0. \A q \in 1..l : s[(i - 1) - l + q] = needle[q]
    BY DEF Ends
  <1>1. ASSUME NEW q \in 1..(l + 1) PROVE s[i - (l + 1) + q] = needle[q]
    <2>1. CASE q = l + 1
      <3>1. i - (l + 1) + q = i
        BY <2>1
      <3> QED
        BY <2>1, <3>1
    <2>2. CASE q # l + 1
      <3>1. i - (l + 1) + q = (i - 1) - l + q /\ q \in 1..l
        BY <2>2
      <3> QED
        BY <1>0, <3>1
    <2> QED
      BY <2>1, <2>2
  <1>2. l + 1 <= i
    BY DEF Ends
  <1> QED
    BY <1>1, <1>2 DEF Ends

(* There is one longest start.                                                 *)
LEMMA LongestIsOne ==
    ASSUME NEW s, NEW i \in Nat, NEW needle, NEW m \in Nat, Len(needle) \in Nat
    PROVE  /\ \E j : Longest(s, i, needle, m, j)
           /\ \A j, k : Longest(s, i, needle, m, j) /\ Longest(s, i, needle, m, k) => j = k
  <1> DEFINE R == {m - l : l \in {l \in 0..m : Ends(s, i, needle, l)}}
  <1>1. Ends(s, i, needle, 0)
    BY DEF Ends
  <1>2. R \in SUBSET Nat /\ R # {}
    <2>1. m - 0 \in R
      BY <1>1
    <2> QED
      BY <2>1
  <1> HIDE DEF R
  <1>3. PICK r \in R : \A q \in R : r <= q
    BY <1>2, LeastOf
  <1>4. PICK j \in 0..m : r = m - j /\ Ends(s, i, needle, j)
    BY <1>3 DEF R
  <1>5. ASSUME NEW l \in 0..m, Ends(s, i, needle, l) PROVE l <= j
    <2>1. m - l \in R
      BY <1>5 DEF R
    <2> QED
      BY <2>1, <1>3, <1>4
  <1>6. Longest(s, i, needle, m, j)
    BY <1>4, <1>5 DEF Longest
  <1>7. \A a, b : Longest(s, i, needle, m, a) /\ Longest(s, i, needle, m, b) => a = b
    BY DEF Longest
  <1> QED
    BY <1>6, <1>7
-----------------------------------------------------------------------------
(* Where the search falls back to from k matched tokens: the longest start     *)
(* that ends there and that token continues, or nothing.                       *)
Continues(needle, k, token, v) ==
    /\ v \in 0..k /\ Ends(needle, k, needle, v)
    /\ v = 0 \/ needle[v + 1] = token
    /\ \A l \in 0..k : Ends(needle, k, needle, l) /\ needle[l + 1] = token => l <= v

(* The prefixes that Advance() falls back through.                          *)
FallOf(needle, prefix, j, token, f) ==
    f = [k \in 0..j |-> IF k > 0 /\ needle[k + 1] # token THEN f[prefix[k]] ELSE k]

(* Advance() in terms of them.                                              *)
LEMMA AdvanceIs ==
    ASSUME NEW needle, NEW prefix, NEW j, NEW token
    PROVE  LET f == CHOOSE f : FallOf(needle, prefix, j, token, f)
           IN  Advance(needle, prefix, j, token) = IF needle[f[j] + 1] = token THEN f[j] + 1 ELSE f[j]
  BY DEF Advance, FallOf

(* The first k tokens of a needle end at its place k.                       *)
LEMMA WholeEnds ==
    ASSUME NEW needle, Len(needle) \in Nat, NEW k \in 0..Len(needle)
    PROVE  Ends(needle, k, needle, k)
  <1>1. \A q \in 1..k : k - k + q = q
    OBVIOUS
  <1> QED
    BY <1>1 DEF Ends

(* One step of falling back.                                                   *)
LEMMA FallStep ==
    ASSUME NEW needle, Len(needle) \in Nat, NEW k \in 0..Len(needle), NEW token
    PROVE  /\ k = 0 \/ needle[k + 1] = token => Continues(needle, k, token, k)
           /\ \A p, v : /\ k > 0 /\ needle[k + 1] # token
                        /\ Longest(needle, k, needle, k - 1, p) /\ Continues(needle, p, token, v)
                        => Continues(needle, k, token, v)
           /\ \A v, w : Continues(needle, k, token, v) /\ Continues(needle, k, token, w) => v = w
  <1>1. ASSUME k = 0 \/ needle[k + 1] = token PROVE Continues(needle, k, token, k)
    BY <1>1, WholeEnds DEF Continues
  <1>2. ASSUME NEW p, NEW v, k > 0, needle[k + 1] # token,
               Longest(needle, k, needle, k - 1, p), Continues(needle, p, token, v)
        PROVE  Continues(needle, k, token, v)
    <2>1. p \in 0..(k - 1) /\ Ends(needle, k, needle, p) /\ v \in 0..p /\ Ends(needle, p, needle, v)
      BY <1>2 DEF Longest, Continues
    <2>2. Ends(needle, k, needle, v)
      BY <2>1, EndsThrough
    <2>3. ASSUME NEW l \in 0..k, Ends(needle, k, needle, l), needle[l + 1] = token PROVE l <= v
      <3>1. l \in 0..(k - 1)
        BY <1>2, <2>3
      <3>2. l <= p
        BY <1>2, <2>3, <3>1 DEF Longest
      <3>3. Ends(needle, p, needle, l)
        BY <2>1, <2>3, <3>2, EndsWithin
      <3> QED
        BY <1>2, <2>1, <2>3, <3>2, <3>3 DEF Continues
    <2>4. v = 0 \/ needle[v + 1] = token
      BY <1>2 DEF Continues
    <2> QED
      BY <2>1, <2>2, <2>3, <2>4 DEF Continues
  <1>3. ASSUME NEW v, NEW w, Continues(needle, k, token, v), Continues(needle, k, token, w) PROVE v = w
    <2>1. /\ v \in 0..k /\ Ends(needle, k, needle, v) /\ (v = 0 \/ needle[v + 1] = token)
          /\ w \in 0..k /\ Ends(needle, k, needle, w) /\ (w = 0 \/ needle[w + 1] = token)
      BY <1>3 DEF Continues
    <2>2. v # 0 => v <= w
      BY <1>3, <2>1 DEF Continues
    <2>3. w # 0 => w <= v
      BY <1>3, <2>1 DEF Continues
    <2> QED
      BY <2>1, <2>2, <2>3
  <1> QED
    BY <1>1, <1>2, <1>3

(* What holds at each number when it holds at all before it, holds up to n.    *)
LEMMA Climbs ==
    ASSUME NEW m \in Nat, NEW n \in Nat, NEW P \in SUBSET (m..n),
           \A k \in m..n : (m..(k - 1) \subseteq P) => k \in P
    PROVE  P = m..n
  <1> SUFFICES ASSUME (m..n) \ P # {} PROVE FALSE
    OBVIOUS
  <1> DEFINE Bad == (m..n) \ P
  <1>1. Bad \in SUBSET Nat /\ Bad # {}
    OBVIOUS
  <1> HIDE DEF Bad
  <1>2. PICK k \in Bad : \A j \in Bad : k <= j
    BY <1>1, LeastOf
  <1>3. k \in m..n
    BY <1>2 DEF Bad
  <1>4. m..(k - 1) \subseteq P
    <2>1. ASSUME NEW j \in m..(k - 1) PROVE j \in P
      <3>1. j \in m..n /\ ~(k <= j)
        BY <1>3
      <3> QED
        BY <3>1, <1>2 DEF Bad
    <2> QED
      BY <2>1
  <1> QED
    BY <1>2, <1>3, <1>4 DEF Bad

(* Falling back ends, and ends where it should.                                *)
LEMMA FallMeant ==
    ASSUME NEW needle, Len(needle) \in Nat, NEW j \in 0..Len(needle), NEW token,
           NEW prefix, Borders(needle, prefix, j)
    PROVE  /\ \E f : FallOf(needle, prefix, j, token, f)
           /\ \A f : FallOf(needle, prefix, j, token, f) => \A k \in 0..j : Continues(needle, k, token, f[k])
  <1>1. \A k \in 1..j : Longest(needle, k, needle, k - 1, prefix[k]) /\ prefix[k] \in 0..(k - 1)
    BY DEF Borders, Longest
  <1>2. \A k \in 0..j : k \in 0..Len(needle)
    OBVIOUS
  <1> DEFINE P == {k \in 0..j : \E v : Continues(needle, k, token, v)}
  <1>3. ASSUME NEW k \in 0..j, 0..(k - 1) \subseteq P PROVE k \in P
    <2>1. CASE k = 0 \/ needle[k + 1] = token
      BY <2>1, <1>2, FallStep
    <2>2. CASE k > 0 /\ needle[k + 1] # token
      <3>1. prefix[k] \in 0..(k - 1) /\ Longest(needle, k, needle, k - 1, prefix[k])
        BY <1>1, <2>2
      <3>2. PICK v : Continues(needle, prefix[k], token, v)
        BY <1>3, <3>1
      <3>3. Continues(needle, k, token, v)
        BY <1>2, <2>2, <3>1, <3>2, FallStep
      <3> QED
        BY <3>3
    <2> QED
      BY <2>1, <2>2
  <1> HIDE DEF P
  <1>4. P = 0..j
    <2>1. P \in SUBSET (0..j)
      BY DEF P
    <2> QED
      BY <2>1, <1>3, Climbs
  <1> DEFINE f == [k \in 0..j |-> CHOOSE v : Continues(needle, k, token, v)]
  <1>5. ASSUME NEW k \in 0..j PROVE Continues(needle, k, token, f[k])
    <2>1. \E v : Continues(needle, k, token, v)
      BY <1>4 DEF P
    <2> QED
      BY <2>1
  <1>6. ASSUME NEW k \in 0..j
        PROVE  f[k] = IF k > 0 /\ needle[k + 1] # token THEN f[prefix[k]] ELSE k
    <2> HIDE DEF f
    <2>1. CASE k = 0 \/ needle[k + 1] = token
      <3>1. Continues(needle, k, token, k)
        BY <1>2, <2>1, FallStep
      <3>2. f[k] = k
        BY <1>2, <1>5, <3>1, FallStep
      <3> QED
        BY <2>1, <3>2
    <2>2. CASE k > 0 /\ needle[k + 1] # token
      <3>1. prefix[k] \in 0..(k - 1) /\ Longest(needle, k, needle, k - 1, prefix[k])
        BY <1>1, <2>2
      <3>2. Continues(needle, prefix[k], token, f[prefix[k]])
        BY <3>1, <1>5
      <3>3. Continues(needle, k, token, f[prefix[k]])
        BY <1>2, <2>2, <3>1, <3>2, FallStep
      <3>4. f[k] = f[prefix[k]]
        BY <1>2, <1>5, <3>3, FallStep
      <3> QED
        BY <2>2, <3>4
    <2> QED
      BY <2>1, <2>2
  <1>7. f = [k \in 0..j |-> f[k]]
    OBVIOUS
  <1> HIDE DEF f
  <1>8. FallOf(needle, prefix, j, token, f)
    BY <1>6, <1>7 DEF FallOf
  <1>9. ASSUME NEW g, FallOf(needle, prefix, j, token, g) PROVE \A k \in 0..j : Continues(needle, k, token, g[k])
    <2> DEFINE Q == {k \in 0..j : Continues(needle, k, token, g[k])}
    <2>1. \A k \in 0..j : g[k] = IF k > 0 /\ needle[k + 1] # token THEN g[prefix[k]] ELSE k
      BY <1>9 DEF FallOf
    <2>2. ASSUME NEW k \in 0..j, 0..(k - 1) \subseteq Q PROVE k \in Q
      <3>1. CASE k = 0 \/ needle[k + 1] = token
        <4>1. g[k] = k
          BY <2>1, <3>1
        <4> QED
          BY <4>1, <3>1, <1>2, FallStep
      <3>2. CASE k > 0 /\ needle[k + 1] # token
        <4>1. prefix[k] \in 0..(k - 1) /\ Longest(needle, k, needle, k - 1, prefix[k])
          BY <1>1, <3>2
        <4>2. Continues(needle, prefix[k], token, g[prefix[k]])
          BY <2>2, <4>1
        <4>3. Continues(needle, k, token, g[prefix[k]])
          BY <1>2, <3>2, <4>1, <4>2, FallStep
        <4>4. g[k] = g[prefix[k]]
          BY <2>1, <3>2
        <4> QED
          BY <4>3, <4>4
      <3> QED
        BY <3>1, <3>2
    <2>3. Q \in SUBSET (0..j)
      OBVIOUS
    <2> HIDE DEF Q
    <2>4. Q = 0..j
      BY <2>2, <2>3, Climbs
    <2> QED
      BY <2>4 DEF Q
  <1> QED
    BY <1>8, <1>9

(* Advance() keeps the longest start of needle that ends at the token.         *)
LEMMA AdvanceMeant ==
    ASSUME NEW s, NEW i \in Nat, i >= 1, NEW needle, Len(needle) \in Nat,
           NEW m \in Nat, m + 1 <= Len(needle),
           NEW j, Longest(s, i - 1, needle, m, j), NEW prefix, Borders(needle, prefix, j)
    PROVE  Longest(s, i, needle, m + 1, Advance(needle, prefix, j, s[i]))
  <1> DEFINE f == CHOOSE f : FallOf(needle, prefix, j, s[i], f)
             v == f[j]
             a == Advance(needle, prefix, j, s[i])
  <1>1. j \in 0..Len(needle) /\ j \in 0..m /\ Ends(s, i - 1, needle, j) /\ j \in 0..j
    BY DEF Longest
  <1>2. a = IF needle[v + 1] = s[i] THEN v + 1 ELSE v
    BY AdvanceIs
  <1>3. Continues(needle, j, s[i], v)
    <2>1. FallOf(needle, prefix, j, s[i], f)
      BY <1>1, FallMeant
    <2> HIDE DEF f
    <2> QED
      BY <1>1, <2>1, FallMeant
  <1> HIDE DEF a, v, f
  <1>4. v \in 0..j /\ Ends(needle, j, needle, v) /\ (v = 0 \/ needle[v + 1] = s[i])
    BY <1>3 DEF Continues
  <1>5. Ends(s, i - 1, needle, v)
    BY <1>1, <1>4, EndsThrough
  <1>6. ASSUME NEW l \in 0..(m + 1), Ends(s, i, needle, l), l # 0
        PROVE  l - 1 <= v /\ needle[l] = s[i]
    <2>0. PICK q \in 0..m : q + 1 = l
      <3>1. l - 1 \in 0..m /\ (l - 1) + 1 = l
        BY <1>6
      <3> QED
        BY <3>1
    <2>5. Ends(s, i, needle, q + 1) /\ q \in Nat /\ q = l - 1
      BY <1>6, <2>0
    <2>6. i \in Nat /\ i >= 1
      OBVIOUS
    <2>7. Ends(s, i, needle, q + 1)
      BY <2>5
    <2>8. q \in Nat
      BY <2>5
    <2>1. Ends(s, i - 1, needle, q) /\ s[i] = needle[q + 1]
      <3> HIDE <2>0, <2>5
      <3> QED
        BY <2>6, <2>7, <2>8, EndsBefore
    <2>2. q <= j
      BY <2>0, <2>1 DEF Longest
    <2>3. Ends(needle, j, needle, q) /\ q \in 0..j
      <3>1. i - 1 \in Nat
        OBVIOUS
      <3> QED
        BY <1>1, <2>0, <2>1, <2>2, <3>1, EndsWithin
    <2>4. q <= v
      BY <1>3, <2>1, <2>3 DEF Continues
    <2> QED
      BY <2>0, <2>1, <2>4, <2>5
  <1>7. CASE needle[v + 1] = s[i]
    <2>1. a = v + 1 /\ v + 1 <= Len(needle) /\ v \in Nat /\ a \in 0..(m + 1)
      BY <1>1, <1>2, <1>4, <1>7
    <2>2. Ends(s, i, needle, a)
      BY <1>5, <1>7, <2>1, EndsAfter
    <2>3. \A l \in 0..(m + 1) : Ends(s, i, needle, l) => l <= a
      BY <1>6, <2>1
    <2> QED
      BY <2>1, <2>2, <2>3 DEF Longest, a
  <1>8. CASE needle[v + 1] # s[i]
    <2>1. a = 0 /\ v = 0
      BY <1>2, <1>4, <1>8
    <2>2. Ends(s, i, needle, a) /\ a \in 0..(m + 1)
      BY <2>1 DEF Ends
    <2>3. ASSUME NEW l \in 0..(m + 1), Ends(s, i, needle, l) PROVE l <= a
      <3>1. l # 0 => l - 1 <= v /\ needle[l] = s[i]
        BY <1>6, <2>3
      <3>2. l # 0 => l = v + 1
        BY <2>1, <3>1
      <3> QED
        BY <1>8, <2>1, <3>1, <3>2
    <2> QED
      BY <2>2, <2>3 DEF Longest, a
  <1> QED
    BY <1>7, <1>8
-----------------------------------------------------------------------------
(* The table of prefixes, as a function that satisfies its equation.        *)
TableOf(needle, p) ==
    p = [i \in 1..Len(needle) |-> IF i = 1 THEN 0 ELSE Advance(needle, p, p[i - 1], needle[i])]

(* PrefixTable() is the one that is chosen.                                 *)
LEMMA PrefixTableIs ==
    ASSUME NEW needle
    PROVE  PrefixTable(needle) = CHOOSE p : TableOf(needle, p)
  BY DEF PrefixTable, TableOf

(* One row of the table from the rows before it.                               *)
LEMMA BorderStep ==
    ASSUME NEW needle, Len(needle) \in Nat, NEW p, NEW i \in 1..Len(needle), Borders(needle, p, i - 1)
    PROVE  Longest(needle, i, needle, i - 1, IF i = 1 THEN 0 ELSE Advance(needle, p, p[i - 1], needle[i]))
  <1>1. CASE i = 1
    <2>1. Ends(needle, 1, needle, 0)
      BY DEF Ends
    <2>2. 0..(1 - 1) = {0}
      OBVIOUS
    <2> QED
      BY <1>1, <2>1, <2>2 DEF Longest
  <1>2. CASE i # 1
    <2>1. i \in Nat /\ i >= 1 /\ i - 1 \in 1..(i - 1) /\ i - 2 \in Nat /\ (i - 2) + 1 <= Len(needle)
          /\ (i - 1) - 1 = i - 2 /\ (i - 2) + 1 = i - 1
      BY <1>2
    <2>2. Longest(needle, i - 1, needle, i - 2, p[i - 1])
      BY <2>1 DEF Borders
    <2>3. p[i - 1] \in 0..(i - 2)
      BY <2>2 DEF Longest
    <2>4. Borders(needle, p, p[i - 1])
      <3>1. \A k \in 1..p[i - 1] : k \in 1..(i - 1)
        BY <2>1, <2>3
      <3> QED
        BY <3>1 DEF Borders
    <2>5. Longest(needle, i, needle, (i - 2) + 1, Advance(needle, p, p[i - 1], needle[i]))
      BY <2>1, <2>2, <2>4, AdvanceMeant
    <2> QED
      BY <1>2, <2>1, <2>5
  <1> QED
    BY <1>1, <1>2

(* The table of _sequence_matches() is the table of the borders of needle.     *)
LEMMA PrefixTableMeant ==
    ASSUME NEW needle, Len(needle) \in Nat
    PROVE  Borders(needle, PrefixTable(needle), Len(needle))
  <1> DEFINE n == Len(needle)
             P == [i \in 1..n |-> CHOOSE j : Longest(needle, i, needle, i - 1, j)]
             T == PrefixTable(needle)
  <1>1. ASSUME NEW i \in 1..n PROVE Longest(needle, i, needle, i - 1, P[i])
    <2>1. i \in Nat /\ i - 1 \in Nat
      OBVIOUS
    <2>2. \E j : Longest(needle, i, needle, i - 1, j)
      BY <2>1, LongestIsOne
    <2> QED
      BY <2>2
  <1>2. P = [i \in 1..n |-> P[i]]
    OBVIOUS
  <1> HIDE DEF P
  <1>3. ASSUME NEW i \in 1..n
        PROVE  P[i] = IF i = 1 THEN 0 ELSE Advance(needle, P, P[i - 1], needle[i])
    <2>1. Borders(needle, P, i - 1)
      <3>1. \A k \in 1..(i - 1) : k \in 1..n
        OBVIOUS
      <3> QED
        BY <1>1, <3>1 DEF Borders
    <2>2. Longest(needle, i, needle, i - 1, IF i = 1 THEN 0 ELSE Advance(needle, P, P[i - 1], needle[i]))
      BY <2>1, BorderStep
    <2>3. i \in Nat /\ i - 1 \in Nat
      OBVIOUS
    <2> QED
      BY <1>1, <2>2, <2>3, LongestIsOne
  <1>4. TableOf(needle, P)
    BY <1>2, <1>3 DEF TableOf
  <1>5. TableOf(needle, T)
    BY <1>4, PrefixTableIs
  <1> HIDE DEF T
  <1>6. \A i \in 1..n : T[i] = IF i = 1 THEN 0 ELSE Advance(needle, T, T[i - 1], needle[i])
    BY <1>5 DEF TableOf
  <1> DEFINE Q == {i \in 1..n : Longest(needle, i, needle, i - 1, T[i])}
  <1>7. ASSUME NEW i \in 1..n, 1..(i - 1) \subseteq Q PROVE i \in Q
    <2>1. Borders(needle, T, i - 1)
      BY <1>7 DEF Borders
    <2>2. Longest(needle, i, needle, i - 1, IF i = 1 THEN 0 ELSE Advance(needle, T, T[i - 1], needle[i]))
      BY <2>1, BorderStep
    <2> QED
      BY <1>6, <2>2
  <1>8. Q \in SUBSET (1..n) /\ n \in Nat
    OBVIOUS
  <1> HIDE DEF Q, n
  <1>9. Q = 1..n
    BY <1>7, <1>8, Climbs
  <1> QED
    BY <1>9 DEF Q, n, T, Borders

(* The scan: what has been matched, and the first places at which it was all.  *)
ScanStep(text, needle, prefix, a, i) ==
    IF Len(a.at) = 2 THEN a
    ELSE LET j == Advance(needle, prefix, a.j, text[i])
         IN  IF j = Len(needle) THEN [j |-> prefix[j], at |-> Append(a.at, i - j)] ELSE [j |-> j, at |-> a.at]

(* The scan of a text, as a function that satisfies its equation.           *)
ScanOf(text, needle, prefix, scan) ==
    scan = [i \in 0..Len(text) |-> IF i = 0 THEN [j |-> 0, at |-> <<>>]
                                   ELSE ScanStep(text, needle, prefix, scan[i - 1], i)]

(* SequenceMatches() is what the chosen one ends with.                      *)
LEMMA SequenceMatchesIs ==
    ASSUME NEW text, NEW needle
    PROVE  SequenceMatches(text, needle) =
              (CHOOSE scan : ScanOf(text, needle, PrefixTable(needle), scan))[Len(text)].at
  BY DEF SequenceMatches, ScanOf, ScanStep

(* The places where needle stands in the first i tokens of text.               *)
Places(text, needle, i) == {p \in 0..(i - Len(needle)) : Ends(text, p + Len(needle), needle, Len(needle))}

(* The first places, in order, two at most.                                    *)
FirstTwo(places, at) ==
    /\ at \in Seq(Int) /\ Len(at) \in 0..2
    /\ \A k \in 1..Len(at) : at[k] \in places
    /\ Len(at) = 2 => at[1] < at[2]
    /\ \A p \in places : \/ \E k \in 1..Len(at) : p = at[k]
                         \/ Len(at) = 2 /\ p > at[2]

(* The places that end by i: those by i - 1, and the one that ends at i.    *)
LEMMA PlacesNext ==
    ASSUME NEW text, NEW needle, Len(needle) \in Nat, Len(needle) >= 1, NEW i \in Nat, i >= 1
    PROVE  /\ Ends(text, i, needle, Len(needle))
                 => Places(text, needle, i) = Places(text, needle, i - 1) \cup {i - Len(needle)}
           /\ ~Ends(text, i, needle, Len(needle)) => Places(text, needle, i) = Places(text, needle, i - 1)
           /\ \A p \in Places(text, needle, i - 1) : p < i - Len(needle) /\ p \in Nat
  <1> DEFINE m == Len(needle)
  <1>1. Ends(text, i, needle, m) => m <= i
    BY DEF Ends
  <1>2. ASSUME NEW p \in Places(text, needle, i) PROVE p \in Places(text, needle, i - 1) \/ (p = i - m /\ Ends(text, i, needle, m))
    <2>1. p \in 0..(i - m) /\ Ends(text, p + m, needle, m)
      BY DEF Places
    <2>2. CASE p = i - m
      <3>1. p + m = i
        BY <2>2
      <3> QED
        BY <2>1, <2>2, <3>1
    <2>3. CASE p # i - m
      <3>1. p \in 0..((i - 1) - m)
        BY <2>1, <2>3
      <3> QED
        BY <2>1, <3>1 DEF Places
    <2> QED
      BY <2>2, <2>3
  <1>3. ASSUME NEW p \in Places(text, needle, i - 1) PROVE p \in Places(text, needle, i) /\ p < i - m /\ p \in Nat
    <2>1. p \in 0..((i - 1) - m) /\ Ends(text, p + m, needle, m)
      BY DEF Places
    <2>2. p \in 0..(i - m) /\ p < i - m
      BY <2>1
    <2> QED
      BY <2>1, <2>2 DEF Places
  <1>4. ASSUME Ends(text, i, needle, m) PROVE i - m \in Places(text, needle, i)
    <2>1. (i - m) + m = i /\ i - m \in 0..(i - m)
      BY <1>1, <1>4
    <2> QED
      BY <1>4, <2>1 DEF Places
  <1> HIDE DEF m
  <1>5. Ends(text, i, needle, m) => Places(text, needle, i) = Places(text, needle, i - 1) \cup {i - m}
    BY <1>2, <1>3, <1>4
  <1>6. ~Ends(text, i, needle, m) => Places(text, needle, i) = Places(text, needle, i - 1)
    BY <1>2, <1>3
  <1>7. \A p \in Places(text, needle, i - 1) : p < i - m /\ p \in Nat
    BY <1>3
  <1> QED
    BY <1>5, <1>6, <1>7 DEF m
-----------------------------------------------------------------------------
(* What a scan holds: how much is matched, and the places so far.           *)
ScanRows(needle) == [j : 0..(Len(needle) - 1), at : Seq(Int)]

(* What the scan knows after i tokens of text.                                 *)
ScanKnows(text, needle, i, a) ==
    /\ a \in ScanRows(needle)
    /\ FirstTwo(Places(text, needle, i), a.at)
    /\ Len(a.at) < 2 => Longest(text, i, needle, Len(needle) - 1, a.j)

(* Advance() within the needle stays within it.                             *)
LEMMA AdvanceTyped ==
    ASSUME NEW needle, Len(needle) \in Nat, NEW prefix, Borders(needle, prefix, Len(needle)),
           NEW j \in 0..(Len(needle) - 1), NEW token
    PROVE  Advance(needle, prefix, j, token) \in 0..Len(needle)
  <1> DEFINE f == CHOOSE f : FallOf(needle, prefix, j, token, f)
  <1>1. j \in 0..Len(needle) /\ j \in 0..j /\ Borders(needle, prefix, j)
    <2>1. \A k \in 1..j : k \in 1..Len(needle)
      OBVIOUS
    <2> QED
      BY <2>1 DEF Borders
  <1>2. FallOf(needle, prefix, j, token, f)
    BY <1>1, FallMeant
  <1>3. Advance(needle, prefix, j, token) = IF needle[f[j] + 1] = token THEN f[j] + 1 ELSE f[j]
    BY AdvanceIs
  <1> HIDE DEF f
  <1>4. f[j] \in 0..j
    BY <1>1, <1>2, FallMeant DEF Continues
  <1> QED
    BY <1>3, <1>4

(* A step of the scan is typed.                                             *)
LEMMA ScanTypedStep ==
    ASSUME NEW needle, Len(needle) \in Nat, Len(needle) >= 1,
           NEW prefix, Borders(needle, prefix, Len(needle)),
           NEW text, NEW a \in ScanRows(needle), NEW i \in Nat
    PROVE  ScanStep(text, needle, prefix, a, i) \in ScanRows(needle)
  <1> DEFINE j == Advance(needle, prefix, a.j, text[i])
  <1>1. a.j \in 0..(Len(needle) - 1) /\ a.at \in Seq(Int)
    BY DEF ScanRows
  <1>2. j \in 0..Len(needle)
    BY <1>1, AdvanceTyped
  <1>3. prefix[Len(needle)] \in 0..(Len(needle) - 1)
    <2>1. Len(needle) \in 1..Len(needle)
      OBVIOUS
    <2> QED
      BY <2>1 DEF Borders, Longest
  <1>4. ScanStep(text, needle, prefix, a, i) =
           IF Len(a.at) = 2 THEN a
           ELSE IF j = Len(needle) THEN [j |-> prefix[j], at |-> Append(a.at, i - j)] ELSE [j |-> j, at |-> a.at]
    BY DEF ScanStep
  <1> HIDE DEF j
  <1>5. i - j \in Int
    BY <1>2
  <1>6. Append(a.at, i - j) \in Seq(Int)
    BY <1>1, <1>5, AppendProperties
  <1>7. j # Len(needle) => j \in 0..(Len(needle) - 1)
    BY <1>2
  <1>8. [j |-> prefix[Len(needle)], at |-> Append(a.at, i - j)] \in ScanRows(needle)
    BY <1>3, <1>6 DEF ScanRows
  <1>9. j # Len(needle) => [j |-> j, at |-> a.at] \in ScanRows(needle)
    BY <1>1, <1>7 DEF ScanRows
  <1> QED
    BY <1>4, <1>8, <1>9

(* A place more.                                                               *)
LEMMA OnePlaceMore ==
    ASSUME NEW places, NEW at, FirstTwo(places, at), Len(at) < 2, NEW p \in Int, \A q \in places : q < p
    PROVE  FirstTwo(places \cup {p}, Append(at, p))
  <1>1. at \in Seq(Int) /\ Len(at) \in 0..1 /\ \A k \in 1..Len(at) : at[k] \in places
    BY DEF FirstTwo
  <1> DEFINE b == Append(at, p)
  <1>2. b \in Seq(Int) /\ Len(b) = Len(at) + 1 /\ b[Len(at) + 1] = p /\ \A k \in 1..Len(at) : b[k] = at[k]
    BY <1>1, AppendProperties
  <1> HIDE DEF b
  <1>3. \A k \in 1..Len(b) : b[k] \in places \cup {p}
    <2> SUFFICES ASSUME NEW k \in 1..Len(b) PROVE b[k] \in places \cup {p}
      OBVIOUS
    <2>1. k \in 1..Len(at) \/ k = Len(at) + 1
      BY <1>1, <1>2
    <2> QED
      BY <1>1, <1>2, <2>1
  <1>4. Len(b) = 2 => b[1] < b[2]
    <2> SUFFICES ASSUME Len(b) = 2 PROVE b[1] < b[2]
      OBVIOUS
    <2>1. Len(at) = 1
      BY <1>1, <1>2
    <2>2. 1 \in 1..Len(at)
      BY <2>1
    <2>3. b[1] = at[1] /\ b[2] = p /\ at[1] \in places
      BY <1>1, <1>2, <2>1, <2>2
    <2> QED
      BY <2>3
  <1>5. ASSUME NEW q \in places \cup {p} PROVE \E k \in 1..Len(b) : q = b[k]
    <2>1. CASE q = p
      <3>1. Len(at) + 1 \in 1..Len(b)
        BY <1>1, <1>2
      <3> QED
        BY <2>1, <1>2, <3>1
    <2>2. CASE q \in places
      <3>1. PICK k \in 1..Len(at) : q = at[k]
        BY <2>2 DEF FirstTwo
      <3>2. k \in 1..Len(b) /\ b[k] = q
        BY <1>1, <1>2, <3>1
      <3> QED
        BY <3>2
    <2> QED
      BY <2>1, <2>2
  <1>6. Len(b) \in 0..2
    BY <1>1, <1>2
  <1>7. FirstTwo(places \cup {p}, b)
    BY <1>2, <1>3, <1>4, <1>5, <1>6 DEF FirstTwo
  <1> QED
    BY <1>7 DEF b

(* One token of the text.                                                      *)
LEMMA ScanStepKnows ==
    ASSUME NEW needle, Len(needle) \in Nat, Len(needle) >= 1,
           NEW prefix, Borders(needle, prefix, Len(needle)),
           NEW text, NEW i \in Nat, i >= 1, NEW a, ScanKnows(text, needle, i - 1, a)
    PROVE  ScanKnows(text, needle, i, ScanStep(text, needle, prefix, a, i))
  <1> DEFINE m == Len(needle)
             b == ScanStep(text, needle, prefix, a, i)
             j == Advance(needle, prefix, a.j, text[i])
             old == Places(text, needle, i - 1)
             new == Places(text, needle, i)
  <1>1. a \in ScanRows(needle) /\ FirstTwo(old, a.at) /\ b \in ScanRows(needle)
    BY ScanTypedStep DEF ScanKnows
  <1>2. b = IF Len(a.at) = 2 THEN a
            ELSE IF j = m THEN [j |-> prefix[j], at |-> Append(a.at, i - j)] ELSE [j |-> j, at |-> a.at]
    BY DEF ScanStep
  <1>3. /\ Ends(text, i, needle, m) => new = old \cup {i - m}
        /\ ~Ends(text, i, needle, m) => new = old
        /\ \A p \in old : p < i - m /\ p \in Nat
    BY PlacesNext
  <1>4. m \in Nat /\ m >= 1 /\ i - m \in Int /\ m - 1 \in Nat /\ (m - 1) + 1 = m /\ i - 1 \in Nat
    OBVIOUS
  <1> HIDE DEF old, new, b
  <1>5. CASE Len(a.at) = 2
    <2>1. FirstTwo(new, a.at)
      <3>1. \A k \in 1..Len(a.at) : a.at[k] \in new
        BY <1>1, <1>3 DEF FirstTwo
      <3>2. a.at \in Seq(Int) /\ Len(a.at) \in 0..2 /\ a.at[1] < a.at[2] /\ 2 \in 1..Len(a.at)
        BY <1>1, <1>5 DEF FirstTwo
      <3>3. a.at[2] < i - m
        BY <1>1, <1>3, <3>2 DEF FirstTwo
      <3>4. \A p \in new : (\E k \in 1..Len(a.at) : p = a.at[k]) \/ (Len(a.at) = 2 /\ p > a.at[2])
        <4> SUFFICES ASSUME NEW p \in new
                     PROVE  (\E k \in 1..Len(a.at) : p = a.at[k]) \/ (Len(a.at) = 2 /\ p > a.at[2])
          OBVIOUS
        <4>1. p \in old \/ p = i - m
          BY <1>3
        <4>2. a.at[2] \in Int
          BY <3>2, ElementOfSeq
        <4>3. p = i - m => p > a.at[2]
          BY <1>4, <3>3, <4>2
        <4> QED
          BY <1>1, <1>5, <4>1, <4>3 DEF FirstTwo
      <3> QED
        BY <3>1, <3>2, <3>4 DEF FirstTwo
    <2> QED
      BY <1>1, <1>2, <1>5, <2>1 DEF ScanKnows, new, b
  <1>6. CASE Len(a.at) # 2
    <2>0. Len(a.at) \in 0..2
      BY <1>1 DEF FirstTwo
    <2>1. Len(a.at) < 2 /\ Longest(text, i - 1, needle, m - 1, a.j)
      <3>0. \A l \in 0..2 : l # 2 => l < 2
        OBVIOUS
      <3>1. Len(a.at) < 2
        BY <1>6, <2>0, <3>0
      <3> QED
        BY <3>1 DEF ScanKnows
    <2>2. Borders(needle, prefix, a.j)
      <3>1. \A k \in 1..a.j : k \in 1..m
        BY <2>1 DEF Longest
      <3> QED
        BY <3>1 DEF Borders
    <2>3. Longest(text, i, needle, m, j)
      <3>1. Longest(text, i, needle, (m - 1) + 1, j)
        <4> HIDE DEF m
        <4>1. m - 1 \in Nat /\ (m - 1) + 1 <= Len(needle)
          BY DEF m
        <4> QED
          BY <1>4, <2>1, <2>2, <4>1, AdvanceMeant
      <3> QED
        BY <1>4, <3>1
    <2> HIDE DEF j
    <2>4. CASE j = m
      <3>1. b = [j |-> prefix[m], at |-> Append(a.at, i - m)]
        BY <1>2, <1>6, <2>4
      <3>2. Ends(text, i, needle, m)
        BY <2>3, <2>4 DEF Longest
      <3>3. FirstTwo(new, Append(a.at, i - m))
        BY <1>1, <1>3, <1>4, <2>1, <3>2, OnePlaceMore
      <3>4. Longest(text, i, needle, m - 1, prefix[m])
        <4>1. Longest(needle, m, needle, m - 1, prefix[m])
          BY <1>4 DEF Borders
        <4>2. prefix[m] \in 0..(m - 1) /\ Ends(needle, m, needle, prefix[m])
          BY <4>1 DEF Longest
        <4>3. Ends(text, i, needle, prefix[m])
          BY <3>2, <4>2, EndsThrough
        <4>4. ASSUME NEW l \in 0..(m - 1), Ends(text, i, needle, l) PROVE l <= prefix[m]
          <5>1. l <= m
            BY <1>4
          <5>2. Ends(needle, m, needle, l)
            BY <3>2, <4>4, <5>1, EndsWithin
          <5> QED
            BY <4>1, <5>2 DEF Longest
        <4> QED
          BY <4>2, <4>3, <4>4 DEF Longest
      <3>5. b.at = Append(a.at, i - m) /\ b.j = prefix[m]
        BY <3>1
      <3> QED
        BY <1>1, <3>3, <3>4, <3>5 DEF ScanKnows, new, b
    <2>5. CASE j # m
      <3>1. b = [j |-> j, at |-> a.at]
        BY <1>2, <1>6, <2>5
      <3>2. j \in 0..(m - 1) /\ Ends(text, i, needle, j) /\ ~Ends(text, i, needle, m)
        <4>1. j \in 0..m /\ Ends(text, i, needle, j)
          BY <2>3 DEF Longest
        <4>2. m \in 0..m
          BY <1>4
        <4>3. Ends(text, i, needle, m) => m <= j
          BY <2>3, <4>2 DEF Longest
        <4> HIDE DEF m
        <4> QED
          BY <1>4, <2>5, <4>1, <4>3
      <3>3. Longest(text, i, needle, m - 1, j)
        <4>1. \A l \in 0..(m - 1) : l \in 0..m
          BY <1>4
        <4> QED
          BY <2>3, <3>2, <4>1 DEF Longest
      <3>4. FirstTwo(new, a.at)
        BY <1>1, <1>3, <3>2
      <3>5. b.at = a.at /\ b.j = j
        BY <3>1
      <3> QED
        BY <1>1, <3>3, <3>4, <3>5 DEF ScanKnows, new, b
    <2> QED
      BY <2>4, <2>5
  <1> QED
    BY <1>5, <1>6
-----------------------------------------------------------------------------
(* A table of rows, one after the other from the first.                        *)
LEMMA RowsExist ==
    ASSUME NEW n \in Nat, NEW A, NEW base \in A, NEW step \in StepFunctions(A, n)
    PROVE  \E r : Trace(r, A, n, step, base)
  <1>1. PICK g \in [SUBSET (1..n) -> A] : LeftFold(g, n, step, base)
    BY FoldOfIndices
  <1>2. FoldsWithin(g, A, n, step, base)
    BY <1>1 DEF LeftFold, FoldsWithin
  <1> QED
    BY <1>2, FoldTrace

(* There is a scan.                                                         *)
LEMMA ScanExists ==
    ASSUME NEW needle, Len(needle) \in Nat, Len(needle) >= 1,
           NEW prefix, Borders(needle, prefix, Len(needle)), NEW text, Len(text) \in Nat
    PROVE  \E scan : ScanOf(text, needle, prefix, scan)
  <1> DEFINE n == Len(text)
             A == ScanRows(needle)
             base == [j |-> 0, at |-> <<>>]
             step == [q \in A \X (1..n) |-> ScanStep(text, needle, prefix, q[1], q[2])]
  <1>1. base \in A
    <2>1. 0 \in 0..(Len(needle) - 1) /\ <<>> \in Seq(Int)
      BY EmptySeq
    <2> QED
      BY <2>1 DEF ScanRows
  <1>2. step \in StepFunctions(A, n) /\ \A a \in A, i \in 1..n : step[<<a, i>>] = ScanStep(text, needle, prefix, a, i)
    <2>1. \A q \in A \X (1..n) : ScanStep(text, needle, prefix, q[1], q[2]) \in A
      BY ScanTypedStep
    <2> QED
      BY <2>1 DEF StepFunctions
  <1>3. n \in Nat
    OBVIOUS
  <1> HIDE DEF A, base, step, n
  <1>4. PICK r : Trace(r, A, n, step, base)
    BY <1>1, <1>2, <1>3, RowsExist
  <1>5. r \in [0..n -> A] /\ r[0] = base /\ \A i \in 1..n : r[i] = ScanStep(text, needle, prefix, r[i - 1], i)
    <2>1. ASSUME NEW i \in 1..n PROVE r[i] = ScanStep(text, needle, prefix, r[i - 1], i)
      <3>1. i - 1 \in 0..n /\ r[i - 1] \in A
        BY <1>3, <1>4 DEF Trace
      <3> QED
        BY <1>2, <1>4, <3>1 DEF Trace
    <2> QED
      BY <1>4, <2>1 DEF Trace
  <1>6. r = [i \in 0..n |-> r[i]]
    BY <1>5
  <1>7. \A i \in 0..n : r[i] = IF i = 0 THEN base ELSE ScanStep(text, needle, prefix, r[i - 1], i)
    BY <1>3, <1>5
  <1>8. r = [i \in 0..n |-> IF i = 0 THEN base ELSE ScanStep(text, needle, prefix, r[i - 1], i)]
    BY <1>6, <1>7
  <1>9. ScanOf(text, needle, prefix, r)
    BY <1>8 DEF ScanOf, base, n
  <1> QED
    BY <1>9

(* _sequence_matches() finds the first two places where needle stands, or all  *)
(* of them.                                                                    *)
THEOREM SequenceMatchesMeant ==
    ASSUME NEW text, Len(text) \in Nat, NEW needle, Len(needle) \in Nat, Len(needle) >= 1
    PROVE  FirstTwo(Places(text, needle, Len(text)), SequenceMatches(text, needle))
  <1> DEFINE n == Len(text)
             prefix == PrefixTable(needle)
             scan == CHOOSE scan : ScanOf(text, needle, prefix, scan)
  <1>1. Borders(needle, prefix, Len(needle))
    BY PrefixTableMeant
  <1> HIDE DEF prefix
  <1>2. ScanOf(text, needle, prefix, scan)
    BY <1>1, ScanExists
  <1>3. SequenceMatches(text, needle) = scan[n].at
    BY SequenceMatchesIs DEF prefix
  <1> HIDE DEF scan
  <1> DEFINE P == {i \in 0..n : ScanKnows(text, needle, i, scan[i])}
  <1>4. 0 \in P
    <2>1. scan[0] = [j |-> 0, at |-> <<>>]
      BY <1>2 DEF ScanOf
    <2>2. <<>> \in Seq(Int) /\ Len(<<>>) = 0
      BY EmptySeq
    <2>3. Places(text, needle, 0) = {}
      BY DEF Places
    <2>4. FirstTwo(Places(text, needle, 0), <<>>)
      BY <2>2, <2>3 DEF FirstTwo
    <2>5. Longest(text, 0, needle, Len(needle) - 1, 0)
      BY DEF Longest, Ends
    <2>6. scan[0] \in ScanRows(needle)
      BY <2>1, <2>2 DEF ScanRows
    <2>7. scan[0].j = 0 /\ scan[0].at = <<>>
      BY <2>1
    <2> QED
      BY <2>4, <2>5, <2>6, <2>7 DEF ScanKnows
  <1>5. ASSUME NEW i \in 1..n, i - 1 \in P PROVE i \in P
    <2>1. scan[i] = ScanStep(text, needle, prefix, scan[i - 1], i)
      <3>1. i \in 0..n /\ i # 0
        OBVIOUS
      <3> QED
        BY <1>2, <3>1 DEF ScanOf
    <2>2. i \in Nat /\ i >= 1 /\ i \in 0..n /\ ScanKnows(text, needle, i - 1, scan[i - 1])
      BY <1>5
    <2>3. ScanKnows(text, needle, i, ScanStep(text, needle, prefix, scan[i - 1], i))
      BY <1>1, <2>2, ScanStepKnows
    <2> QED
      BY <2>1, <2>2, <2>3
  <1>6. n \in Nat /\ P \in SUBSET (0..n) /\ n \in 0..n
    OBVIOUS
  <1> HIDE DEF P
  <1>7. P = 0..n
    BY <1>4, <1>5, <1>6, Reaches
  <1>8. ScanKnows(text, needle, n, scan[n])
    BY <1>6, <1>7 DEF P
  <1> QED
    BY <1>3, <1>8 DEF ScanKnows
-----------------------------------------------------------------------------
(* A piece of a text.                                                          *)
LEMMA SegmentIs ==
    ASSUME NEW S, NEW text \in Seq(S), NEW from \in Nat, NEW to \in Nat, from <= to, to <= Len(text)
    PROVE  /\ Segment(text, from, to) \in Seq(S) /\ Len(Segment(text, from, to)) = to - from
           /\ \A q \in 1..(to - from) : Segment(text, from, to)[q] = text[from + q]
  <1>1. \A i \in (from + 1)..to : text[i] \in S
    <2> SUFFICES ASSUME NEW i \in (from + 1)..to PROVE text[i] \in S
      OBVIOUS
    <2>1. i \in 1..Len(text)
      BY LenProperties
    <2> QED
      BY <2>1, ElementOfSeq
  <1>2. /\ SubSeq(text, from + 1, to) \in Seq(S)
        /\ Len(SubSeq(text, from + 1, to)) = IF from + 1 <= to THEN to - (from + 1) + 1 ELSE 0
        /\ \A i \in 1..(to - (from + 1) + 1) : SubSeq(text, from + 1, to)[i] = text[(from + 1) + i - 1]
    BY <1>1, SubSeqProperties
  <1>3. Len(SubSeq(text, from + 1, to)) = to - from
    BY <1>2
  <1>4. ASSUME NEW q \in 1..(to - from) PROVE SubSeq(text, from + 1, to)[q] = text[from + q]
    <2>1. q \in 1..(to - (from + 1) + 1) /\ (from + 1) + q - 1 = from + q
      OBVIOUS
    <2> QED
      BY <1>2, <2>1
  <1> QED
    BY <1>2, <1>3, <1>4 DEF Segment

(* Pieces that follow one another.                                             *)
LEMMA SegmentsJoin ==
    ASSUME NEW S, NEW text \in Seq(S), NEW a \in Nat, NEW b \in Nat, NEW c \in Nat,
           a <= b, b <= c, c <= Len(text)
    PROVE  Segment(text, a, b) \o Segment(text, b, c) = Segment(text, a, c)
  <1>1. Len(text) \in Nat
    BY LenProperties
  <1>2. a + 1 \in 1..(Len(text) + 1) /\ b \in ((a + 1) - 1)..Len(text) /\ c \in b..Len(text)
    BY <1>1
  <1> QED
    BY <1>2, ConcatAdjacentSubSeq DEF Segment

(* All of a text.                                                           *)
LEMMA SegmentWhole ==
    ASSUME NEW S, NEW text \in Seq(S)
    PROVE  Segment(text, 0, Len(text)) = text
  BY SubSeqFull DEF Segment

(* A piece of two texts that stand one after the other.                        *)
LEMMA SegmentOfTwo ==
    ASSUME NEW S, NEW x \in Seq(S), NEW y \in Seq(S), NEW a \in Nat
    PROVE  /\ a <= Len(x) => Segment(x \o y, 0, a) = Segment(x, 0, a)
           /\ a = Len(x) => Segment(x \o y, a, Len(x \o y)) = y
  <1> DEFINE z == x \o y
  <1>1. /\ z \in Seq(S) /\ Len(z) = Len(x) + Len(y) /\ Len(x) \in Nat /\ Len(y) \in Nat
        /\ \A i \in 1..(Len(x) + Len(y)) : z[i] = IF i <= Len(x) THEN x[i] ELSE y[i - Len(x)]
    BY ConcatProperties, LenProperties
  <1> HIDE DEF z
  <1>2. ASSUME a <= Len(x) PROVE Segment(z, 0, a) = Segment(x, 0, a)
    <2>0. z \in Seq(S) /\ 0 \in Nat /\ a \in Nat /\ 0 <= a /\ a <= Len(z)
      BY <1>1, <1>2
    <2>1. /\ Segment(z, 0, a) \in Seq(S) /\ Len(Segment(z, 0, a)) = a - 0
          /\ \A q \in 1..(a - 0) : Segment(z, 0, a)[q] = z[0 + q]
      BY <2>0, SegmentIs, Zenon
    <2>2. /\ Segment(x, 0, a) \in Seq(S) /\ Len(Segment(x, 0, a)) = a - 0
          /\ \A q \in 1..(a - 0) : Segment(x, 0, a)[q] = x[0 + q]
      <3>1. x \in Seq(S) /\ 0 \in Nat /\ a \in Nat /\ 0 <= a /\ a <= Len(x)
        BY <1>2
      <3> QED
        BY <3>1, SegmentIs, Zenon
    <2>3. ASSUME NEW q \in 1..a PROVE Segment(z, 0, a)[q] = Segment(x, 0, a)[q]
      <3>1. q \in 1..(a - 0) /\ 0 + q = q /\ q \in 1..(Len(x) + Len(y)) /\ q <= Len(x)
        BY <1>1, <1>2
      <3> QED
        BY <1>1, <2>1, <2>2, <3>1
    <2>4. a - 0 = a
      OBVIOUS
    <2> QED
      BY <2>1, <2>2, <2>3, <2>4, SeqEqual
  <1>3. ASSUME a = Len(x) PROVE Segment(z, a, Len(z)) = y
    <2>1. /\ Segment(z, a, Len(z)) \in Seq(S) /\ Len(Segment(z, a, Len(z))) = Len(z) - a
          /\ \A q \in 1..(Len(z) - a) : Segment(z, a, Len(z))[q] = z[a + q]
      <3>1. z \in Seq(S) /\ a \in Nat /\ Len(z) \in Nat /\ a <= Len(z) /\ Len(z) <= Len(z)
        BY <1>1, <1>3
      <3> QED
        BY <3>1, SegmentIs
    <2>2. Len(z) - a = Len(y)
      BY <1>1, <1>3
    <2>3. ASSUME NEW q \in 1..Len(y) PROVE Segment(z, a, Len(z))[q] = y[q]
      <3>1. a + q \in 1..(Len(x) + Len(y)) /\ ~(a + q <= Len(x)) /\ (a + q) - Len(x) = q
        BY <1>1, <1>3
      <3> QED
        BY <1>1, <2>1, <2>2, <3>1
    <2> QED
      BY <2>1, <2>2, <2>3, SeqEqual
  <1> QED
    BY <1>2, <1>3 DEF z

(* Where a needle stands.                                                      *)
LEMMA HasAtMeant ==
    ASSUME NEW S, NEW text \in Seq(S), NEW needle \in Seq(S), NEW at \in Int
    PROVE  /\ HasAt(text, needle, at) =>
                 /\ at \in Nat /\ at + Len(needle) <= Len(text)
                 /\ \A q \in 1..Len(needle) : text[at + q] = needle[q]
           /\ /\ at \in Nat /\ at + Len(needle) <= Len(text)
              /\ \A q \in 1..Len(needle) : text[at + q] = needle[q]
              => HasAt(text, needle, at)
           /\ HasAt(text, needle, at) => at \in Places(text, needle, Len(text))
           /\ at \in Places(text, needle, Len(text)) => HasAt(text, needle, at)
           /\ Places(text, needle, Len(text)) \in SUBSET (0..Len(text))
  <1> DEFINE m == Len(needle)
             n == Len(text)
             cut == Segment(text, at, at + m)
             Same == \A q \in 1..m : text[at + q] = needle[q]
  <1>1. m \in Nat /\ n \in Nat
    BY LenProperties
  <1>2. ASSUME at \in Nat, at + m <= n
        PROVE  cut \in Seq(S) /\ Len(cut) = m /\ \A q \in 1..m : cut[q] = text[at + q]
    <2>1. PICK to \in Nat : to = at + m
      BY <1>1, <1>2
    <2>2. at \in Nat /\ at <= to /\ to <= Len(text) /\ to - at = m /\ cut = Segment(text, at, to)
      BY <1>1, <1>2, <2>1
    <2> HIDE DEF cut, m, n
    <2>3. /\ Segment(text, at, to) \in Seq(S) /\ Len(Segment(text, at, to)) = to - at
          /\ \A q \in 1..(to - at) : Segment(text, at, to)[q] = text[at + q]
      BY <2>2, SegmentIs, Zenon
    <2> QED
      BY <2>2, <2>3
  <1> HIDE DEF cut, m, n
  <1>3. HasAt(text, needle, at) <=> at >= 0 /\ at + m <= n /\ cut = needle
    BY DEF HasAt, cut, m, n
  <1>4. ASSUME HasAt(text, needle, at) PROVE at \in Nat /\ at + m <= n /\ Same
    <2>1. at \in Nat /\ at + m <= n
      BY <1>3, <1>4
    <2> QED
      BY <1>2, <1>3, <1>4, <2>1
  <1>5. ASSUME at \in Nat, at + m <= n, Same PROVE HasAt(text, needle, at)
    <2>1. cut = needle
      BY <1>2, <1>5, SeqEqual DEF m
    <2> QED
      BY <1>3, <1>5, <2>1
  <1>6. at \in Places(text, needle, n) <=> at \in 0..(n - m) /\ Ends(text, at + m, needle, m)
    BY DEF Places, m
  <1>7. Ends(text, at + m, needle, m) <=> m <= at + m /\ \A q \in 1..m : text[at + m - m + q] = needle[q]
    BY <1>1 DEF Ends, m
  <1>8. \A q \in 1..m : at + m - m + q = at + q
    BY <1>1
  <1>9. at \in Nat /\ at + m <= n <=> at \in 0..(n - m)
    BY <1>1
  <1>10. at \in Nat => m <= at + m
    BY <1>1
  <1>11. HasAt(text, needle, at) => at \in Places(text, needle, n)
    BY <1>4, <1>6, <1>7, <1>8, <1>9, <1>10
  <1>12. at \in Places(text, needle, n) => HasAt(text, needle, at)
    BY <1>5, <1>6, <1>7, <1>8, <1>9
  <1>13. Places(text, needle, n) \in SUBSET (0..n)
    BY <1>1 DEF Places, m
  <1> QED
    BY <1>4, <1>5, <1>11, <1>12, <1>13 DEF m, n

(* The place of a passage that stands at one place alone.                      *)
AloneAt(text, old, at) ==
    /\ at \in 0..Len(text) /\ HasAt(text, old, at)
    /\ \A other \in 0..Len(text) : HasAt(text, old, other) => other = at

(* Standing alone in the terms of the property.                             *)
LEMMA AloneOnce ==
    ASSUME NEW text, NEW old, NEW at, AloneAt(text, old, at), old # <<>>
    PROVE  StandsOnce(text, old) /\ OnlyPlace(text, old) = at
  <1>1. StandsOnce(text, old)
    BY DEF AloneAt, StandsOnce
  <1>2. OnlyPlace(text, old) = at
    BY DEF AloneAt, OnlyPlace
  <1> QED
    BY <1>1, <1>2

(* A hunk that is searched for goes where its passage stands alone.            *)
LEMMA PlaceAlone ==
    ASSUME NEW S, NEW text \in Seq(S), NEW hunk, hunk.old \in Seq(S), NEW delta,
           Place(text, hunk, TRUE, delta) # -1
    PROVE  /\ hunk.old # <<>>
           /\ AloneAt(text, hunk.old, Place(text, hunk, TRUE, delta))
  <1> DEFINE old == hunk.old
             found == SequenceMatches(text, old)
             at == Place(text, hunk, TRUE, delta)
             places == Places(text, old, Len(text))
  <1>1. old # <<>> /\ Len(found) = 1 /\ at = found[1]
    BY DEF Place
  <1>2. Len(text) \in Nat /\ Len(old) \in Nat /\ Len(old) >= 1
    BY <1>1, LenProperties, EmptySeq
  <1>3. FirstTwo(places, found)
    BY <1>2, SequenceMatchesMeant
  <1> HIDE DEF found, at, places
  <1>4. 1 \in 1..Len(found) /\ \A k \in 1..Len(found) : k = 1
    BY <1>1
  <1>5. at \in places /\ \A p \in places : p = at
    <2>1. \A p \in places : p = at
      BY <1>1, <1>3, <1>4 DEF FirstTwo
    <2> QED
      BY <1>1, <1>3, <1>4, <2>1 DEF FirstTwo
  <1>6. places \in SUBSET (0..Len(text)) /\ \A p \in Int : HasAt(text, old, p) <=> p \in places
    <2>1. \A p \in Int : (HasAt(text, old, p) => p \in places) /\ (p \in places => HasAt(text, old, p))
      BY HasAtMeant DEF places
    <2>2. places \in SUBSET (0..Len(text))
      BY HasAtMeant DEF places
    <2> QED
      BY <2>1, <2>2
  <1>7. at \in 0..Len(text) /\ HasAt(text, old, at)
    BY <1>5, <1>6
  <1>8. \A p \in 0..Len(text) : HasAt(text, old, p) => p = at
    BY <1>5, <1>6
  <1> QED
    BY <1>1, <1>7, <1>8 DEF AloneAt, at
-----------------------------------------------------------------------------
(* Two passages, one after the other.                                          *)
LEMMA HasBoth ==
    ASSUME NEW S, NEW text \in Seq(S), NEW x \in Seq(S), NEW y \in Seq(S), NEW p \in Int
    PROVE  /\ HasAt(text, x \o y, p) => HasAt(text, x, p) /\ HasAt(text, y, p + Len(x))
           /\ HasAt(text, x, p) /\ HasAt(text, y, p + Len(x)) => HasAt(text, x \o y, p)
  <1> DEFINE z == x \o y
             lx == Len(x)
             ly == Len(y)
             n == Len(text)
  <1>1. /\ z \in Seq(S) /\ Len(z) = lx + ly /\ lx \in Nat /\ ly \in Nat /\ n \in Nat /\ p + lx \in Int
        /\ \A i \in 1..(lx + ly) : z[i] = IF i <= lx THEN x[i] ELSE y[i - lx]
    BY ConcatProperties, LenProperties
  <1> HIDE DEF z
  <1>2. ASSUME HasAt(text, z, p) PROVE HasAt(text, x, p) /\ HasAt(text, y, p + lx)
    <2>1. p \in Nat /\ p + Len(z) <= n /\ \A q \in 1..Len(z) : text[p + q] = z[q]
      BY <1>1, <1>2, HasAtMeant
    <2>2. ASSUME NEW q \in 1..lx PROVE text[p + q] = x[q]
      <3>1. q \in 1..(lx + ly) /\ q <= lx
        BY <1>1
      <3> QED
        BY <1>1, <2>1, <3>1
    <2>3. ASSUME NEW q \in 1..ly PROVE text[(p + lx) + q] = y[q]
      <3>1. lx + q \in 1..(lx + ly) /\ ~(lx + q <= lx) /\ (lx + q) - lx = q /\ p + (lx + q) = (p + lx) + q
        BY <1>1, <2>1
      <3> QED
        BY <1>1, <2>1, <3>1
    <2>4. p \in Nat /\ p + lx <= n /\ p + lx \in Nat /\ (p + lx) + ly <= n
      BY <1>1, <2>1
    <2>5. HasAt(text, x, p)
      BY <2>2, <2>4, HasAtMeant
    <2>6. HasAt(text, y, p + lx)
      BY <2>3, <2>4, HasAtMeant
    <2> QED
      BY <2>5, <2>6
  <1>3. ASSUME HasAt(text, x, p), HasAt(text, y, p + lx) PROVE HasAt(text, z, p)
    <2>1. p \in Nat /\ \A q \in 1..lx : text[p + q] = x[q]
      BY <1>3, HasAtMeant
    <2>2. (p + lx) + ly <= n /\ \A q \in 1..ly : text[(p + lx) + q] = y[q]
      BY <1>1, <1>3, HasAtMeant
    <2>3. ASSUME NEW q \in 1..(lx + ly) PROVE text[p + q] = z[q]
      <3>1. CASE q <= lx
        <4>1. q \in 1..lx
          BY <1>1, <3>1
        <4> QED
          BY <1>1, <2>1, <3>1, <4>1
      <3>2. CASE ~(q <= lx)
        <4>1. q - lx \in 1..ly /\ (p + lx) + (q - lx) = p + q
          BY <1>1, <2>1, <3>2
        <4>2. text[(p + lx) + (q - lx)] = y[q - lx]
          BY <2>2, <4>1
        <4> QED
          BY <1>1, <3>2, <4>1, <4>2
      <3> QED
        BY <3>1, <3>2
    <2>4. p + Len(z) <= n
      BY <1>1, <2>1, <2>2
    <2>5. \A q \in 1..Len(z) : text[p + q] = z[q]
      BY <1>1, <2>3
    <2> QED
      BY <1>1, <2>1, <2>4, <2>5, HasAtMeant
  <1> QED
    BY <1>2, <1>3 DEF z

(* Concatenation by its laws alone.                                            *)
Cat(s, t) == s \o t

(* Concatenation is associative and typed.                                  *)
LEMMA CatLaws ==
    ASSUME NEW S
    PROVE  /\ \A s, t \in Seq(S) : Cat(s, t) \in Seq(S)
           /\ \A s, t, u \in Seq(S) : Cat(Cat(s, t), u) = Cat(s, Cat(t, u))
  <1>1. \A s, t \in Seq(S) : Cat(s, t) \in Seq(S)
    BY ConcatProperties DEF Cat
  <1>2. ASSUME NEW s \in Seq(S), NEW t \in Seq(S), NEW u \in Seq(S) PROVE Cat(Cat(s, t), u) = Cat(s, Cat(t, u))
    BY ConcatAssociative DEF Cat
  <1> QED
    BY <1>1, <1>2

(* Concatenation of five.                                                      *)
LEMMA FiveInOrder ==
    ASSUME NEW S, NEW u \in Seq(S), NEW b \in Seq(S), NEW r \in Seq(S), NEW a \in Seq(S), NEW v \in Seq(S)
    PROVE  /\ ((u \o b) \o r) \o (a \o v) = (u \o ((b \o r) \o a)) \o v
           /\ ((u \o b) \o r) \o (a \o v) \in Seq(S)
  <1>0. \A x, y \in Seq(S) : Cat(x, y) \in Seq(S)
    BY CatLaws
  <1>1. \A x, y, w \in Seq(S) : Cat(Cat(x, y), w) = Cat(x, Cat(y, w))
    BY CatLaws
  <1>2. Cat(b, r) \in Seq(S) /\ Cat(u, Cat(b, r)) \in Seq(S) /\ Cat(a, v) \in Seq(S)
    BY <1>0
  <1>3. Cat(Cat(u, b), r) = Cat(u, Cat(b, r)) /\ Cat(Cat(u, Cat(b, r)), a) = Cat(u, Cat(Cat(b, r), a))
    BY <1>1, <1>2
  <1>4. Cat(Cat(Cat(u, Cat(b, r)), a), v) = Cat(Cat(u, Cat(b, r)), Cat(a, v))
    BY <1>1, <1>2
  <1>5. /\ Cat(Cat(Cat(u, b), r), Cat(a, v)) = Cat(Cat(u, Cat(Cat(b, r), a)), v)
        /\ Cat(Cat(Cat(u, b), r), Cat(a, v)) \in Seq(S)
    BY <1>0, <1>1, <1>2, <1>3, <1>4
  <1> QED
    BY <1>5, Zenon DEF Cat

(* To replace a passage between its contexts is to replace the whole of it.    *)
LEMMA SpliceBetween ==
    ASSUME NEW S, NEW text \in Seq(S), NEW b \in Seq(S), NEW x \in Seq(S), NEW a \in Seq(S), NEW r \in Seq(S),
           NEW p \in Nat, HasAt(text, b, p), HasAt(text, x, p + Len(b)), HasAt(text, a, p + Len(b) + Len(x))
    PROVE  /\ Splice(text, p + Len(b), x, r) = Splice(text, p, b \o x \o a, b \o r \o a)
           /\ Splice(text, p + Len(b), x, r) \in Seq(S)
  <1> DEFINE n == Len(text)
             lb == Len(b)
             lx == Len(x)
             la == Len(a)
             P == b \o x \o a
             u == Segment(text, 0, p)
             v == Segment(text, ((p + lb) + lx) + la, n)
  <1>1. n \in Nat /\ lb \in Nat /\ lx \in Nat /\ la \in Nat
    BY LenProperties
  <1> DEFINE h == p + lb
             k == h + lx
             l == k + la
  <1>2. p + Len(P) = l /\ p \in Int /\ h \in Int /\ k \in Int
    <2>1. b \o x \in Seq(S) /\ Len(b \o x) = lb + lx
      BY ConcatProperties
    <2>2. Len(P) = (lb + lx) + la
      BY <2>1, ConcatProperties
    <2> QED
      BY <1>1, <2>2
  <1>3. l <= n
    BY <1>2, HasAtMeant
  <1>4. b = Segment(text, p, h) /\ a = Segment(text, k, l)
    BY DEF HasAt
  <1>5. /\ 0 \in Nat /\ 0 <= p /\ p <= h /\ h \in Nat /\ h <= n /\ p <= n
        /\ k \in Nat /\ l \in Nat /\ k <= l /\ n <= n /\ n \in Nat
    BY <1>1, <1>3
  <1> HIDE DEF h, k, l
  <1>6. Segment(text, 0, h) = u \o b
    <2>1. Segment(text, 0, p) \o Segment(text, p, h) = Segment(text, 0, h)
      BY <1>5, SegmentsJoin
    <2> QED
      BY <1>4, <2>1
  <1>7. Segment(text, k, n) = a \o v
    <2>1. Segment(text, k, l) \o Segment(text, l, n) = Segment(text, k, n)
      BY <1>3, <1>5, SegmentsJoin
    <2> QED
      BY <1>4, <2>1 DEF k, l, h
  <1>8. u \in Seq(S) /\ v \in Seq(S)
    <2>1. Segment(text, 0, p) \in Seq(S) /\ Segment(text, l, n) \in Seq(S)
      BY <1>3, <1>5, SegmentIs
    <2> QED
      BY <2>1 DEF k, l, h
  <1>9. Splice(text, h, x, r) = ((u \o b) \o r) \o (a \o v)
    <2>1. Splice(text, h, x, r) = Segment(text, 0, h) \o r \o Segment(text, k, n)
      BY DEF Splice, k
    <2> QED
      BY <1>6, <1>7, <2>1
  <1>10. Splice(text, p, P, b \o r \o a) = (u \o ((b \o r) \o a)) \o v
    <2>1. Splice(text, p, P, b \o r \o a) = (Segment(text, 0, p) \o ((b \o r) \o a)) \o Segment(text, p + Len(P), n)
      BY DEF Splice
    <2> QED
      BY <1>2, <2>1
  <1> HIDE DEF u, v
  <1>11. /\ ((u \o b) \o r) \o (a \o v) = (u \o ((b \o r) \o a)) \o v
         /\ ((u \o b) \o r) \o (a \o v) \in Seq(S)
    BY <1>8, FiveInOrder
  <1> QED
    BY <1>9, <1>10, <1>11 DEF h

(* apply_text_patch() replaces a passage that stands at one place alone.       *)
LEMMA ExactMeant ==
    ASSUME NEW S, NEW text \in Seq(S), NEW edit,
           edit.before \in Seq(S), edit.exact \in Seq(S), edit.after \in Seq(S), edit.replacement \in Seq(S),
           edit.exact # <<>>, ExactPatch(text, edit).ok
    PROVE  LET old == edit.before \o edit.exact \o edit.after
               new == edit.before \o edit.replacement \o edit.after
           IN  /\ old \in Seq(S) /\ new \in Seq(S) /\ old # <<>> /\ ExactPatch(text, edit).text \in Seq(S)
               /\ \E p \in Nat : /\ AloneAt(text, old, p) /\ p + Len(old) <= Len(text)
                                 /\ ExactPatch(text, edit).text = Splice(text, p, old, new)
  <1> DEFINE n == Len(text)
             b == edit.before
             x == edit.exact
             a == edit.after
             r == edit.replacement
             lb == Len(b)
             lx == Len(x)
             old == b \o x \o a
             new == b \o r \o a
             Matches == {at \in 0..n : HasAt(text, x, at) /\ HasAt(text, b, at - lb) /\ HasAt(text, a, at + lx)}
  <1>1. n \in Nat /\ lb \in Nat /\ lx \in Nat /\ lx >= 1 /\ Len(a) \in Nat
    BY LenProperties, EmptySeq
  <1>2. ExactPatch(text, edit) = IF \E at \in Matches : Matches = {at}
                                 THEN Patched(Splice(text, CHOOSE at \in Matches : TRUE, x, r)) ELSE Failed
    BY DEF ExactPatch
  <1> HIDE DEF Matches, n, lb, lx, b, x, a, r
  <1>3. PICK at \in Matches : Matches = {at}
    BY <1>2 DEF Failed
  <1>4. ExactPatch(text, edit).text = Splice(text, at, x, r)
    <2>1. (CHOOSE t \in Matches : TRUE) = at
      BY <1>3
    <2> QED
      BY <1>2, <1>3, <2>1 DEF Patched
  <1>5. b \in Seq(S) /\ x \in Seq(S) /\ a \in Seq(S) /\ r \in Seq(S)
    BY DEF b, x, a, r
  <1>6. /\ old \in Seq(S) /\ new \in Seq(S) /\ b \o x \in Seq(S) /\ Len(b \o x) = lb + lx
        /\ Len(old) = lb + lx + Len(a)
    <2>1. b \o x \in Seq(S) /\ Len(b \o x) = lb + lx /\ b \o r \in Seq(S)
      BY <1>5, ConcatProperties DEF lb, lx
    <2> QED
      BY <1>5, <2>1, ConcatProperties
  <1>7. ASSUME NEW p \in Int PROVE HasAt(text, old, p) <=> p + lb \in Matches
    <2>1. p + lb \in Int /\ p + (lb + lx) = (p + lb) + lx /\ (p + lb) - lb = p
      BY <1>1
    <2>2. HasAt(text, old, p) <=> HasAt(text, b \o x, p) /\ HasAt(text, a, (p + lb) + lx)
      <3>1. HasAt(text, old, p) <=> HasAt(text, b \o x, p) /\ HasAt(text, a, p + Len(b \o x))
        BY <1>5, <1>6, HasBoth
      <3> QED
        BY <1>6, <2>1, <3>1
    <2>3. HasAt(text, b \o x, p) <=> HasAt(text, b, p) /\ HasAt(text, x, p + lb)
      BY <1>5, HasBoth DEF lb
    <2>4. HasAt(text, x, p + lb) => p + lb \in 0..n
      <3>1. HasAt(text, x, p + lb) => p + lb \in Nat /\ (p + lb) + Len(x) <= Len(text)
        BY <1>5, <2>1, HasAtMeant
      <3> QED
        BY <1>1, <3>1 DEF n, lx
    <2> QED
      BY <2>1, <2>2, <2>3, <2>4 DEF Matches
  <1> DEFINE p == at - lb
  <1>8. p \in Nat /\ p \in Int /\ p + lb = at /\ HasAt(text, old, p) /\ p + Len(old) <= n
    <2>1. at \in 0..n /\ HasAt(text, b, at - lb)
      BY <1>3 DEF Matches
    <2>2. p \in Int /\ p + lb = at
      BY <1>1, <2>1
    <2> HIDE DEF p
    <2>3. HasAt(text, old, p)
      BY <1>3, <1>7, <2>2
    <2> QED
      BY <1>6, <2>2, <2>3, HasAtMeant DEF n
  <1> HIDE DEF p
  <1>9. AloneAt(text, old, p)
    <2>1. ASSUME NEW q \in 0..Len(text), HasAt(text, old, q) PROVE q = p
      <3>1. q \in Int /\ q + lb \in Matches
        BY <1>7, <2>1
      <3> QED
        BY <1>1, <1>3, <1>8, <3>1
    <2>2. p \in 0..Len(text)
      BY <1>1, <1>6, <1>8 DEF n
    <2> QED
      BY <1>8, <2>1, <2>2 DEF AloneAt
  <1>10. /\ Splice(text, p + lb, x, r) = Splice(text, p, old, new)
         /\ Splice(text, p + lb, x, r) \in Seq(S)
    <2>1. HasAt(text, b, p) /\ HasAt(text, x, p + Len(b)) /\ HasAt(text, a, p + Len(b) + Len(x))
      <3>1. HasAt(text, x, at) /\ HasAt(text, b, at - lb) /\ HasAt(text, a, at + lx)
        BY <1>3 DEF Matches
      <3> QED
        BY <1>8, <3>1 DEF p, lb, lx
    <2> QED
      BY <1>5, <1>8, <2>1, SpliceBetween DEF lb
  <1>11. old # <<>>
    <2>1. Len(old) # 0
      BY <1>1, <1>6
    <2> QED
      BY <2>1, EmptySeq
  <1>12. /\ old \in Seq(S) /\ new \in Seq(S) /\ old # <<>> /\ ExactPatch(text, edit).text \in Seq(S)
         /\ \E q \in Nat : /\ AloneAt(text, old, q) /\ q + Len(old) <= Len(text)
                           /\ ExactPatch(text, edit).text = Splice(text, q, old, new)
    BY <1>4, <1>6, <1>8, <1>9, <1>10, <1>11 DEF n
  <1> QED
    BY <1>12 DEF b, x, a, r
-----------------------------------------------------------------------------
(* What has been made of the text once some hunks were placed.                 *)
Dones(S) == [ok : BOOLEAN, last : Nat, delta : Int, text : Seq(S)]

(* The fold of _unified(): where it starts and what a hunk makes of it.     *)
Start == [ok |-> TRUE, last |-> 0, delta |-> 0, text |-> <<>>]

HunkStep(text, rebase, done, hunk) ==
    LET at == Place(text, hunk, rebase, done.delta) IN
    IF done.ok /\ done.last <= at /\ at <= Len(text) /\ HasAt(text, hunk.old, at)
    THEN [ok |-> TRUE, last |-> at + Len(hunk.old),
          delta |-> done.delta + Len(hunk.new) - Len(hunk.old),
          text |-> done.text \o Segment(text, done.last, at) \o hunk.new]
    ELSE [done EXCEPT !.ok = FALSE]

(* The fold of the hunks.                                                   *)
HunksFold(g, text, hunks, rebase) ==
    g = [T \in SUBSET DOMAIN hunks |->
            IF T = {} THEN Start ELSE HunkStep(text, rebase, g[T \ {Greatest(T)}], hunks[Greatest(T)])]

(* Unified() as the library defines it.                                     *)
LEMMA UnifiedIsFold ==
    ASSUME NEW text, NEW hunks, NEW rebase
    PROVE  LET end == (CHOOSE g : HunksFold(g, text, hunks, rebase))[DOMAIN hunks]
           IN  Unified(text, hunks, rebase) =
                  IF end.ok THEN Patched(end.text \o Segment(text, end.last, Len(text))) ELSE Failed
  BY DEF Unified, FoldLeft, MapThenFoldSet, Max, Greatest, HunksFold, HunkStep, Start

(* The hunks of a diff.                                                        *)
HunkOf(hunk, S) == hunk.old \in Seq(S) /\ hunk.new \in Seq(S) /\ hunk.at \in Nat

(* A hunk that is placed behind what was done.                                 *)
Fitted(text, hunk, done, next, at) ==
    /\ done.ok /\ at \in Nat /\ done.last <= at /\ HasAt(text, hunk.old, at)
    /\ next.last = at + Len(hunk.old) /\ next.last <= Len(text)
    /\ next.text = done.text \o Segment(text, done.last, at) \o hunk.new

(* A hunk that is placed.                                                      *)
LEMMA HunkPlaced ==
    ASSUME NEW S, NEW text \in Seq(S), NEW hunk, HunkOf(hunk, S), NEW rebase \in BOOLEAN,
           NEW done \in Dones(S)
    PROVE  /\ Place(text, hunk, rebase, done.delta) \in Int /\ HunkStep(text, rebase, done, hunk) \in Dones(S)
           /\ HunkStep(text, rebase, done, hunk).ok =>
                 Fitted(text, hunk, done, HunkStep(text, rebase, done, hunk), Place(text, hunk, rebase, done.delta))
           /\ HunkStep(text, rebase, done, hunk).ok /\ rebase =>
                 hunk.old # <<>> /\ AloneAt(text, hunk.old, Place(text, hunk, rebase, done.delta))
  <1> DEFINE at == Place(text, hunk, rebase, done.delta)
             next == HunkStep(text, rebase, done, hunk)
             HunkFits == done.ok /\ done.last <= at /\ at <= Len(text) /\ HasAt(text, hunk.old, at)
             piece == Segment(text, done.last, at)
             made == done.text \o piece \o hunk.new
             placed == [ok |-> TRUE, last |-> at + Len(hunk.old),
                        delta |-> done.delta + Len(hunk.new) - Len(hunk.old), text |-> made]
  <1>1. hunk.old \in Seq(S) /\ hunk.new \in Seq(S) /\ hunk.at \in Nat
    BY DEF HunkOf
  <1>2. done.ok \in BOOLEAN /\ done.last \in Nat /\ done.delta \in Int /\ done.text \in Seq(S)
    BY DEF Dones
  <1>3. Len(text) \in Nat /\ Len(hunk.old) \in Nat /\ Len(hunk.new) \in Nat
    BY <1>1, LenProperties
  <1>4. rebase /\ at # -1 => hunk.old # <<>> /\ AloneAt(text, hunk.old, at)
    BY <1>1, PlaceAlone
  <1>5. at \in Int
    <2>1. CASE rebase
      <3>1. at # -1 => at \in 0..Len(text)
        BY <1>4, <2>1 DEF AloneAt
      <3> QED
        BY <1>3, <3>1
    <2>2. CASE ~rebase
      <3>1. at = hunk.at \/ at = -1
        BY <2>2 DEF Place
      <3> QED
        BY <1>1, <3>1
    <2> QED
      BY <2>1, <2>2
  <1>6. next = IF HunkFits THEN placed ELSE [done EXCEPT !.ok = FALSE]
    BY DEF HunkStep
  <1> HIDE DEF at, next, piece, made
  <1>7. CASE HunkFits
    <2>1. at \in Nat /\ at + Len(hunk.old) <= Len(text) /\ at <= Len(text)
      BY <1>1, <1>5, <1>7, HasAtMeant
    <2>2. piece \in Seq(S)
      BY <1>2, <1>7, <2>1, SegmentIs DEF piece
    <2>3. made \in Seq(S)
      <3> DEFINE first == done.text \o piece
      <3>1. first \in Seq(S)
        BY <1>2, <2>2, ConcatProperties
      <3>2. made = first \o hunk.new
        BY DEF made
      <3> HIDE DEF first
      <3>3. first \o hunk.new \in Seq(S)
        BY <1>1, <3>1, ConcatProperties
      <3> QED
        BY <3>2, <3>3
    <2>4. at + Len(hunk.old) \in Nat /\ done.delta + Len(hunk.new) - Len(hunk.old) \in Int
      <3>1. \A x, y, z \in Int : x + y - z \in Int
        OBVIOUS
      <3>2. \A x, y \in Nat : x + y \in Nat
        OBVIOUS
      <3>3. done.delta \in Int /\ Len(hunk.new) \in Int /\ Len(hunk.old) \in Int
        BY <1>2, <1>3
      <3>4. at \in Nat /\ Len(hunk.old) \in Nat
        BY <1>3, <2>1
      <3>5. done.delta + Len(hunk.new) - Len(hunk.old) \in Int
        BY <3>1, <3>3
      <3> QED
        BY <3>2, <3>4, <3>5
    <2>5. next = placed
      BY <1>6, <1>7
    <2>6. next \in Dones(S)
      BY <2>3, <2>4, <2>5 DEF Dones
    <2>7. next.last = at + Len(hunk.old) /\ next.text = made
      BY <2>5
    <2>8. rebase => hunk.old # <<>> /\ AloneAt(text, hunk.old, at)
      BY <1>4, <2>1
    <2> QED
      BY <1>5, <1>7, <2>1, <2>6, <2>7, <2>8 DEF at, next, made, piece, Fitted
  <1>8. CASE ~HunkFits
    <2>1. next = [done EXCEPT !.ok = FALSE]
      BY <1>6, <1>8
    <2>2. next \in Dones(S) /\ next.ok = FALSE
      BY <2>1 DEF Dones
    <2> QED
      BY <1>5, <2>2 DEF at, next
  <1> QED
    BY <1>7, <1>8

(* The hunks one after the other.                                              *)
Patches(r, text, hunks, rebase, S, n) ==
    /\ r \in [0..n -> Dones(S)] /\ r[0] = Start
    /\ \A k \in 1..n : r[k] = HunkStep(text, rebase, r[k - 1], hunks[k])

(* What _unified() has made after each hunk.                                *)
LEMMA UnifiedTrace ==
    ASSUME NEW S, NEW text \in Seq(S), NEW n \in Nat, NEW hunks, DOMAIN hunks = 1..n,
           \A k \in 1..n : HunkOf(hunks[k], S), NEW rebase \in BOOLEAN
    PROVE  \E r : /\ Patches(r, text, hunks, rebase, S, n)
                  /\ Unified(text, hunks, rebase) =
                        IF r[n].ok THEN Patched(r[n].text \o Segment(text, r[n].last, Len(text))) ELSE Failed
  <1> DEFINE A == Dones(S)
             step == [q \in A \X (1..n) |-> HunkStep(text, rebase, q[1], hunks[q[2]])]
             h == CHOOSE g : HunksFold(g, text, hunks, rebase)
             base == Start
  <1>1. base \in A
    <2>1. <<>> \in Seq(S)
      BY EmptySeq
    <2> QED
      BY <2>1 DEF Start, Dones
  <1>2. step \in StepFunctions(A, n) /\ \A a \in A, k \in 1..n : step[<<a, k>>] = HunkStep(text, rebase, a, hunks[k])
    <2>1. \A q \in A \X (1..n) : HunkStep(text, rebase, q[1], hunks[q[2]]) \in A
      <3> SUFFICES ASSUME NEW a \in A, NEW k \in 1..n PROVE HunkStep(text, rebase, a, hunks[k]) \in A
        OBVIOUS
      <3> QED
        BY HunkPlaced
    <2> QED
      BY <2>1 DEF StepFunctions
  <1>3. Unified(text, hunks, rebase) =
           IF h[1..n].ok THEN Patched(h[1..n].text \o Segment(text, h[1..n].last, Len(text))) ELSE Failed
    BY UnifiedIsFold
  <1> HIDE DEF A, step, h, base
  <1>4. \E g : HunksFold(g, text, hunks, rebase)
    <2>1. PICK g \in [SUBSET (1..n) -> A] : LeftFold(g, n, step, base)
      BY <1>1, <1>2, FoldOfIndices
    <2>2. ASSUME NEW T \in SUBSET (1..n)
          PROVE  g[T] = IF T = {} THEN base ELSE HunkStep(text, rebase, g[T \ {Greatest(T)}], hunks[Greatest(T)])
      <3>1. T # {} => Greatest(T) \in 1..n /\ g[T \ {Greatest(T)}] \in A
        BY LastOf
      <3> QED
        BY <2>1, <3>1, <1>2 DEF LeftFold
    <2>3. g = [T \in SUBSET (1..n) |-> g[T]]
      OBVIOUS
    <2>4. HunksFold(g, text, hunks, rebase)
      BY <2>2, <2>3 DEF HunksFold, base
    <2> QED
      BY <2>4
  <1>5. HunksFold(h, text, hunks, rebase)
    BY <1>4 DEF h
  <1>6. \A T \in SUBSET (1..n) :
           h[T] = IF T = {} THEN base ELSE HunkStep(text, rebase, h[T \ {Greatest(T)}], hunks[Greatest(T)])
    BY <1>5 DEF HunksFold, base
  <1>7. ASSUME NEW T \in SUBSET (1..n), T # {}, h[T \ {Greatest(T)}] \in A
        PROVE  h[T] = step[<<h[T \ {Greatest(T)}], Greatest(T)>>]
    <2>1. Greatest(T) \in 1..n
      BY <1>7, LastOf
    <2> QED
      BY <1>2, <1>6, <1>7, <2>1
  <1>8. FoldsWithin(h, A, n, step, base)
    BY <1>6, <1>7 DEF FoldsWithin
  <1>9. PICK r : Trace(r, A, n, step, base) /\ r[n] = h[1..n]
    BY <1>1, <1>2, <1>8, FoldTrace
  <1>10. \A k \in 1..n : r[k] = HunkStep(text, rebase, r[k - 1], hunks[k])
    <2> SUFFICES ASSUME NEW k \in 1..n PROVE r[k] = HunkStep(text, rebase, r[k - 1], hunks[k])
      OBVIOUS
    <2>1. k - 1 \in 0..n /\ r[k - 1] \in A
      BY <1>9 DEF Trace
    <2> QED
      BY <1>2, <1>9, <2>1 DEF Trace
  <1>11. Patches(r, text, hunks, rebase, S, n)
    BY <1>9, <1>10 DEF Trace, Patches, A, base
  <1> QED
    BY <1>3, <1>9, <1>11
-----------------------------------------------------------------------------
(* A text that is replaced piece by piece from the left: where each passage    *)
(* stands, how far the text is read and what has been written.                 *)
Pieces(text, parts, n, at, last, made, S) ==
    /\ at \in [1..n -> Nat] /\ last \in [0..n -> Nat] /\ made \in [0..n -> Seq(S)]
    /\ last[0] = 0 /\ made[0] = <<>> /\ last[n] <= Len(text)
    /\ \A k \in 1..n : /\ last[k - 1] <= at[k] /\ last[k] = at[k] + Len(parts[k].old) /\ last[k] <= Len(text)
                       /\ made[k] = made[k - 1] \o Segment(text, last[k - 1], at[k]) \o parts[k].new

(* A patch that moves and fits: every passage stands alone, in this order.     *)
LEMMA UnifiedMeant ==
    ASSUME NEW S, NEW text \in Seq(S), NEW n \in Nat, NEW hunks, DOMAIN hunks = 1..n,
           \A k \in 1..n : HunkOf(hunks[k], S), NEW rebase \in BOOLEAN,
           Unified(text, hunks, rebase).ok
    PROVE  \E at, last, made :
              /\ Pieces(text, hunks, n, at, last, made, S)
              /\ rebase => \A k \in 1..n : hunks[k].old # <<>> /\ AloneAt(text, hunks[k].old, at[k])
              /\ Unified(text, hunks, rebase).text = made[n] \o Segment(text, last[n], Len(text))
              /\ Unified(text, hunks, rebase).text \in Seq(S)
  <1>1. PICK r : /\ Patches(r, text, hunks, rebase, S, n)
                 /\ Unified(text, hunks, rebase) =
                       IF r[n].ok THEN Patched(r[n].text \o Segment(text, r[n].last, Len(text))) ELSE Failed
    BY UnifiedTrace
  <1>2. r[n].ok /\ Unified(text, hunks, rebase).text = r[n].text \o Segment(text, r[n].last, Len(text))
    <2> DEFINE whole == r[n].text \o Segment(text, r[n].last, Len(text))
    <2>1. Unified(text, hunks, rebase) = IF r[n].ok THEN Patched(whole) ELSE Failed
      BY <1>1
    <2> HIDE DEF whole
    <2>2. Failed.ok = FALSE /\ Patched(whole).text = whole
      BY DEF Failed, Patched
    <2>3. r[n].ok
      <3>1. ~r[n].ok => Unified(text, hunks, rebase) = Failed
        BY <2>1
      <3> QED
        BY <2>2, <3>1
    <2>4. Unified(text, hunks, rebase).text = whole
      BY <2>1, <2>2, <2>3
    <2> QED
      BY <2>3, <2>4 DEF whole
  <1> DEFINE at == [k \in 1..n |-> Place(text, hunks[k], rebase, r[k - 1].delta)]
             last == [k \in 0..n |-> r[k].last]
             made == [k \in 0..n |-> r[k].text]
  <1>3. \A k \in 1..n : r[k - 1] \in Dones(S) /\ r[k] = HunkStep(text, rebase, r[k - 1], hunks[k])
    <2> SUFFICES ASSUME NEW k \in 1..n PROVE r[k - 1] \in Dones(S) /\ r[k] = HunkStep(text, rebase, r[k - 1], hunks[k])
      OBVIOUS
    <2>1. k - 1 \in 0..n
      OBVIOUS
    <2> QED
      BY <1>1, <2>1 DEF Patches
  <1>4. ASSUME NEW k \in 1..n
        PROVE  /\ at[k] \in Int
               /\ r[k].ok => /\ r[k - 1].ok /\ at[k] \in Nat /\ r[k - 1].last <= at[k]
                             /\ r[k].last = at[k] + Len(hunks[k].old) /\ r[k].last <= Len(text)
                             /\ r[k].text = r[k - 1].text \o Segment(text, r[k - 1].last, at[k]) \o hunks[k].new
               /\ r[k].ok /\ rebase => hunks[k].old # <<>> /\ AloneAt(text, hunks[k].old, at[k])
    <2> DEFINE done == r[k - 1]
               hunk == hunks[k]
    <2>1. /\ at[k] = Place(text, hunk, rebase, done.delta) /\ r[k] = HunkStep(text, rebase, done, hunk)
          /\ done \in Dones(S) /\ HunkOf(hunk, S)
      BY <1>3
    <2> HIDE DEF at, done, hunk
    <2>2. /\ at[k] \in Int
          /\ r[k].ok => Fitted(text, hunk, done, r[k], at[k])
          /\ r[k].ok /\ rebase => hunk.old # <<>> /\ AloneAt(text, hunk.old, at[k])
      BY <2>1, HunkPlaced
    <2> QED
      BY <2>2 DEF done, hunk, Fitted
  <1> HIDE DEF at
  <1>5. \A k \in 0..n : r[k] \in Dones(S)
    BY <1>1 DEF Patches
  <1> DEFINE P == {d \in 0..n : r[n - d].ok}
  <1>6. P = 0..n
    <2>1. 0 \in P
      BY <1>2
    <2>2. ASSUME NEW d \in 1..n, d - 1 \in P PROVE d \in P
      <3>1. n - d + 1 \in 1..n /\ n - (d - 1) = n - d + 1 /\ (n - d + 1) - 1 = n - d
        OBVIOUS
      <3>2. r[n - d + 1].ok
        BY <2>2, <3>1
      <3>3. r[n - d].ok
        BY <1>4, <3>1, <3>2
      <3> QED
        BY <3>3
    <2>3. P \in SUBSET (0..n)
      OBVIOUS
    <2> HIDE DEF P
    <2> QED
      BY <2>1, <2>2, <2>3, Reaches
  <1>7. \A k \in 0..n : r[k].ok
    <2> SUFFICES ASSUME NEW k \in 0..n PROVE r[k].ok
      OBVIOUS
    <2>1. n - k \in 0..n /\ n - (n - k) = k
      OBVIOUS
    <2>2. n - k \in P
      BY <1>6, <2>1
    <2> QED
      BY <2>1, <2>2
  <1> HIDE DEF P
  <1>8. \A k \in 0..n : last[k] = r[k].last /\ made[k] = r[k].text /\ r[k].last \in Nat /\ r[k].text \in Seq(S)
    BY <1>5 DEF Dones
  <1>9. at \in [1..n -> Nat] /\ last \in [0..n -> Nat] /\ made \in [0..n -> Seq(S)]
    <2>1. \A k \in 1..n : k \in 0..n
      OBVIOUS
    <2>2. \A k \in 1..n : at[k] \in Nat
      BY <1>4, <1>7, <2>1
    <2>3. at \in [1..n -> Nat]
      BY <2>2 DEF at
    <2> QED
      BY <2>3, <1>8
  <1>10. ASSUME NEW k \in 1..n
         PROVE  /\ last[k - 1] <= at[k] /\ last[k] = at[k] + Len(hunks[k].old) /\ last[k] <= Len(text)
                /\ made[k] = made[k - 1] \o Segment(text, last[k - 1], at[k]) \o hunks[k].new
                /\ rebase => hunks[k].old # <<>> /\ AloneAt(text, hunks[k].old, at[k])
    <2>1. k \in 0..n /\ k - 1 \in 0..n
      OBVIOUS
    <2> HIDE DEF at, last, made
    <2> QED
      BY <1>4, <1>7, <1>8, <2>1
  <1>11. last[0] = 0 /\ made[0] = <<>>
    BY <1>1 DEF Patches, Start
  <1>12. last[n] <= Len(text) /\ n \in 0..n
    <2>1. CASE n = 0
      BY <2>1, <1>11, LenProperties
    <2>2. CASE n # 0
      <3>1. n \in 1..n /\ n \in 0..n
        BY <2>2
      <3>2. last[n] <= Len(text)
        BY <1>10, <3>1
      <3> QED
        BY <3>1, <3>2
    <2> QED
      BY <2>1, <2>2
  <1> HIDE DEF at, last, made
  <1>13. Pieces(text, hunks, n, at, last, made, S)
    BY <1>9, <1>10, <1>11, <1>12 DEF Pieces
  <1>14. Unified(text, hunks, rebase).text = made[n] \o Segment(text, last[n], Len(text))
    BY <1>2, <1>8, <1>12
  <1>15. made[n] \o Segment(text, last[n], Len(text)) \in Seq(S)
    <2>1. made[n] \in Seq(S) /\ last[n] \in Nat /\ Len(text) \in Nat /\ Len(text) <= Len(text)
      BY <1>9, <1>12, LenProperties
    <2>2. Segment(text, last[n], Len(text)) \in Seq(S)
      BY <1>12, <2>1, SegmentIs
    <2> QED
      BY <2>1, <2>2, ConcatProperties
  <1> QED
    BY <1>10, <1>13, <1>14, <1>15
-----------------------------------------------------------------------------
(* The parts replaced from the last one to the first.                          *)
Rebuilt(parts, before) ==
    FoldRight(LAMBDA part, text : Splice(text, OnlyPlace(before, part.old), part.old, part.new), parts, before)

(* Its step, and the function that folds the parts from the last.           *)
RebuiltStep(text, before, part) == Splice(text, OnlyPlace(before, part.old), part.old, part.new)

RebuiltFold(g, parts, before) ==
    g = [T \in SUBSET DOMAIN parts |->
            IF T = {} THEN before ELSE RebuiltStep(g[T \ {Min(T)}], before, parts[Min(T)])]

(* Rebuilt() as the library defines it.                                     *)
LEMMA RebuiltIsFold ==
    ASSUME NEW parts, NEW before
    PROVE  Rebuilt(parts, before) = (CHOOSE g : RebuiltFold(g, parts, before))[DOMAIN parts]
  BY DEF Rebuilt, FoldRight, MapThenFoldSet, RebuiltFold, RebuiltStep

(* The indices that are left are always those after the least.              *)
LEMMA FirstOf ==
    ASSUME NEW n \in Nat
    PROVE  /\ \A T \in SUBSET (1..n) : T # {} => Min(T) \in T /\ \A y \in T : Min(T) <= y
           /\ \A k \in 1..n : k..n \in SUBSET (1..n) /\ k..n # {}
           /\ \A k \in 1..n : Min(k..n) = k /\ (k..n) \ {k} = (k + 1)..n
  <1>1. ASSUME NEW T \in SUBSET (1..n), T # {} PROVE Min(T) \in T /\ \A y \in T : Min(T) <= y
    <2>1. T \in SUBSET Nat
      OBVIOUS
    <2>2. \E x \in T : \A y \in T : x <= y
      BY <1>1, <2>1, LeastOf
    <2> QED
      BY <2>2 DEF Min
  <1>2. ASSUME NEW k \in 1..n PROVE k..n \in SUBSET (1..n) /\ k..n # {} /\ k \in k..n
    <2>1. k..n \in SUBSET (1..n) /\ k \in k..n
      OBVIOUS
    <2> QED
      BY <2>1
  <1>3. ASSUME NEW k \in 1..n PROVE Min(k..n) = k
    <2>1. Min(k..n) \in k..n /\ Min(k..n) <= k
      BY <1>1, <1>2
    <2> QED
      BY <2>1
  <1>4. \A k \in 1..n : (k..n) \ {k} = (k + 1)..n
    OBVIOUS
  <1> QED
    BY <1>1, <1>2, <1>3, <1>4

(* Passages that stand alone, one behind the other.                            *)
Apart(before, parts, n, at, S) ==
    /\ at \in [1..n -> Nat]
    /\ \A k \in 1..n : /\ parts[k].old \in Seq(S) /\ parts[k].new \in Seq(S)
                       /\ OnlyPlace(before, parts[k].old) = at[k]
                       /\ at[k] + Len(parts[k].old) <= Len(before)
    /\ \A i, j \in 1..n : i < j => at[i] + Len(parts[i].old) <= at[j]

(* Replacing a passage gives a text at least as long as what is before it.  *)
LEMMA SpliceIs ==
    ASSUME NEW S, NEW text \in Seq(S), NEW old \in Seq(S), NEW new \in Seq(S), NEW at \in Nat,
           at + Len(old) <= Len(text)
    PROVE  Splice(text, at, old, new) \in Seq(S) /\ Len(Splice(text, at, old, new)) >= at
  <1> DEFINE n == Len(text)
             l == at + Len(old)
             head == Segment(text, 0, at)
             tail == Segment(text, l, n)
             mid == head \o new
  <1>1. n \in Nat /\ Len(old) \in Nat /\ Len(new) \in Nat
    BY LenProperties
  <1>2. at <= n /\ l \in Nat /\ 0 \in Nat /\ 0 <= at /\ n <= n
    BY <1>1
  <1> HIDE DEF l
  <1>3. head \in Seq(S) /\ Len(head) = at - 0
    BY <1>2, SegmentIs
  <1>4. tail \in Seq(S)
    BY <1>1, <1>2, SegmentIs DEF l
  <1>5. Splice(text, at, old, new) = mid \o tail
    BY DEF Splice, l
  <1> HIDE DEF head, tail
  <1>6. mid \in Seq(S) /\ Len(mid) = Len(head) + Len(new)
    BY <1>3, ConcatProperties
  <1> HIDE DEF mid
  <1>7. mid \o tail \in Seq(S) /\ Len(mid \o tail) = Len(mid) + Len(tail) /\ Len(tail) \in Nat
    BY <1>4, <1>6, ConcatProperties, LenProperties
  <1>8. Len(mid) + Len(tail) >= at
    BY <1>1, <1>3, <1>6, <1>7
  <1> QED
    BY <1>5, <1>7, <1>8

(* There is such a fold.                                                    *)
LEMMA RebuiltExists ==
    ASSUME NEW S, NEW before \in Seq(S), NEW n \in Nat, NEW parts, DOMAIN parts = 1..n,
           NEW at, Apart(before, parts, n, at, S)
    PROVE  \E g : RebuiltFold(g, parts, before)
  <1> DEFINE A == Seq(S)
             Room(a, k) == Len(a) >= at[k] + Len(parts[k].old)
             step == [q \in A \X (1..n) |-> IF Room(q[1], q[2]) THEN RebuiltStep(q[1], before, parts[q[2]]) ELSE before]
             pick == [T \in SUBSET (1..n) |-> Min(T)]
  <1>1. \A T \in SUBSET (1..n) : T # {} => pick[T] \in T /\ pick[T] = Min(T) /\ \A y \in T : Min(T) <= y
    BY FirstOf
  <1>2. \A k \in 1..n : /\ parts[k].old \in Seq(S) /\ parts[k].new \in Seq(S) /\ at[k] \in Nat
                        /\ OnlyPlace(before, parts[k].old) = at[k] /\ Room(before, k)
                        /\ Len(parts[k].old) \in Nat
    BY LenProperties DEF Apart
  <1>3. ASSUME NEW a \in A, NEW k \in 1..n, Room(a, k)
        PROVE  RebuiltStep(a, before, parts[k]) \in A /\ Len(RebuiltStep(a, before, parts[k])) >= at[k]
    <2>1. at[k] + Len(parts[k].old) <= Len(a)
      BY <1>2, <1>3, LenProperties
    <2>2. RebuiltStep(a, before, parts[k]) = Splice(a, at[k], parts[k].old, parts[k].new)
      BY <1>2 DEF RebuiltStep
    <2> QED
      BY <1>2, <2>1, <2>2, SpliceIs
  <1>4. \A a \in A, k \in 1..n : step[<<a, k>>] = IF Room(a, k) THEN RebuiltStep(a, before, parts[k]) ELSE before
    OBVIOUS
  <1>5. step \in [A \X (1..n) -> A]
    <2>1. \A q \in A \X (1..n) : (IF Room(q[1], q[2]) THEN RebuiltStep(q[1], before, parts[q[2]]) ELSE before) \in A
      <3> SUFFICES ASSUME NEW a \in A, NEW k \in 1..n
                   PROVE  (IF Room(a, k) THEN RebuiltStep(a, before, parts[k]) ELSE before) \in A
        OBVIOUS
      <3> QED
        BY <1>3
    <2> QED
      BY <2>1
  <1>6. before \in A /\ IsFiniteSet(1..n)
    BY LastOf
  <1> HIDE DEF pick, step, A
  <1>7. PICK g \in [SUBSET (1..n) -> A] : FoldsTo(g, 1..n, pick, step, before)
    <2>1. \A T \in SUBSET (1..n) : T # {} => pick[T] \in T
      BY <1>1
    <2> QED
      BY <1>5, <1>6, <2>1, FoldExists
  <1>8. ASSUME NEW T \in SUBSET (1..n), T # {}
        PROVE  g[T] = step[<<g[T \ {Min(T)}], Min(T)>>] /\ g[T \ {Min(T)}] \in A /\ Min(T) \in 1..n
    <2>1. Min(T) \in 1..n /\ pick[T] = Min(T)
      BY <1>1, <1>8
    <2>2. T \ {Min(T)} \in SUBSET (1..n)
      OBVIOUS
    <2>3. g[T] = step[<<g[T \ {pick[T]}], pick[T]>>]
      BY <1>7, <1>8 DEF FoldsTo
    <2> QED
      BY <1>7, <2>1, <2>2, <2>3
  <1>9. ASSUME NEW T \in SUBSET (1..n), T # {} PROVE Len(g[T]) >= at[Min(T)]
    <2> DEFINE k == Min(T)
               a == g[T \ {Min(T)}]
    <2>1. g[T] = step[<<a, k>>] /\ a \in A /\ k \in 1..n
      BY <1>8, <1>9
    <2> HIDE DEF k, a
    <2>2. CASE Room(a, k)
      <3>1. g[T] = RebuiltStep(a, before, parts[k])
        BY <1>4, <2>1, <2>2
      <3> QED
        BY <1>3, <2>1, <2>2, <3>1 DEF k
    <2>3. CASE ~Room(a, k)
      <3>1. g[T] = before
        BY <1>4, <2>1, <2>3
      <3>2. Len(before) \in Nat /\ Len(before) >= at[k] + Len(parts[k].old) /\ at[k] \in Nat /\ Len(parts[k].old) \in Nat
        BY <1>2, <2>1, LenProperties
      <3> QED
        BY <3>1, <3>2 DEF k
    <2> QED
      BY <2>2, <2>3
  <1>10. ASSUME NEW T \in SUBSET (1..n), T # {}
         PROVE  g[T] = RebuiltStep(g[T \ {Min(T)}], before, parts[Min(T)])
    <2> DEFINE k == Min(T)
               R == T \ {Min(T)}
    <2>1. g[T] = step[<<g[R], k>>] /\ g[R] \in A /\ k \in 1..n
      BY <1>8, <1>10
    <2>2. R \in SUBSET (1..n) /\ \A y \in R : k < y
      <3>1. \A y \in T : k <= y /\ y \in Nat
        BY <1>1, <1>10
      <3>2. k \in Nat
        BY <2>1
      <3> HIDE DEF k
      <3>3. \A y \in R : y \in T /\ y # k
        BY DEF k
      <3>4. \A y \in R : k < y
        BY <3>1, <3>2, <3>3
      <3> QED
        BY <3>4
    <2> HIDE DEF k, R
    <2>3. Room(g[R], k)
      <3>1. CASE R = {}
        <4>1. g[R] = before
          BY <1>7, <2>2, <3>1 DEF FoldsTo
        <4> QED
          BY <1>2, <2>1, <4>1
      <3>2. CASE R # {}
        <4>1. Len(g[R]) >= at[Min(R)] /\ Min(R) \in R /\ Min(R) \in 1..n
          BY <1>9, <1>1, <2>2, <3>2
        <4>2. k < Min(R)
          BY <2>2, <4>1
        <4>3. at[k] + Len(parts[k].old) <= at[Min(R)]
          BY <2>1, <4>1, <4>2 DEF Apart
        <4>4. Len(g[R]) \in Nat
          BY <2>1, LenProperties DEF A
        <4>5. at[k] \in Nat /\ Len(parts[k].old) \in Nat /\ at[Min(R)] \in Nat
          BY <1>2, <2>1, <4>1
        <4> QED
          BY <4>1, <4>3, <4>4, <4>5
      <3> QED
        BY <3>1, <3>2
    <2> QED
      BY <1>4, <2>1, <2>3 DEF k, R
  <1>11. g[{}] = before
    BY <1>7 DEF FoldsTo
  <1>12. g = [T \in SUBSET (1..n) |-> g[T]]
    BY <1>7
  <1>13. RebuiltFold(g, parts, before)
    BY <1>10, <1>11, <1>12 DEF RebuiltFold
  <1> QED
    BY <1>13
-----------------------------------------------------------------------------
(* The texts on the way, from the last part to the first.                      *)
Rewound(r, before, parts, n, at) ==
    /\ r[n] = before /\ r[0] = Rebuilt(parts, before)
    /\ \A k \in 1..n : r[k - 1] = Splice(r[k], at[k], parts[k].old, parts[k].new)

(* Parts whose places are known.                                               *)
Placed(text, parts, n, at, S) ==
    \A k \in 1..n : /\ parts[k].old \in Seq(S) /\ parts[k].new \in Seq(S)
                    /\ OnlyPlace(text, parts[k].old) = at[k]

(* Rewinding passes through the texts in between.                           *)
LEMMA RebuiltTrace ==
    ASSUME NEW S, NEW before \in Seq(S), NEW n \in Nat, NEW parts, DOMAIN parts = 1..n,
           NEW at, Apart(before, parts, n, at, S)
    PROVE  \E r : Rewound(r, before, parts, n, at)
  <1> DEFINE h == CHOOSE g : RebuiltFold(g, parts, before)
             r == [k \in 0..n |-> h[(k + 1)..n]]
  <1>1. RebuiltFold(h, parts, before)
    BY RebuiltExists
  <1>2. Rebuilt(parts, before) = h[1..n]
    BY RebuiltIsFold
  <1> HIDE DEF h
  <1>3. \A T \in SUBSET (1..n) :
           h[T] = IF T = {} THEN before ELSE RebuiltStep(h[T \ {Min(T)}], before, parts[Min(T)])
    BY <1>1 DEF RebuiltFold
  <1>4. r[n] = before
    <2>1. (n + 1)..n = {} /\ n \in 0..n
      OBVIOUS
    <2>2. h[{}] = before
      BY <1>3
    <2> QED
      BY <2>1, <2>2
  <1>5. r[0] = Rebuilt(parts, before)
    <2>1. 0 \in 0..n /\ 0 + 1 = 1
      OBVIOUS
    <2> QED
      BY <1>2, <2>1
  <1>6. ASSUME NEW k \in 1..n PROVE r[k - 1] = Splice(r[k], at[k], parts[k].old, parts[k].new)
    <2>1. k \in 0..n /\ k - 1 \in 0..n /\ (k - 1) + 1 = k
      OBVIOUS
    <2>2. r[k] = h[(k + 1)..n] /\ r[k - 1] = h[k..n]
      BY <2>1
    <2>3. k..n \in SUBSET (1..n) /\ k..n # {} /\ Min(k..n) = k /\ (k..n) \ {k} = (k + 1)..n
      BY FirstOf
    <2> HIDE DEF r
    <2>4. h[k..n] = RebuiltStep(h[(k + 1)..n], before, parts[k])
      BY <1>3, <2>3
    <2>5. OnlyPlace(before, parts[k].old) = at[k]
      BY DEF Apart
    <2> QED
      BY <2>2, <2>4, <2>5 DEF RebuiltStep
  <1> HIDE DEF r
  <1> QED
    BY <1>4, <1>5, <1>6 DEF Rewound

(* The passages of Pieces stand apart.                                         *)
LEMMA PiecesApart ==
    ASSUME NEW S, NEW text \in Seq(S), NEW n \in Nat, NEW parts, NEW at, NEW last, NEW made,
           Pieces(text, parts, n, at, last, made, S),
           Placed(text, parts, n, at, S)
    PROVE  Apart(text, parts, n, at, S)
  <1>0. \A k \in 1..n : /\ parts[k].old \in Seq(S) /\ parts[k].new \in Seq(S)
                        /\ OnlyPlace(text, parts[k].old) = at[k]
    BY DEF Placed
  <1>1. /\ at \in [1..n -> Nat] /\ last \in [0..n -> Nat]
        /\ \A k \in 1..n : last[k - 1] <= at[k] /\ last[k] = at[k] + Len(parts[k].old) /\ last[k] <= Len(text)
    BY DEF Pieces
  <1>2. \A k \in 1..n : last[k - 1] <= last[k] /\ last[k - 1] \in Nat /\ last[k] \in Nat
    <2> SUFFICES ASSUME NEW k \in 1..n PROVE last[k - 1] <= last[k] /\ last[k - 1] \in Nat /\ last[k] \in Nat
      OBVIOUS
    <2>1. k - 1 \in 0..n /\ k \in 0..n /\ at[k] \in Nat
      BY <1>1
    <2>3. Len(parts[k].old) \in Nat
      BY <1>0, LenProperties
    <2>2. last[k - 1] \in Nat /\ last[k] \in Nat
      BY <1>1, <2>1
    <2>4. last[k - 1] <= at[k] /\ last[k] = at[k] + Len(parts[k].old)
      BY <1>1
    <2> QED
      BY <2>1, <2>2, <2>3, <2>4
  <1>3. ASSUME NEW i \in 1..n PROVE \A j \in i..n : last[i] <= last[j]
    <2> DEFINE P == {j \in i..n : last[i] <= last[j]}
    <2>1. ASSUME NEW j \in i..n, i..(j - 1) \subseteq P PROVE j \in P
      <3>1. CASE j = i
        BY <1>2, <3>1
      <3>2. CASE j # i
        <4>1. j - 1 \in i..(j - 1) /\ j \in 1..n
          BY <3>2
        <4>2. last[i] <= last[j - 1]
          BY <2>1, <4>1
        <4> QED
          BY <1>2, <4>1, <4>2
      <3> QED
        BY <3>1, <3>2
    <2>2. i \in Nat /\ P \in SUBSET (i..n)
      OBVIOUS
    <2> HIDE DEF P
    <2>3. P = i..n
      BY <2>1, <2>2, Climbs
    <2> QED
      BY <2>3 DEF P
  <1>4. ASSUME NEW i \in 1..n, NEW j \in 1..n, i < j PROVE at[i] + Len(parts[i].old) <= at[j]
    <2>1. j - 1 \in i..n /\ j - 1 \in 1..n
      BY <1>4
    <2>2. last[i] <= last[j - 1] /\ last[j - 1] <= at[j] /\ last[i] = at[i] + Len(parts[i].old)
      BY <1>1, <1>3, <2>1
    <2> QED
      BY <1>1, <1>2, <2>1, <2>2
  <1>5. \A k \in 1..n : at[k] + Len(parts[k].old) <= Len(text)
    BY <1>1
  <1> QED
    BY <1>0, <1>1, <1>4, <1>5 DEF Apart

(* Whether the text is written from the left or changed from the right, the    *)
(* result is one.                                                              *)
LEMMA RebuiltMeant ==
    ASSUME NEW S, NEW text \in Seq(S), NEW n \in Nat, NEW parts, DOMAIN parts = 1..n,
           NEW at, NEW last, NEW made, Pieces(text, parts, n, at, last, made, S),
           Placed(text, parts, n, at, S),
           NEW result, result = made[n] \o Segment(text, last[n], Len(text))
    PROVE  Rebuilt(parts, text) = result
  <1>0. \A k \in 1..n : parts[k].old \in Seq(S) /\ parts[k].new \in Seq(S)
    BY DEF Placed
  <1>9. PICK r : Rewound(r, text, parts, n, at)
    <2>1. Apart(text, parts, n, at, S)
      BY PiecesApart
    <2> QED
      BY <2>1, RebuiltTrace
  <1>1. /\ r[n] = text /\ r[0] = Rebuilt(parts, text)
        /\ \A k \in 1..n : r[k - 1] = Splice(r[k], at[k], parts[k].old, parts[k].new)
    BY <1>9 DEF Rewound
  <1> DEFINE R == made[n] \o Segment(text, last[n], Len(text))
             Left(k) == \E y \in Seq(S) : r[k] = Segment(text, 0, last[k]) \o y /\ made[k] \o y = R
             P == {d \in 0..n : Left(n - d)}
  <1>2. /\ at \in [1..n -> Nat] /\ last \in [0..n -> Nat] /\ made \in [0..n -> Seq(S)]
        /\ last[0] = 0 /\ made[0] = <<>> /\ last[n] <= Len(text)
    BY DEF Pieces
  <1>3. Len(text) \in Nat /\ n \in 0..n /\ 0 \in 0..n
    BY LenProperties
  <1>4. Left(n)
    <2> DEFINE y == Segment(text, last[n], Len(text))
    <2>1. last[n] \in Nat /\ 0 \in Nat /\ 0 <= last[n] /\ last[n] <= Len(text) /\ Len(text) <= Len(text)
      BY <1>2, <1>3
    <2>2. y \in Seq(S)
      BY <1>3, <2>1, SegmentIs
    <2>3. Segment(text, 0, last[n]) \o y = Segment(text, 0, Len(text))
      BY <1>3, <2>1, SegmentsJoin
    <2>4. Segment(text, 0, Len(text)) = text
      BY SegmentWhole
    <2> QED
      BY <1>1, <2>2, <2>3, <2>4
  <1>5. ASSUME NEW k \in 1..n, Left(k) PROVE Left(k - 1)
    <2> DEFINE a == last[k - 1]
               b == at[k]
               c == last[k]
               new == parts[k].new
               old == parts[k].old
               piece == Segment(text, a, b)
    <2>1. /\ a \in Nat /\ b \in Nat /\ c \in Nat /\ a <= b /\ c = b + Len(old) /\ b <= c /\ c <= Len(text)
          /\ new \in Seq(S) /\ old \in Seq(S) /\ 0 \in Nat /\ 0 <= a /\ 0 <= b /\ 0 <= c
          /\ b <= Len(text) /\ made[k - 1] \in Seq(S) /\ made[k] \in Seq(S)
      <3>1. k - 1 \in 0..n /\ k \in 0..n
        OBVIOUS
      <3>2. a \in Nat /\ b \in Nat /\ c \in Nat /\ made[k - 1] \in Seq(S) /\ made[k] \in Seq(S)
        BY <1>2, <3>1
      <3>3. a <= b /\ c = b + Len(old) /\ c <= Len(text)
        BY DEF Pieces
      <3>4. new \in Seq(S) /\ old \in Seq(S) /\ Len(old) \in Nat
        BY <1>0, LenProperties
      <3> HIDE DEF a, b, c, new, old
      <3> QED
        BY <1>3, <3>2, <3>3, <3>4
    <2>2. made[k] = (made[k - 1] \o piece) \o new
      BY DEF Pieces
    <2>3. PICK y \in Seq(S) : r[k] = Segment(text, 0, c) \o y /\ made[k] \o y = R
      BY <1>5
    <2>4. r[k - 1] = Splice(r[k], b, old, new)
      BY <1>1
    <2> HIDE DEF a, b, c, new, old, R
    <2> DEFINE front == Segment(text, 0, c)
               head == Segment(text, 0, b)
               first == Segment(text, 0, a)
               z == (piece \o new) \o y
    <2>5. /\ front \in Seq(S) /\ head \in Seq(S) /\ first \in Seq(S) /\ piece \in Seq(S) /\ Len(front) = c
          /\ first \o piece = head
      <3>1. front \in Seq(S) /\ Len(front) = c - 0 /\ c - 0 = c
        BY <2>1, SegmentIs
      <3>2. a <= Len(text)
        BY <1>3, <2>1
      <3>3. head \in Seq(S) /\ first \in Seq(S) /\ piece \in Seq(S)
        BY <2>1, <3>2, SegmentIs
      <3>4. first \o piece = head
        BY <2>1, SegmentsJoin
      <3> QED
        BY <3>1, <3>3, <3>4
    <2>6. Segment(r[k], 0, b) = head
      <3>1. Segment(front \o y, 0, b) = Segment(front, 0, b)
        BY <2>1, <2>5, SegmentOfTwo
      <3>2. front = head \o Segment(text, b, c)
        BY <2>1, SegmentsJoin
      <3>3. Segment(text, b, c) \in Seq(S) /\ Len(head) = b - 0 /\ b - 0 = b
        BY <2>1, SegmentIs
      <3>4. Segment(head \o Segment(text, b, c), 0, b) = Segment(head, 0, b)
        BY <2>1, <2>5, <3>3, SegmentOfTwo
      <3>5. Segment(head, 0, b) = head
        BY <2>5, <3>3, SegmentWhole
      <3> QED
        BY <2>3, <3>1, <3>2, <3>4, <3>5
    <2>7. Segment(r[k], b + Len(old), Len(r[k])) = y
      <3>1. Segment(front \o y, c, Len(front \o y)) = y
        BY <2>1, <2>5, SegmentOfTwo
      <3> QED
        BY <2>1, <2>3, <3>1
    <2>8. r[k - 1] = (head \o new) \o y
      BY <2>4, <2>6, <2>7 DEF Splice
    <2> HIDE DEF front, head, first, piece
    <2> DEFINE m == made[k - 1]
    <2>13. first \in Seq(S) /\ piece \in Seq(S) /\ new \in Seq(S) /\ m \in Seq(S) /\ y \in Seq(S)
      BY <2>1, <2>5
    <2>14. /\ z = Cat(Cat(piece, new), y) /\ head = Cat(first, piece)
           /\ r[k - 1] = Cat(Cat(head, new), y) /\ R = Cat(Cat(Cat(m, piece), new), y)
      BY <2>2, <2>3, <2>5, <2>8 DEF Cat
    <2> HIDE DEF z, m
    <2>9. z \in Seq(S)
      BY <2>13, <2>14, CatLaws
    <2>10. r[k - 1] = Cat(first, z)
      <3>1. Cat(head, new) = Cat(first, Cat(piece, new)) /\ Cat(piece, new) \in Seq(S)
        BY <2>13, <2>14, CatLaws
      <3> QED
        BY <2>13, <2>14, <3>1, CatLaws
    <2>11. Cat(m, z) = R
      <3>1. Cat(Cat(m, piece), new) = Cat(m, Cat(piece, new)) /\ Cat(piece, new) \in Seq(S)
        BY <2>13, CatLaws
      <3> QED
        BY <2>13, <2>14, <3>1, CatLaws
    <2> QED
      BY <2>9, <2>10, <2>11 DEF first, a, m, Cat
  <1> HIDE DEF Left, R
  <1>6. P = 0..n
    <2>1. 0 \in P
      BY <1>3, <1>4
    <2>2. ASSUME NEW d \in 1..n, d - 1 \in P PROVE d \in P
      <3> DEFINE k == n - d + 1
      <3>1. k \in 1..n /\ n - (d - 1) = k /\ k - 1 = n - d /\ d \in 0..n
        OBVIOUS
      <3> HIDE DEF k
      <3>2. Left(k)
        BY <2>2, <3>1
      <3>3. Left(k - 1)
        BY <1>5, <3>1, <3>2
      <3> QED
        BY <3>1, <3>3
    <2>3. P \in SUBSET (0..n)
      OBVIOUS
    <2> HIDE DEF P
    <2> QED
      BY <2>1, <2>2, <2>3, Reaches
  <1>7. Left(0)
    <2>1. \A d \in 0..n : Left(n - d)
      BY <1>6
    <2>2. n - n = 0
      OBVIOUS
    <2>3. Left(n - n)
      BY <1>3, <2>1
    <2> QED
      BY <2>2, <2>3
  <1>8. PICK y \in Seq(S) : r[0] = Segment(text, 0, last[0]) \o y /\ made[0] \o y = R
    BY <1>7 DEF Left
  <1>11. Segment(text, 0, 0) = <<>>
    BY SubSeqEmpty DEF Segment
  <1>10. <<>> \o y = y
    BY ConcatEmptySeq
  <1> QED
    BY <1>1, <1>2, <1>8, <1>11, <1>10 DEF R
-----------------------------------------------------------------------------
(* What the assumption says of one edit.                                       *)
LEMMA EditTexts ==
    ASSUME NEW edit \in Edits
    PROVE  /\ edit.kind = "whole" => edit.text \in Seq(Tokens)
           /\ edit.kind = "exact" =>
                 /\ edit.before \in Seq(Tokens) /\ edit.exact \in Seq(Tokens) /\ edit.after \in Seq(Tokens)
                 /\ edit.replacement \in Seq(Tokens) /\ edit.exact # <<>>
           /\ edit.kind = "unified" =>
                 /\ DOMAIN edit.hunks = 1..Len(edit.hunks) /\ Len(edit.hunks) \in Nat
                 /\ \A k \in 1..Len(edit.hunks) : HunkOf(edit.hunks[k], Tokens)
  <1>1. TextsOf(edit) \subseteq Seq(Tokens) /\ PatchWellFormed(edit)
    BY DocumentsAssumption DEF DocumentsAssumption
  <1> DEFINE All == Seq(Tokens)
  <1>2. TextsOf(edit) \subseteq All
    BY <1>1
  <1> HIDE DEF All
  <1>3. edit.kind = "whole" => edit.text \in All
    BY <1>2 DEF TextsOf
  <1>4. edit.kind = "exact" => /\ edit.before \in All /\ edit.exact \in All /\ edit.after \in All
                               /\ edit.replacement \in All
    BY <1>2 DEF TextsOf
  <1>5. edit.kind = "exact" => edit.exact # <<>>
    BY <1>1 DEF PatchWellFormed
  <1>6. ASSUME edit.kind = "unified"
        PROVE  /\ DOMAIN edit.hunks = 1..Len(edit.hunks) /\ Len(edit.hunks) \in Nat
               /\ \A k \in 1..Len(edit.hunks) : HunkOf(edit.hunks[k], Tokens)
    <2>1. edit.hunks \in Seq(Range(edit.hunks)) /\ \A hunk \in Range(edit.hunks) : hunk.at \in Nat
      BY <1>1, <1>6 DEF PatchWellFormed
    <2>2. DOMAIN edit.hunks = 1..Len(edit.hunks) /\ Len(edit.hunks) \in Nat
      BY <2>1, LenProperties
    <2>3. TextsOf(edit) = UNION {{hunk.old, hunk.new} : hunk \in Range(edit.hunks)}
      BY <1>6 DEF TextsOf
    <2>4. ASSUME NEW hunk \in Range(edit.hunks) PROVE hunk.old \in All /\ hunk.new \in All
      <3>1. hunk.old \in TextsOf(edit) /\ hunk.new \in TextsOf(edit)
        BY <2>3
      <3> QED
        BY <1>2, <3>1
    <2>5. ASSUME NEW k \in 1..Len(edit.hunks) PROVE HunkOf(edit.hunks[k], Tokens)
      <3>1. edit.hunks[k] \in Range(edit.hunks)
        BY <2>2 DEF Range
      <3> QED
        BY <2>1, <2>4, <3>1 DEF HunkOf, All
    <2> QED
      BY <2>2, <2>5
  <1> QED
    BY <1>3, <1>4, <1>5, <1>6 DEF All

(* An exact patch: one passage, its contexts with it.                          *)
LEMMA ExactReplaces ==
    ASSUME NEW text \in Seq(Tokens), NEW edit \in Edits, edit.kind = "exact", ExactPatch(text, edit).ok
    PROVE  /\ ExactPatch(text, edit).text \in Seq(Tokens)
           /\ OnlyPartsReplaced(text, ExactPatch(text, edit).text, edit)
           /\ \A i \in DOMAIN Passages(edit) : StandsOnce(text, Passages(edit)[i].old)
  <1> DEFINE S == Tokens
             old == edit.before \o edit.exact \o edit.after
             new == edit.before \o edit.replacement \o edit.after
             parts == Passages(edit)
             result == ExactPatch(text, edit).text
  <1>1. parts = <<[old |-> old, new |-> new]>>
    BY DEF Passages
  <1>2. /\ old \in Seq(S) /\ new \in Seq(S) /\ old # <<>> /\ result \in Seq(S)
        /\ \E p \in Nat : /\ AloneAt(text, old, p) /\ p + Len(old) <= Len(text)
                          /\ result = Splice(text, p, old, new)
    BY EditTexts, ExactMeant
  <1> HIDE DEF old, new, parts, result, S
  <1>3. PICK p \in Nat : AloneAt(text, old, p) /\ p + Len(old) <= Len(text) /\ result = Splice(text, p, old, new)
    BY <1>2
  <1>4. DOMAIN parts = 1..1 /\ parts[1].old = old /\ parts[1].new = new /\ \A k \in 1..1 : k = 1
    BY <1>1
  <1>5. StandsOnce(text, old) /\ OnlyPlace(text, old) = p
    BY <1>2, <1>3, AloneOnce
  <1> DEFINE at == [k \in 1..1 |-> p]
  <1>6. at[1] = p /\ at \in [1..1 -> Nat]
    OBVIOUS
  <1> HIDE DEF at
  <1>7. Apart(text, parts, 1, at, S)
    <2>1. \A i, j \in 1..1 : ~(i < j)
      OBVIOUS
    <2>2. \A k \in 1..1 : /\ parts[k].old \in Seq(S) /\ parts[k].new \in Seq(S)
                          /\ OnlyPlace(text, parts[k].old) = at[k]
                          /\ at[k] + Len(parts[k].old) <= Len(text)
      BY <1>2, <1>3, <1>4, <1>5, <1>6
    <2> QED
      BY <1>6, <2>1, <2>2 DEF Apart
  <1>8. text \in Seq(S) /\ 1 \in Nat /\ DOMAIN parts = 1..1
    BY <1>4 DEF S
  <1>9. PICK r : Rewound(r, text, parts, 1, at)
    BY <1>7, <1>8, RebuiltTrace
  <1>10. Rebuilt(parts, text) = result
    <2>1. 1 \in 1..1 /\ 1 - 1 = 0
      OBVIOUS
    <2>2. r[0] = Splice(r[1], at[1], parts[1].old, parts[1].new)
      BY <1>9, <2>1 DEF Rewound
    <2>3. r[1] = text /\ r[0] = Rebuilt(parts, text)
      BY <1>9 DEF Rewound
    <2> QED
      BY <1>3, <1>4, <1>6, <2>2, <2>3
  <1>11. \A i \in DOMAIN parts : StandsOnce(text, parts[i].old)
    BY <1>4, <1>5
  <1>12. OnlyPartsReplaced(text, result, edit)
    BY <1>10, <1>11 DEF OnlyPartsReplaced, Rebuilt, parts
  <1> QED
    BY <1>2, <1>11, <1>12 DEF S, parts, result

(* A unified patch that moves: every hunk where its old lines stand alone.     *)
LEMMA UnifiedReplaces ==
    ASSUME NEW text \in Seq(Tokens), NEW edit \in Edits, edit.kind = "unified", NEW rebase \in BOOLEAN,
           Unified(text, edit.hunks, rebase).ok
    PROVE  /\ Unified(text, edit.hunks, rebase).text \in Seq(Tokens)
           /\ rebase => /\ OnlyPartsReplaced(text, Unified(text, edit.hunks, rebase).text, edit)
                        /\ \A i \in DOMAIN Passages(edit) : StandsOnce(text, Passages(edit)[i].old)
  <1> DEFINE S == Tokens
             parts == edit.hunks
             n == Len(parts)
             result == Unified(text, parts, rebase).text
  <1>1. DOMAIN parts = 1..n /\ n \in Nat /\ \A k \in 1..n : HunkOf(parts[k], S)
    BY EditTexts
  <1>2. text \in Seq(S)
    OBVIOUS
  <1>3. Passages(edit) = parts
    BY DEF Passages
  <1> HIDE DEF S, n
  <1>4. PICK at, last, made :
           /\ Pieces(text, parts, n, at, last, made, S)
           /\ rebase => \A k \in 1..n : parts[k].old # <<>> /\ AloneAt(text, parts[k].old, at[k])
           /\ result = made[n] \o Segment(text, last[n], Len(text))
           /\ result \in Seq(S)
    BY <1>1, <1>2, UnifiedMeant
  <1> HIDE DEF parts, result
  <1>5. ASSUME rebase
        PROVE  /\ OnlyPartsReplaced(text, result, edit)
               /\ \A i \in DOMAIN parts : StandsOnce(text, parts[i].old)
    <2>1. \A k \in 1..n : StandsOnce(text, parts[k].old) /\ OnlyPlace(text, parts[k].old) = at[k]
      BY <1>4, <1>5, AloneOnce
    <2>2. Placed(text, parts, n, at, S)
      BY <1>1, <2>1 DEF HunkOf, Placed
    <2>3. text \in Seq(S) /\ n \in Nat /\ DOMAIN parts = 1..n /\ Pieces(text, parts, n, at, last, made, S)
      BY <1>1, <1>2, <1>4
    <2>7. result = made[n] \o Segment(text, last[n], Len(text))
      BY <1>4
    <2>4. Rebuilt(parts, text) = result
      BY <2>2, <2>3, <2>7, RebuiltMeant
    <2>5. \A i \in DOMAIN parts : StandsOnce(text, parts[i].old)
      BY <1>1, <2>1
    <2>6. OnlyPartsReplaced(text, result, edit)
      BY <1>3, <2>4, <2>5 DEF OnlyPartsReplaced, Rebuilt
    <2> QED
      BY <2>5, <2>6
  <1> QED
    BY <1>3, <1>4, <1>5 DEF S, result, parts
-----------------------------------------------------------------------------
(* A patch of the revision it was made for.                                    *)
LEMMA ApplyReplaces ==
    ASSUME NEW text \in Seq(Tokens), NEW edit \in Edits, edit.kind \in {"exact", "unified"},
           ApplyPatch(text, edit).ok
    PROVE  /\ ApplyPatch(text, edit).text \in Seq(Tokens)
           /\ edit.kind = "exact" =>
                 /\ OnlyPartsReplaced(text, ApplyPatch(text, edit).text, edit)
                 /\ \A i \in DOMAIN Passages(edit) : StandsOnce(text, Passages(edit)[i].old)
  <1>1. CASE edit.kind = "exact"
    <2>1. ApplyPatch(text, edit) = ExactPatch(text, edit)
      BY <1>1 DEF ApplyPatch
    <2> QED
      BY <1>1, <2>1, ExactReplaces
  <1>2. CASE edit.kind = "unified"
    <2>1. ApplyPatch(text, edit) = Unified(text, edit.hunks, FALSE)
      BY <1>2 DEF ApplyPatch
    <2>2. Unified(text, edit.hunks, FALSE).text \in Seq(Tokens)
      BY <1>2, <2>1, UnifiedReplaces
    <2> QED
      BY <1>2, <2>1, <2>2
  <1> QED
    BY <1>1, <1>2

(* A patch of a later revision.                                                *)
LEMMA RebaseReplaces ==
    ASSUME NEW text \in Seq(Tokens), NEW base \in Seq(Tokens), NEW edit \in Edits,
           edit.kind \in {"exact", "unified"}, Rebased(text, base, edit).ok
    PROVE  /\ Rebased(text, base, edit).text \in Seq(Tokens)
           /\ OnlyPartsReplaced(text, Rebased(text, base, edit).text, edit)
           /\ \A i \in DOMAIN Passages(edit) : StandsOnce(base, Passages(edit)[i].old)
  <1>1. Failed.ok = FALSE
    BY DEF Failed
  <1>2. CASE edit.kind = "exact"
    <2>1. ApplyPatch(base, edit).ok /\ Rebased(text, base, edit) = ExactPatch(text, edit)
      BY <1>1, <1>2 DEF Rebased
    <2>2. /\ ExactPatch(text, edit).text \in Seq(Tokens)
          /\ OnlyPartsReplaced(text, ExactPatch(text, edit).text, edit)
      BY <1>2, <2>1, ExactReplaces
    <2>3. \A i \in DOMAIN Passages(edit) : StandsOnce(base, Passages(edit)[i].old)
      BY <1>2, <2>1, ApplyReplaces
    <2> QED
      BY <2>1, <2>2, <2>3
  <1>3. CASE edit.kind = "unified"
    <2>1. Unified(base, edit.hunks, TRUE).ok /\ Rebased(text, base, edit) = Unified(text, edit.hunks, TRUE)
      BY <1>1, <1>3 DEF Rebased
    <2>2. /\ Unified(text, edit.hunks, TRUE).text \in Seq(Tokens)
          /\ OnlyPartsReplaced(text, Unified(text, edit.hunks, TRUE).text, edit)
      BY <1>3, <2>1, UnifiedReplaces
    <2>3. \A i \in DOMAIN Passages(edit) : StandsOnce(base, Passages(edit)[i].old)
      BY <1>3, <2>1, UnifiedReplaces
    <2> QED
      BY <2>1, <2>2, <2>3
  <1> QED
    BY <1>2, <1>3

(* Every revision is a text, and a draft was made from one of them.            *)
TextsWritten ==
    /\ \A i \in 1..Len(revisions) : revisions[i] \in Seq(Tokens)
    /\ \A e \in Editors : draft[e] # NoDraft => draft[e].base >= 1

(* A revision that shows what it should.                                       *)
EditShows(e) ==
    LET edit == draft[e].edit
    IN  /\ draft[e].base # post.revision =>
              /\ edit.kind \in {"exact", "unified"}
              /\ \A i \in DOMAIN Passages(edit) :
                    StandsOnce(revisions[draft[e].base], Passages(edit)[i].old)
              /\ OnlyPartsReplaced(Current, Current', edit)
        /\ edit.kind = "exact" => OnlyPartsReplaced(Current, Current', edit)

(* The text that Revise() publishes.                                           *)
LEMMA RevisePublishes ==
    ASSUME DocumentsInv, TextsWritten, NEW e \in Editors, NEW text \in Seq(Tokens), Revise(e, text)
    PROVE  TextsWritten' /\ Current' = text /\ (EditShows(e) => NoLostEdit)
  <1>1. /\ revisions' = Append(revisions, text) /\ draft' = [draft EXCEPT ![e] = NoDraft]
        /\ post' = [post EXCEPT !.generation = @ + 1, !.revision = Len(revisions) + 1]
    BY DEF Revise
  <1>2. PICK S : revisions \in Seq(S)
    BY DEF DocumentsInv, SomeSequence
  <1> DEFINE T == S \cup {text}
             n == Len(revisions)
  <1>3. revisions \in Seq(T) /\ text \in T
    BY <1>2
  <1> HIDE DEF T
  <1>4. n \in Nat /\ Len(revisions') = n + 1 /\ revisions'[n + 1] = text /\ \A i \in 1..n : revisions'[i] = revisions[i]
    BY <1>1, <1>3, AppendProperties, LenProperties
  <1>5. Current' = text
    <2>1. post'.revision = n + 1
      BY <1>1 DEF DocumentsInv, PostRows
    <2> QED
      BY <1>4, <2>1 DEF Current
  <1>6. draft'[e] = NoDraft /\ \A d \in Editors : d # e => draft'[d] = draft[d]
    BY <1>1 DEF DocumentsInv
  <1>7. TextsWritten'
    <2>1. \A i \in 1..(n + 1) : i \in 1..n \/ i = n + 1
      BY <1>4
    <2>2. \A i \in 1..Len(revisions') : revisions'[i] \in Seq(Tokens)
      BY <1>4, <2>1 DEF TextsWritten
    <2>3. \A d \in Editors : draft'[d] # NoDraft => draft'[d].base >= 1
      BY <1>6 DEF TextsWritten
    <2> QED
      BY <2>2, <2>3 DEF TextsWritten
  <1>8. ASSUME EditShows(e) PROVE NoLostEdit
    <2>1. ASSUME NEW d \in Editors, draft[d] # NoDraft, draft'[d] = NoDraft PROVE d = e
      BY <1>6, <2>1
    <2> QED
      BY <1>8, <2>1 DEF NoLostEdit, EditShows
  <1> QED
    BY <1>5, <1>7, <1>8
-----------------------------------------------------------------------------
(* The invariant says more than the type.                                      *)
LEMMA DocumentsAreTyped ==
    ASSUME DocumentsInv
    PROVE  DocumentsTyped
  <1>1. post.revision = Len(revisions) /\ post.revision \in Nat /\ post.generation \in Nat /\ post.live \in BOOLEAN
    BY DEF DocumentsInv, PostRows
  <1>2. MaxEdits \in Nat
    BY DocumentsAssumption DEF DocumentsAssumption
  <1>3. ASSUME NEW e \in Editors
        PROVE  draft[e].edit \in Edits \cup {NoDraft.edit} /\ draft[e].base \in 0..Len(revisions)
    <2>1. draft[e] \in DraftRows /\ draft[e].base <= Len(revisions)
      BY DEF DocumentsInv
    <2> QED
      BY <1>1, <2>1 DEF DraftRows
  <1> QED
    BY <1>1, <1>2, <1>3 DEF DocumentsInv, DocumentsTyped

(* A step that publishes nothing loses nothing.                                *)
LEMMA UnpublishedKeeps ==
    ASSUME DocumentsInv, TextsWritten, NEW e \in Editors,
           \/ (\E edit \in Edits : PrepareEdit(e, edit)) \/ LearnGeneration(e) \/ GiveUpEdit(e)
           \/ \E live \in BOOLEAN : Touch(e, live)
    PROVE  TextsWritten' /\ NoLostEdit
  <1>1. revisions' = revisions
    BY DEF PrepareEdit, LearnGeneration, GiveUpEdit, Touch
  <1>2. \/ \E edit : draft' = [draft EXCEPT ![e] = [edit |-> edit, base |-> post.revision,
                                                   read |-> post.generation, expected |-> post.generation]]
        \/ draft[e] # NoDraft /\ draft' = [draft EXCEPT ![e].expected = post.generation]
        \/ draft' = [draft EXCEPT ![e] = NoDraft]
    BY DEF PrepareEdit, LearnGeneration, GiveUpEdit, Touch
  <1>3. draft \in [Editors -> DraftRows] /\ post.revision >= 1
    BY DEF DocumentsInv
  <1>4. /\ \A d \in Editors : d # e => draft'[d] = draft[d]
        /\ draft'[e] = NoDraft \/ draft'[e].base = post.revision
           \/ (draft[e] # NoDraft /\ draft'[e].base = draft[e].base)
    BY <1>2, <1>3 DEF DraftRows
  <1>5. \A d \in Editors : draft'[d] # NoDraft => draft'[d].base >= 1
    BY <1>3, <1>4 DEF TextsWritten
  <1>6. TextsWritten'
    BY <1>1, <1>5 DEF TextsWritten
  <1>7. NoLostEdit
    BY <1>1 DEF NoLostEdit
  <1> QED
    BY <1>6, <1>7

(* The text of the last revision, and of the one a draft was made from.        *)
LEMMA TextsRead ==
    ASSUME DocumentsInv, TextsWritten, NEW e \in Editors, draft[e] # NoDraft
    PROVE  Current \in Seq(Tokens) /\ revisions[draft[e].base] \in Seq(Tokens)
  <1>1. draft[e] \in DraftRows /\ draft[e].base <= Len(revisions) /\ draft[e].base >= 1
    BY DEF DocumentsInv, TextsWritten
  <1>2. post.revision \in 1..Len(revisions) /\ draft[e].base \in 1..Len(revisions)
    BY <1>1 DEF DocumentsInv, PostRows, DraftRows
  <1> QED
    BY <1>2 DEF TextsWritten, Current

(* A draft of a kind is one of the edits.                                      *)
LEMMA DraftIsEdit ==
    ASSUME DocumentsInv, NEW e \in Editors, draft[e].edit.kind # "none"
    PROVE  draft[e].edit \in Edits
  <1>1. draft[e].edit \in Edits \cup {NoDraft.edit}
    BY DEF DocumentsInv, DraftRows
  <1>2. NoDraft.edit.kind = "none"
    BY DEF NoDraft
  <1> QED
    BY <1>1, <1>2

(* post_edit and post_rollback: whoever writes the whole text read the last.   *)
LEMMA WholeTextKeeps ==
    ASSUME DocumentsInv, TextsWritten, NEW e \in Editors,
           PostEdit(e) \/ \E target \in 1..Len(revisions) : PostRollback(e, target)
    PROVE  TextsWritten' /\ NoLostEdit
  <1>1. draft[e].base = post.revision /\ draft[e].edit.kind \in {"whole", "rollback"}
    BY DEF PostEdit, PostRollback
  <1>2. EditShows(e)
    BY <1>1 DEF EditShows
  <1>3. PICK text \in Seq(Tokens) : Revise(e, text)
    <2>1. CASE PostEdit(e)
      <3>1. draft[e].edit \in Edits /\ draft[e].edit.kind = "whole"
        BY <2>1, DraftIsEdit DEF PostEdit
      <3>2. draft[e].edit.text \in Seq(Tokens)
        BY <3>1, EditTexts
      <3> QED
        BY <2>1, <3>2 DEF PostEdit
    <2>2. CASE \E target \in 1..Len(revisions) : PostRollback(e, target)
      BY <2>2 DEF PostRollback, TextsWritten
    <2> QED
      BY <2>1, <2>2
  <1> QED
    BY <1>2, <1>3, RevisePublishes

(* text_patch: what it replaces is what its author named.                      *)
LEMMA TextPatchKeeps ==
    ASSUME DocumentsInv, TextsWritten, NEW e \in Editors, NEW b \in BOOLEAN, TextPatch(e, b)
    PROVE  TextsWritten' /\ NoLostEdit
  <1> DEFINE edit == draft[e].edit
             base == revisions[draft[e].base]
             result == IF draft[e].base = post.revision THEN ApplyPatch(Current, edit)
                       ELSE Rebased(Current, base, edit)
  <1>1. draft[e] # NoDraft /\ edit.kind \in {"exact", "unified"} /\ result.ok /\ Revise(e, result.text)
    BY DEF TextPatch, Expected
  <1>2. edit \in Edits
    BY <1>1, DraftIsEdit
  <1>3. Current \in Seq(Tokens) /\ base \in Seq(Tokens)
    BY <1>1, TextsRead
  <1> HIDE DEF edit, base
  <1>4. CASE draft[e].base = post.revision
    <2>1. result = ApplyPatch(Current, edit)
      BY <1>4
    <2> HIDE DEF result
    <2>2. /\ result.text \in Seq(Tokens)
          /\ edit.kind = "exact" => OnlyPartsReplaced(Current, result.text, edit)
      BY <1>1, <1>2, <1>3, <2>1, ApplyReplaces
    <2>3. TextsWritten' /\ Current' = result.text /\ (EditShows(e) => NoLostEdit)
      BY <1>1, <2>2, RevisePublishes
    <2>4. EditShows(e)
      BY <1>4, <2>2, <2>3 DEF EditShows, edit
    <2> QED
      BY <2>3, <2>4
  <1>5. CASE draft[e].base # post.revision
    <2>1. result = Rebased(Current, base, edit)
      BY <1>5
    <2> HIDE DEF result
    <2>2. /\ result.text \in Seq(Tokens) /\ OnlyPartsReplaced(Current, result.text, edit)
          /\ \A i \in DOMAIN Passages(edit) : StandsOnce(base, Passages(edit)[i].old)
      BY <1>1, <1>2, <1>3, <2>1, RebaseReplaces
    <2>3. TextsWritten' /\ Current' = result.text /\ (EditShows(e) => NoLostEdit)
      BY <1>1, <2>2, RevisePublishes
    <2>4. EditShows(e)
      BY <1>1, <2>2, <2>3 DEF EditShows, edit, base
    <2> QED
      BY <2>3, <2>4
  <1> QED
    BY <1>4, <1>5

(* Every step.                                                                 *)
LEMMA EditsKept ==
    ASSUME DocumentsInv, TextsWritten, [NextDocuments]_documents_vars
    PROVE  TextsWritten' /\ (NoLostEdit \/ UNCHANGED documents_vars)
  <1>1. CASE UNCHANGED documents_vars
    BY <1>1 DEF documents_vars, TextsWritten
  <1>2. ASSUME NEW e \in Editors,
               \/ (\E edit \in Edits : PrepareEdit(e, edit)) \/ LearnGeneration(e) \/ GiveUpEdit(e)
               \/ \E live \in BOOLEAN : Touch(e, live)
        PROVE  TextsWritten' /\ NoLostEdit
    BY <1>2, UnpublishedKeeps
  <1>3. ASSUME NEW e \in Editors, PostEdit(e) \/ \E target \in 1..Len(revisions) : PostRollback(e, target)
        PROVE  TextsWritten' /\ NoLostEdit
    BY <1>3, WholeTextKeeps
  <1>4. ASSUME NEW e \in Editors, NEW b \in BOOLEAN, TextPatch(e, b)
        PROVE  TextsWritten' /\ NoLostEdit
    BY <1>4, TextPatchKeeps
  <1>5. CASE NextDocuments
    BY <1>2, <1>3, <1>4, <1>5 DEF NextDocuments
  <1> QED
    BY <1>1, <1>5

(* Nobody's edit is lost: a patch replaces what it names and nothing else, an  *)
(* edit of the whole text comes from an author who read the last one, and no   *)
(* revision is changed or removed.                                             *)
THEOREM DocumentsAlwaysSound == DocumentsSpec => DocumentsSound
  <1>1. InitDocuments => TextsWritten
    <2> SUFFICES ASSUME InitDocuments PROVE TextsWritten
      OBVIOUS
    <2>1. revisions = <<FirstText>> /\ \A e \in Editors : draft[e] = NoDraft
      BY DEF InitDocuments
    <2>2. FirstText \in Seq(Tokens)
      BY DocumentsAssumption DEF DocumentsAssumption
    <2> QED
      BY <2>1, <2>2 DEF TextsWritten
  <1>2. TextsWritten /\ DocumentsInv /\ [NextDocuments]_documents_vars => TextsWritten'
    BY EditsKept
  <1>3. TextsWritten /\ DocumentsInv /\ [NextDocuments]_documents_vars => [NoLostEdit /\ HistoryKept]_documents_vars
    BY EditsKept, DocumentsStep
  <1>4. DocumentsInv => DocumentsTyped
    BY DocumentsAreTyped
  <1>5. DocumentsSpec => [][DocumentsTyped' /\ (NoLostEdit /\ HistoryKept)]_documents_vars
    BY <1>1, <1>2, <1>3, <1>4, DocumentsInvariance, PTL DEF DocumentsSpec
  <1> QED
    BY <1>5, PTL DEF DocumentsSound
=============================================================================
