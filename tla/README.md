# A TLA+ development of msg

msg is a message, file, identity and market server.  It runs as HTTP processes,
which execute one signed operation per write transaction, and worker processes,
which settle what is due and act on the outside world.  This directory holds TLA+
modules for the parts of it where order, failure and concurrency matter, TLC
configurations that check them on small instances, and proofs that TLAPS checks
for all values of the constants.  Paths below are relative to `src/src/msg/`.

## How the system hangs together

Three facts about the source decide how everything here is modelled.

1. **A write transaction is serial.**  `storage/postgres.py` takes one advisory
   lock for every write transaction, and `storage/sqlite.py` one write lock.  A
   handler runs inside one such transaction and a failed `require` rolls all of
   it back.  So a handler is one atomic action, with everything it calls (the
   delivery that `fund` prepares, the settlement that `accept` makes).
2. **What is not in a transaction is not atomic.**  A worker claims an effect in
   one transaction, checks authority in a second, acts on the world in none and
   records the outcome in a third.  Each is an action of its own, and a crash may
   fall between any two.
3. **The worker polls.**  `daemon.py` calls `run_once` for ever: first overdue
   orders, then overdue arbitration cases, then one effect.  Nothing else resolves
   what is due.

| Component | State | Operations | Interacts with | Hard behaviour | Correct when |
|---|---|---|---|---|---|
| Orders and escrow (`market/orders.py`, `escrow.py`) | `store_orders`, contracts, deadlines, settlement rows | reserve, buy, pay, cancel, settle, sweep | ledger, delivery, arbitration, worker | five ways to settle race each other and the sweep; a batch shares a transaction | the escrow holds the price exactly while the order is open; one settlement, which shares the price out |
| Ledger (`market/ledger.py`) | append-only entries | balance, clear, post | orders, redemption | the balance is read before it is spent | nobody overdraws |
| Delivery (`market/delivery.py`, `targets.py`) | deliveries, packages, payloads | prepare, submit, verify, accept, claim | orders, stored bytes, encryption keys | bytes lost, keys rotated, deadlines passing | claim and payment coincide; payment only by consent |
| Arbitration (`market/arbitration.py`, `rationale.py`, `policy.py`) | cases, panels, votes, decisions, grants, conflicts | open, vote, appeal, revoke, execute, resolve | orders, administration, worker | authority changes between vote and execution | money moves only as a current, authorised decision says |
| Effect queue (`workers/effects.py`, `leases.py`) | `jobs` rows with attempts and leases | enqueue, claim, sweep, record, retry | every handler that enqueues, several workers, the outside world | crashes, lapsed leases, late answers, revoked credentials | what must happen once happens at most once; the status is honest; every job ends |
| Senders (`workers/mail.py`, `webhook.py`, `sandbox*.py`, `extensions/websub.py`, `repositories.py`) | none | send, run, push | effect queue, the world | ambiguous outcomes | what they report is what they know |
| Webhook capacity (`storage/capacity.py`) | the `jobs` rows of kind webhook | prune, refuse | enqueueing handlers | a full table | no undecided delivery is dropped |
| Executor (`core/executor.py`, `batching.py`) | results, batches, events, delegations | execute, replay, independent batch | every handler | lost answers, interrupted batches, authority that changed | an operation takes effect once, and a stored answer is given only to who may read it |
| Storage session (`storage/session.py`, `postgres.py`) | rows, staged files | commit, roll back, compensate | all of the above | ambiguous commit | files and rows agree |
| OAuth (`security/oauth.py`, `transports/oauth_http.py`) | pending sign-ins, sessions, codes, token families | sign in, approve, exchange, refresh, revoke, sign out | authentication | a code or token that comes twice, a sign-out in between | each is used once, nothing outlives what it came from |
| Token delivery (`security/token_delivery.py`, `client.py`, `client_tokens.py`) | credentials, delivery rows, the client's journal | issue, rotate, recover, release, save | executor | lost answers, repeated calls, a client that dies between two files | a secret is told once, the client is never stranded |
| Root key (`admin/rotation.py`) | anchor, key file, archive, trust files, journal | prepare, complete, resume, change the PIN | administration | a crash between any two writes | a rotation can always be finished, no key is lost |
| Recovery (`admin/backups.py`, `admin/recovery_proof.py`, `security/quarantine.py`) | gate, marker, receipt, runtime generation | restore, prove, promote, serve | every transaction | a process outlives a restore; the promotion dies half way | a stale process writes nothing |
| Contents (`core/transfer.py`, `storage/git.py`, `workers/maintenance.py`) | transfers, chunks, files; index, bytes, pins | put, seal, purge, expire, collect | storage session, tool jobs | rows and bytes are not one store; commits are lost; the collector runs beside a tool | what is referred to can be read, what is not is reclaimed |
| Bounties (`plugins/bounty.py`) | escrow, listing, challenges, claims | create, top up, pause, challenge, claim, close | ledger, identity | what a challenge was granted for changes before the claim | the budget pays for proofs alone and covers what is offered |
| Documents (`plugins/content.py`, `core/text_patch.py`) | a post, its revisions | edit, patch, roll back, archive | clients that prepare edits | an edit meets a later revision | nobody's edit is lost |
| Groups, topics (`plugins/identity.py`, `plugins/content.py`, `admin/boards.py`) | memberships, bans, policies | join, invite, approve, ban, transfer, demote | authorization | a policy changes under a request | one owner, an administrator, nobody against its will |
| Hosting and offers (`extensions/hosting.py`, `plugins/hosting_capacity.py`, `plugins/offers.py`) | sites, offer, purchases, entitlements | deploy, restore, chown, reserve, settle, expire | ledger | purchases reserved side by side, entitlements that end | capacity is bounded and paid for |
| Custody (`plugins/custodial_lifecycle.py`, `plugins/recovery.py`, `plugins/identity.py`) | vault keys, sealed history, upgrade row | start, rewrap, acknowledge, finalize | key store | history written, moved and purged during the exit | nothing is lost that was not named as lost |
| Authority (`plugins/identity.py`, `security/certificates.py`, `authorization.py`) | keys, certificates, delegations, owners | delegate, certify, revoke, recover, rotate, archive | every handler | a line of delegations loses one of its members | whoever acts for another has an unbroken line from the owner |
| Sync and watches (`plugins/communication.py`, `watches.py`) | events, checkpoints, cursors | page, open, acknowledge, watch | authorization, clients | pages late or lost, access that ends | a copy misses nothing and keeps nothing it should not |
| Legacy orders, sharing, direct messages, discovery, transports, command line, imports | rows of their own | many | executor | mostly one transaction each | see "What is not modelled" |

`PROJECT.json` lists every component with what is modelled of it, and every hazard
with the line where it bites.

## The modules

### OrderEscrow and EscrowPromise

`OrderEscrow` is the market of `market/orders.py`, `escrow.py`, `delivery.py` and
`ledger.py`.  Each order is a record: its row, its contract's version, its
deadline, its delivery, and its three ledger legs (`fund` from buyer to escrow,
`refund` back, `release` to the seller).  Posting *adds* to a leg, so a leg posted
twice is seen in every balance.  What a function of the code does to an order is an
operator on the record that returns the set of records it can leave: the empty
set is a failed `require`.  A handler composes those operators as the code
composes the functions, so `Buy` is `NewOrder`, `Funded` and, for managed goods,
`Prepared` and `Released` in one action.

| Code | Action |
|---|---|
| `orders.create@1`, `@2`, and `buy@3`, `@4` | `Create`, `Buy` |
| `orders.fund@1`, `orders.cancel@2` | `Fund`, `Cancel` |
| `money.redeem@3` | `Redeem` |
| `delivery.submit@1`, `delivery.accept@2` | `Submit`, `Accept` |
| `orders.dispute_open@1` | `ObjectiveRefund` when the server sees the fault itself, else `OpenCase` |
| `arbitration.execute` and the worker's tick over decided cases | `ExecuteDecisions` (which decision is left open) |
| `resolve_due` | `ResolveDue`, a batch of `Limit` in deadline order, all or nothing |
| `store.listing_update@1`, `identity.encryption_key_rotate` | `UpdateListing`, `RetireKey` |
| a blob that is gone or does not match its digest | `LoseBytes` |

`EscrowPromise` is what escrow promises, in thirty lines: an account is empty,
then paid, then shared out between the two parties, exactly and for good.
`PromiseKept` states that the market implements it, with the three legs as the
refinement mapping.

Abstractions: a listing has one price and at most one package; the clock counts
ticks; contract versions 3, 4 and 5 are the ones that differ in who may release.
Deposits and withdrawals are an opening balance.

### Arbitration

`Arbitration` instantiates `OrderEscrow` and replaces its two abstract dispute steps
by the real ones: a case with a panel chosen from the candidates whose grants the
contract froze at checkout, votes signed by a member's current key and backed by a
pinned rationale, a decision when a quorum agrees, an execution window that
opens when the appeal closes, one appeal to a disjoint panel, revocation by a
voter, execution by a party, and the worker's tick, which executes or holds what
is overdue in one transaction (`ResolveCases`).  Around them administrators grant
and withdraw roles, members declare conflicts and replace keys, and rationale
bytes get lost.  `MarketStep`, every other step of the market, goes on meanwhile.

### EffectWorker

`EffectWorker` is the `jobs` table with several worker processes.  A worker is idle
or holds an attempt of a job in a phase: claimed, authorised, returned or raised with
an outcome.  What is returned is recorded inside the `try` of `run_once`, what is raised
by its handlers.  `effects` counts what the outside world did for a job; the code cannot
see it, the properties can.  Each sender (`MailResults`, `ToolResults`, ...) is the
set of outcomes it may report, paired with what may have happened when it does.
The state `busy` is the code's `failed` with the code `server_busy`.
`Answer` is `current_attempt`, the fence every late worker meets.  `RecordFails` is the
first record of an outcome failing: a transaction that cannot begin raises `server_busy`,
which `run_once` records as a failure, any other fault becomes `uncertain`, and `_tool`
turns both into `uncertain`.  `Crash` stands for
a dead process, a cancelled one, one whose handler cannot record either, and one that
stops because the runtime generation changed.  A `git update-ref` that fails is taken to
have moved no ref, unless it ran out of time.  A job's lease is live until `LeaseExpires`, a retried job not due until
`Backoff`.  The kind `mail` stands for the market's two mail kinds as well.
Maintenance and garbage jobs, which do local idempotent work, are left out.

### Executor and OncePerKey

`Executor` is how one subject's requests become rows of `results`
(`core/executor.py`, `plugins/batch.py`).  A request identifier is a key, a payload is
what the digest covers, and a request is a payload with the signer that carries it.

| Code | Action |
|---|---|
| `execute`, first time and again | `ExecuteSingle`, `Replay` |
| `batch.atomic` (and its alias `file.batch`), children in nested transactions | `ExecuteAtomic` |
| `_independent`, its first transaction | `Reserve` |
| one child of it, a call of `execute` | `CommitChild`, `ReplayChild`, `RefuseChild` |
| its last transaction, or a process that dies or is refused before it ends | `Finish`, `Abandon` |
| a credential is revoked, access to a resource changes, a child's expiry passes | `Revoke`, `ChangeAccess`, `Age` |

Between the transactions of an independent batch anything may come: a crash, another
process with the same batch, another batch under the same identifier, the same child
as a request of its own.  A handler is a step that is accepted or refused; what it
writes is other modules' business.  The same payload can be signed again with a new
expiry, so a single request never runs out; the children of a batch are part of its
payload with their own expiry, so a batch does.  `applied` and `answers` are histories:
in which transactions a payload took effect, and what clients were told.  A child that
a finished batch recorded as `error` may nevertheless have been applied, by an
earlier run of the batch or as a request of its own; the code does not claim
otherwise, and `OutcomesTrue` speaks of `ok` only.  Left out: the replay that rotates
a token, the pause switches, and a commit whose outcome the database does not tell.

`OncePerKey` is the promise: a key is bound to one content for ever, and a content
takes effect at the moment its key is bound.  `KeysBoundOnce` says the executor
implements it, with the row of a key as what it is bound to.

### Contents

`Contents` is the store of bytes: a file is a row of an index, bytes on disk, and the
pins that keep it, and these three do not change together.  A transaction ends by its
commit, a rollback with compensations, a crash, or a commit whose answer is lost
(`Transaction`, with `Interrupted`); each treats the pins it took and freed differently.

| Code | Action |
|---|---|
| `transfer.py` open, put, seal, cancel, status | `OpenUpload`, `OpenDownload`, `PutPart`, `Seal`, `Cancel`, `SealQuery`; the pages of a status call are `MissingRanges` |
| a file that is used again, purged | `UseFile`, `PurgeFile` |
| `maintenance.py` `_cleanup`, and time | `Cleanup`, `MarkLate` |
| the garbage collector, one entry at a time | `Collect`, `Examine`, `RemoveEntry`, `Prune`, `CollectorDies` |
| a tool job that stores its output without the fence | `WriteBytes`, `WriteIndex`, `PinOutput`, `CommitOutput`, `AbandonOutput` |

What the collector has read of the database and what it does later are separate steps;
that is where it meets a tool.  A tool's output is `old` only after a grace period
(`GrowOld`), which is why the collector spares it, and the model keeps that reason.  A binary that is stored
already is left with the age it has (`WriteBytes`), until the entry is written.  A revision
reads the content it is given before it is published (`plugins/common.py:300`), so `CommitOutput` needs
bytes, not an entry alone.  `Late` names the one job whose entry no longer has its bytes.

### Grants and GrantPromise

`Grants` is `security/oauth.py` and `transports/oauth_http.py`: sign-ins (`Begin`,
`Approve`, `PollLogin`, `Logout`), device codes (`ConsentDevice`, `PollDevice`),
authorization codes (`AuthorizeCode`, `ExchangeCode`, `ReplayCode`), families of tokens
(`Refresh`, `ReplayRefresh`, `RevokeGrant`), and changes of the subject's keys.
A code or token that comes a second time is an action of its own, because the
code answers it by revoking the family in a transaction that must commit though the
request is refused.  `GrantPromise` is what a grant is to the outside: it begins once,
lives, and what has ended stays ended.

### RootRotation, Recovery

`RootRotation` has one action for each durable write of `admin/rotation.py`, and between
any two of them `Abort` may end the command.  `Resume` starts from what is on disk.
`Recovery` has the gate in the database, the marker beside the files, the receipt of a
promotion, and processes that latch the runtime generation (`Capture`, `Load`,
`Arrive`, `Execute`).  A database and its files are restored separately.

### TokenDelivery

The service's rows and the client's journal in one module.  The client is a program that
may stop between any two writes of its files: journal, request, saved token.  `Calls`
is how many requests the service can be working on; a call may be slow, its answer
lost (`CallEnds`), and the same request may be sent again with the same number.

### Bounty, Documents

`Bounty` has an action for every operation of `plugins/bounty.py` that writes.
`Documents` is one post with several editors, each with a draft against the revision it
has read; the patches of `core/text_patch.py` are pure operators (`ExactPatch`,
`SequenceMatches`, a Knuth-Morris-Pratt search with its prefix table, `Unified`) and
`DocumentsSound` compares what they did with a direct reading of what the edit says
(`OnlyPlace`, `StandsOnce`, `OnlyPartsReplaced`).  `TextsOf` and `Tokens` are the texts an edit brings and what they
are made of, `PatchWellFormed` what the schema and `_hunks` let through.

### Authority, Groups, Topics

`Authority` is keys with ceilings, delegations and those who delegate further, helpers,
authorities and certificates of rights.  Nothing in the code records that something has become
invalid: each use walks the line of delegations again, so `Validity` is computed and
the properties speak of every use: `ActsInLine`, `OverridesInLine`, `StaysInvalid`.
`Groups` and `Topics` have an action for each operation on a membership.  `willing`,
`placed` and `came` are histories: who asked, and who was let in by whom.

### Hosting

Websites are their size and owner; capacity is the free one and what was bought and
has not ended.  An operator's offer, purchases paid at once (`Redeem`) or reserved
(`ReservePurchase`, `SettleReserved`, `Refund`), deployments and everything else that
needs room.  `Entitled`, `Published` and `Taken` are the terms of the sums.

### Custody

One owner's way out of custody: `StartUpgrade`, `FinishWrong`, `SwitchIdentity`, `FinishUpgrade`,
`Refresh`, `Rewrap`, `MakeEnvelope`, `AckCopy`, `AckRecovery`, `Finalize`; and around it the key
store goes on (`Put`, `Move`, `RotateKey`, `RenewToken`).  An item is a source or
its rewrapped copy; `place` says whether it is in the inventory.

### Sync

`communication.sync` and its checkpoints.  A page is what the service computes from a
position (`Delta`, with the limits of events scanned and resources known); the client
gets it late, twice or never.  `Held` is the copy the client would have after
the page it is about to acknowledge.

### MCServices and MCOperations

Components that share no state are checked side by side: the variable `service` (or
`active`) names the one that runs, and the others keep one initial state.  A
behaviour is thus a behaviour of one component, and the states add up instead of
multiplying.  For the executor `OneChange` lets one thing at a time be different from the start: a signer
revoked, a batch aged or an access closed, which may be undone before the next.  `QuietContents` is two
transfers of one body without a fault and without a tool; `BusyContents` adds an upload beside a tool job, and an upload
in pieces, each with one fault.  The tool returns what the upload may send or seal, so that the two meet in the store.

### Conventions

* An operator marked `\* mutant` beside a definition is that definition with a
  plausible bug.  No action uses it.  Put in the definition's place it makes TLC
  report the property it is paired with in `PROJECT.json`, so that every property
  is known to depend on the code it is about.
* `MC*` modules give constants values and put components side by side; the `.cfg`
  files choose among them.
* A guard marked `\* bound` keeps a model finite and has no counterpart in the code.
* A property called `...Sound` is a conjunction of named parts, each with its own
  comment; one run reports whichever is violated.

## Runs

Bounds are the smallest in which the case a property is about happens, and happens again
where a second time matters, or meets another one; the defect of each property is found within them.

| Run | Bounds | What it shows |
|---|---|---|
| `orders_goods` | two orders, managed and sealed goods, two buyers with money for one purchase, lost bytes, arbitration splits | `OrdersSound`: escrow matches the state, settlements are complete, claims paid, payment by consent, deadlines right; `NoOverdraft`; `SettledOnce`; the promise is kept (`PromiseKept`) |
| `orders_stock` | sealed goods in quantities to 2 and an entitlement that is sold once, a delivery window of two ticks, one order resolved per tick | `OverdueOnlyRefunds`, `StockNeverOversold`; reservations end and payments are answered (`OrdersProgress`); `OrdersConsistent`, the inductive invariant, holds |
| `arb_panel` | panel of 3, quorum 2, the buyer among the four candidates, withdrawals and new keys during the vote | `PanelSound`: one decision per round, one vote per member, no party on a panel |
| `arb_appeal` | one appeal, roles of two candidates withdrawn, that of one of them granted again | `CasesSound`: panels are disjoint and the execution window is never empty; money moves as decided (`PaidAsDecided`) and under current authority (`ExecutedUnderAuthority`); every case is executed or held (`CaseConcludes`) |
| `arb_batch` | two cases due in one tick, a conflict declared meanwhile | `CaseMatchesOrder`: a case is alive exactly while its order is disputed |
| `effects_once` | a mail, a push and a feed hint with two attempts, two workers | `EffectsSound`: at most once, what is done happened and a definite failure did not, and the invariant both rest on; `OwnAttemptOnly`: only the running attempt decides |
| `effects_limits` | two runs of a tool with one slot and two webhooks in a table of one row, one of the four in the past: it had its only attempt, and its owner has lost the right | `ToolSlots`; `VerdictsStand`, also against pruning; `EveryJobEnds` |
| `effects_failed` | a mail and a tool run | a *violation*, see below |
| `operations` | the executor: an atomic batch and two independent batches with one identifier over the same single requests, two processes, a delegation with two uses, a results table of three rows, one change at a time of signers, ages and accesses; three persons in a group; two members of a topic; two sites, two purchases, sizes 0 and 2 against a capacity of 2; two sealed entries, two versions, two tokens; two things, two events, pages of two | `ExecutorSound`, `UsesCounted`, `ReplayNeedsAccess`, `KeysBoundOnce`; `GroupsSound`; `TopicsSound`; `HostingSound`; `CustodySound`; `SyncSound` |
| `exec_reserve` | the executor alone | a *violation*, see below |
| `services` | two transfers of one body of three bytes, or one beside a tool with one fault, or one in three pieces with one fault, so that two gaps and a second page of them occur; one browser, device and code, two token pairs, a clock that reaches every expiry once; three root keys and five commands; two processes, two restores; two calls, two credentials; two claimants, two challenges; two editors, texts of four tokens, two changes; two persons with a helper, four keys, two certificates, two changes | `ContentsSound` and `ContentReclaimed`; `GrantsSound` and `GrantsKeepPromise`; `RotationSound`; `RecoverySound`; `DeliverySound`; `BountySound` and `PauseStands`; `DocumentsSound`; `AuthoritySound`; `ServicesTyped` |
| `contents_purge` | one transfer without a fault | a *violation*, see below |

The clock's `Horizon`, the number of grants (`MaxEpoch`), new keys (`MaxKey`) and
conflicts (`MaxConflicts`) are bounds, and so are all constants marked `bound` in a
module.  Horizons are longer than every timeout of the
instance together, so that each window opens and closes before the clock stops.
The code's limits (100 rows per tick, 8 attempts, 1024 queued and 8192 stored
webhooks) are constants, made small so that they are reached; `Sync`'s limits on scanned events and
kept resources are not reached in the instance, and the proofs cover them.  `Guarded` names the operations
whose access may change and the batches whose children may expire; `MaxUses` and
`MaxResults` are limits of the code, so small that a batch meets them in the middle.  `Sizes` holds 0,
which a withdrawn deployment has, and one size that fits only once.  Deadlock is not
checked where the clock's end or the end of all jobs really is the end.

Where one run has both safety and liveness, its instance is cut in the MC module and not in the component: `MCInit`
of `MCOrderEscrow` and `MCEffectWorker` picks some of the initial states or a state the code reaches by one
finished job, and `MCNext` of `MCArbitration` grants a role again to one candidate only; nobody has to grant one.  The fairness is the
component's own.

`MCSymmetry` exchanges processes, sites (Custody takes them for its sealed entries) and
purchases, or orders, candidates and workers.  The runs that use it check no liveness.

**Fairness.**  The market's properties assume that time passes and that the worker's
tick keeps happening (`daemon.py` `run`), and nothing else: nobody has to pay,
deliver, accept, vote or decide.  For the queue they assume that each process
keeps calling `run_once`, which always returns because senders and runners have time
limits, and that leases and backoffs run out.  For the store (`ContentsFairness`) they assume that time passes,
that the worker's loop runs the cleanup and the collector in turn, that
writers queue for the fence rather than starve at it, and that a tool job ends.  Crashes are not fair,
and nothing prevents them.

### What the code does differently from what it says

`effects_failed`.  The handler that records failures in `run_once` says *"Known
pre-execution rejection is a definite failure. External calls surface uncertain
explicitly"* (`workers/effects.py:661-662`), and `docs/ARCHITECTURE_REUSE.md:17-18` that a
notification's job says whether the mail "was queued, accepted, failed or uncertain".
`FailedIsDefinite` would hold if that were so for tools, or at least for mail; one
counterexample shows that it is so for neither.

A tool's answer is read inside the sandbox, and one that is too large raises
`tool_response_too_large` (`workers/sandbox_child.py:170`) after the request was
served.  The runner raises the same code again, and `_tool` calls it before the
block that would turn it into `external_uncertain`, so the job is recorded as `failed`.

A mail that the server has accepted is recorded by `_finish` (`workers/effects.py:414`, `442`,
`459`).  When its write transaction cannot begin, because the writers' fence, `BEGIN` or the
advisory lock timed out (`storage/sqlite.py:312`, `357-358`; `storage/postgres.py:665-666`), it
raises `server_busy`, and `run_once` records the job as `failed` with that code
(`workers/effects.py:660-674`).  Only `_tool` guards its record against that.

`HonestStatus` therefore claims what is left: a job recorded as done happened, and a
*definite* failure (`Definite`) did not happen.  A failed mail is definite unless its code is
`server_busy`, a failed tool run is when its code is `server_busy`, and a failed push always is: its
last transaction moves the refs itself.  A failed webhook or feed hint says nothing.

`exec_reserve`.  The docstring of `_independent` says *"Reserve an idempotency key,
commit children separately, then the result"* (`core/executor.py:351`), and
`docs/PROTOCOLS.md:55` says that the same key with other content is answered with
`idempotency_conflict`.  The reservation is a row of `batches`, which only another
independent batch looks at; `execute` looks a key up in `results` alone
(`storage/session.py:409`).  A single request with the identifier of a reserved batch
therefore succeeds, and the batch, whose children are committed, ends in
`idempotency_conflict` without a result.  `RunsReserved` states what the reservation
does achieve: no two different batches run under one key.

`contents_purge`.  The worker's collector is said to *"Remove unreferenced content after a
grace period"* (`workers/maintenance.py:357`; `SECURITY.md:35` promises users the same).
When a user purges a file, the rows go but the lease of its revision stays, and
the collector spares whatever a lease pins.  So purged content stays for ever.  What does hold is
`UnpinnedRemoved`: content that nothing refers to and no lease pins is removed.

### Other observations

Where the code's behaviour surprised us, the models follow the code.  These are not findings of
a run, but a maintainer may want to look at them.

* **Arbitration.**  One vote that can no longer be verified makes the whole count fail, so it
  blocks a quorum the others have reached (`market/arbitration.py:730`).
* **Executor.**  The children of a batch that was interrupted and resumed are recorded as
  `error` though their results are stored (`core/executor.py:408`).
* **Contents.**  Content whose representation changes keeps the pin of the old one.  A commit whose
  answer was lost may pin again what has expired.  Pins of tool jobs are never released.  A tool
  stores its output outside the fence, and only the grace period keeps the collector off it.  That period
does not begin again when the tool finds its binary in the store.  So a collector
may remove file and entry, an upload may seal the same bytes as text, which go to Git, and then the tool writes the
entry that says "binary" (`storage/git.py:410`): the published file cannot be read,
though `docs/ARCHITECTURE.md:23` excludes a committed revision without its body.  It takes three processes and
two media types of one content; `ContentKept` excepts this entry (`Late`) and nothing else.
* **Root key.**  `change_pin` reads the key file, asks for the PIN and writes the
  file back without the rotation's lock (`admin/root.py:424-436`); a rotation in between is undone in the
  file.  The model reads and writes in one step.
* **Tokens.**  A client that repeats its first command after it began a recovery
  (`client.py:903`) may save a token that the late recovery revokes.  `client.mixed` marks such a client, and
  `NeverStranded` speaks of the others.
* **Identity.**  `identity.recover` leaves the row of the primary key in `identity_keys`.  Recovery with a
  former key makes it live again, and the certificates bound to it.  `key_revoke` counts a key without a
  ceiling as the last one that can sign.  Revoking a certificate does not end those
  renewed from it; after a root rotation all earlier certificates are invalid, and none is left to renew
  from.  `identity.delegate` of an ordinary account does not bind the key it was signed with.
* **Hosting.**  A reserved purchase that is never settled or cancelled is never swept.  Purging a
  published file makes the size of its manifest, and with it every deployment of the owner, fail.
* **Text patches.**  An insertion after a last line without a newline joins the two lines.
* **Custody.**  After `refresh` finds a source gone, it stays in the frozen inventory and acknowledgements are
  refused from then on, though `docs/CUSTODIAL_HISTORY.md` tells the owner to acknowledge again; accepting the
  loss, or keeping the old key, is the way out.  When a rewrapped copy alone is gone,
  `refresh` itself refuses.  An upgrade that waits for rewrapping is bound to its token: it
  can neither finish nor start again once that expires or is rotated.  An old acknowledgement without a
  scope overwrites one with a scope.
* **Sync.**  Without a cursor one call scans at most 5000 events, so with more of them,
  mostly about other things, starting over is answered `resync_required`
  (`docs/PROTOCOLS.md:71` names other causes).  A cursor binds no certificates, unlike one of the event stream.  A client that
  takes a page into its copy before the page is acknowledged may hold what the service never counts
  as known, and is not told of its loss.  Over 64 known resources an ordinary sync fails, by design.
* **Sharing and messages** (not modelled).  A grant of the first version cannot be revoked or replaced by a new
  owner after `chown`.  A block cannot be undone, and a request that was pending can then be neither
  accepted nor rejected; `communication.send` and hand-offs ignore blocks.
* **Git over HTTP** (not modelled).  A stop whose rollback fails on a lost connection leaves the guard's
  task waiting (`git_publication.py:83-88`) and its upload slot taken.

## Proofs

Seven modules of theorems and one of lemmas about folds.  Every theorem holds for all values of the constants that satisfy
the module's assumption; clocks, counters and sets are unbounded unless a bound is a
constant.  Finiteness is assumed where sums or counts need it (jobs, request identifiers, owners, sites,
purchases, members, things); for orders it is not assumed but proved, since only finitely many exist at a time.
Of the data only this is assumed: contents are sequences of bytes, and texts sequences of tokens (`Tokens` are those that occur);
an exact patch replaces something, as the schema demands, and a diff has a hunk, as `_hunks` does (`PatchWellFormed`).

**OrderEscrowProofs.**  `IInv` is the type invariant with
`OrdersConsistent`: each record satisfies `Sound` at every step *inside* a handler
(legs, state, reason, deadline and delivery agree) and `Consistent` when the handler
commits (nothing stays `accepted`; what was released was consented to).  `Sound` is
needed because handlers compose operators, so a lemma per operator says it maps
sound records to sound ones, and the step lemmas chain them.  `OrdersAlwaysSound` follows, with it
`SettledOnce`, `OverdueOnlyRefunds`, and the refinement of `EscrowPromise`.
`NobodyOverdraws` and `StockHolds` are about sums over all orders.  Every step is one of three: nothing is
paid (`NothingPaid`: no balance falls), one order is paid (`OnePaid`) by a buyer for whom
`CanPay` held, or one is placed (`OnePlaced`) within the stock.  The sums change by one
term, and that they do is in `FoldLemmas`.

**ArbitrationProofs.**  The market inside Arbitration is an instance of `OrderEscrow` and implements it (`EscrowImplemented`), so the
market's theorems hold of it.  `CasesInv` says of every case who sits on its panels, who voted and when, and
which votes a decision counts.  It is needed because a decision is made from the votes of one
moment and executed at another: what remains true in between is that the votes are
there, from members of that round.  Two decisions of a round would need two quorums, which share a member.
The module ends with *Bounty*: `BountySound` needs that nothing was paid before the listing was published and nothing refunded
before it was closed (`NothingEarly`).  `PauseAlwaysStands` is the action property beside it.

**EffectWorkerProofs.**  `AtMostOnce` and `HonestStatus` are not inductive: they
rest on who is answerable for a job.  `QueueSound` adds that a job that may happen
once has at most one holder, that a row that is not running and not uncertain has
none, that what has not been asked for has not happened, that "done" on its
way back has happened and a definite failure on its way back has not.  A failing record is why
it also says what each kind returns rather than raises (`Tried`): a push that has moved its refs never
returns, so `RecordFails` cannot make a definite failure of it.  The sweep is the centre of it: it takes a job
from a holder that may still be at work, and the row becomes `uncertain`, which no
transition leaves.  `OwnAttemptDecides` adds that a running row has a lease (`Leased`).
`VerdictsStand` and `ToolSlots` follow from the actions, the latter by counting the running rows.

**ExecutorProofs.**  Every step either leaves `results`, `uses` and `applied`
alone or adds rows under free keys, each a row whose reported children are stored
or among the rows added with it (`StepsGrow`).  That needs `OutcomesTrue` for what a process has collected
so far, since the last transaction of a batch stores it as it is.
From `StepsGrow` follow the other parts of `ExecutorSound` and the refinement of
`OncePerKey`.  `UsesAlwaysCounted` needs that an atomic batch counts up to the limit and no further: the largest
index of a child that cost a use exists because the natural numbers are well founded.

**CredentialProofs.**  Five components, each with the invariant it needs.  *Grants*: consents, sessions and families
are written once, only the last pair of a family is unused, no row outlives what it derives from.  Each action is shown to
touch one row.  From the same invariant follows that the rows implement `GrantPromise`.  *Root rotation*: anchor, archive, key file and
trust files agree with how far the journal's run has come; `RotationResumable` alone says nothing about what a crash
leaves.  *Recovery*: every process, copy and receipt belongs to a generation that is
past or was proved for what is still closed.  *Token delivery*: one credential descends from another, one of them is live, and the journal of
a client that does not mix commands names the last (`OneLive`, `Latest`, `Orderly`).

*Authority*: `Validity` and `Line` are recursive functions over certificates that refer to earlier ones only, which is part of the
invariant; that functions with these equations exist (`ValidityExists`, `LineExists`) is shown by the least index at which
one would not.  `CertFounded` says of each certificate what it was made under, which a use does not look at again: a
delegation is no wider, no longer and less deep than the one before it, a helper's is within the ceiling of its
key, an authority was certified by the root of the rights it gives.  `KeysStay`, `RestStays` and `CertsStay` say what no step undoes;
from them follows `StaysInvalid`, by the first certificate that would come to life.  The proof showed a case that the
instance is too small for: not only a revoked key but a lapsed one may be made the key of its account again by `identity.recover`,
and the property says so since.

**ContentProofs.**  *Contents*: `ContentsInv` says that the collector is after nothing that a row refers to. It holds because a writer waits for
the fence, and `TransactionStays` shows once, for every way a transaction may end, that a
step which makes its content readable before its rows refer to it keeps `ContentKept`.  Each
handler then shows that of its rows.  A purge spares the file of a download since the
transaction that selects it looks at the open transfers (`DownloadsAlwaysServed`).  The attempt showed that the instance had
never let a tool return what an upload sends; with that, `Late` was found.

`SealedAsSent` and `MissingExact` are about loops over the parts in the order of their offsets.  `Staged` is the invariant they
need: the parts of a transfer hold bytes, none lies over another, none ends after its announced size, and a sealed transfer
announces what they make.  `PutPart` keeps it by its test for overlaps, the cleanup because parts go with their
transfer.  Then, of any set of parts that is laid out so (`Laid`): it has one order (`InOrderExists`, `InOrderMeant`); `Assembled` is the trace of
putting the parts together, and since `Covers` compares offsets on the way, what is sealed has each part at its place and nothing else
(`CoversMeant`); the scan of a status call lists, after each part, exactly the missing bytes before the end of it
(`Lists`, `GapListed`, `PartPassed`, `GapsMeant`); a page with the first gap ends where the next one begins, so the
pages together list all (`PagesMeant`, by the largest cursor for which they would not).  `ContentsAlwaysSound` is the whole of `ContentsSound`.

*Documents*: `DocumentsAlwaysSound` is the whole of `DocumentsSound`: `NoLostEdit`, `HistoryKept` and the types.
The search (`SequenceMatchesMeant`): `Ends(s, i, needle, l)` says that the first `l` tokens of `needle` end at the `i`-th of `s`, `Borders`
that the table holds, for each prefix, the longest proper one that ends with it.  Falling back through the
table visits the prefixes that end here from the longest to the shortest (`FallMeant`), so `Advance` finds the
longest that goes on (`AdvanceMeant`); hence the table is right (`PrefixTableMeant`), hence the scan knows the longest
prefix that ends at each token and the first two places before it (`ScanStepKnows`).
An exact patch that succeeds has one place, and replacing the passage between its contexts is replacing the whole of it (`ExactMeant`).
The hunks of a unified one, taken from the first to the last, cut the text into pieces (`Pieces`, `UnifiedMeant`); the property
rebuilds it from the last hunk to the first, each at its only place.  That both make the same text is `RebuiltMeant`: after the
last `n - k` hunks were replaced, what stands before hunk `k` is still the old text.  `TextsWritten`, every revision is
a sequence of tokens and every draft was made from one of them, joins this with the steps.

**OperationProofs.**  *Custody*: the service knows all it wrote, an unfinished upgrade wrote
nothing, an acknowledgement means that the key opens the revision, and the vault holds the keys
its status says.  *Hosting*: the amounts held, taken and left are one constant sum, and a settlement or a
redemption adds one term to its buyer's capacity after checking it; what ends with time only lowers its owner's capacity.  *Sync*: the copy is in step with the body the service keeps, measured by the watched
set *of that body*, not the present one; a page that is cut short ends at an event,
which exists because a bounded set of numbers has a greatest element.  *Topics* needs that who asked is known while the
request is pending; *Groups* is inductive as it stands.

**FoldLemmas.**  Sums are `SumFunctionOnSet` of the community modules, a fold over a set; texts and transfers are
put together by `FoldLeft` and `FoldRight`, which are folds over the indices of a sequence.
Induction theorems with an operator parameter are out of the provers' reach, so every lemma argues by the least counterexample:
if it failed for a finite set, there would be a least cardinality at which it
fails, as the natural numbers are well founded.  First that the fold is well defined, then that a sum gains or loses one
term, is monotone and is constant for a constant function.  For sequences, `FoldTrace` turns a fold with a typed step into
its trace: one value per index, each the step of the one before it, the last the value of the fold.  Every lemma about
a loop over parts, hunks or tokens starts from such a trace, and what holds at zero and is handed on holds at its end (`Reaches`).

Only model-checked: all liveness (`OrdersProgress`, `CaseConcludes`, `EveryJobEnds`, `ContentReclaimed`), which needs ENABLED, and
`ServicesTyped`, which puts the type invariants of independent components side by side in the instance; each follows from
its component's invariant (`ContentsAlwaysTyped`, `GrantsAlwaysTyped`, `RotationAlwaysTyped`, `RecoveryAlwaysTyped`, `DeliveryAlwaysTyped`, and `BountyInv`).

## Plan

Done: the modules above, their runs, and the proofs listed; every safety property that a run checks of a component is also
proved.  Next:

1. `GitReceive` (pushes over HTTP and SSH), `Sharing` and direct messages as modules of their own.
2. Heading and block patches, and `text_patch_batch`, in Documents.

## What is not modelled

Cryptography is its outcome: a signature is current or it is not, an envelope
opens or it does not.  The wording of policies, notices and errors, the layout of
pages and the ranking of search results have no state a property could be about.
Imports and migrations run once, offline.

Of components that are modelled in part: an edit of a listing's price (an order freezes its own when it is
placed); topic retention, viewing days and email challenges in `_cleanup`;
named API keys; OAuth scopes and rate limits; heading and block patches, patches without a newline at the end, `text_patch_batch`; previews of
websites and the purge of their files; what an entitlement's end does to sites; recovery policies, registering
an envelope and attesting that a backup was retired; the digests by which decisions are checked against what the
owner saw (every decision is taken about the present state); scopes that reach below a resource, operations of grants,
levels and renewals of certificates and a new online authority; large-file operations of git.

Of the others: direct messages, presence, claims, hand-offs and leases; sharing and
following; pushes over HTTP and SSH; legacy orders, the deduplication of game
webhooks and market mail; `client_link`, the restoring of an account's backup, achievements.
They are mostly one transaction each, and `PROJECT.json` says of each why it is left out.
